----------------------------- MODULE PoolProofs -----------------------------
(***************************************************************************)
(* What holds of a pool for every set of members and requests, all weights *)
(* and any number of rebuilds: the types, that no pass chooses by what an  *)
(* earlier one saw, that no request gives up on a member it could have     *)
(* used, and that the members' counters are kept over rebuilds.            *)
(***************************************************************************)
EXTENDS Pool, FiniteSetTheorems, TLAPS

(* A request uses a pool the registry has, or had; what it tried is part   *)
(* of that pool, and it has an answer exactly when it has ended.           *)
Placed(q) ==
    /\ req[q].phase = "new" => req[q].tried = {}
    /\ req[q].phase # "new" => req[q].pool <= current
    /\ req[q].tried \subseteq members[req[q].pool]
    /\ req[q].answer = "none" <=> req[q].phase # "done"

(* Members healthy all along are healthy now; members healthy now have     *)
(* been so during this Pick.                                               *)
Observed(q) ==
    /\ steady[q] \subseteq healthy
    /\ req[q].phase = "picking" => healthy \subseteq glimpsed[q]

(* During a pass, a member that can be used and was healthy throughout is  *)
(* tried, still to be looked at or eligible; and only members that may be  *)
(* chosen are eligible.                                                    *)
Tracked(q) ==
    req[q].phase = "picking" =>
      LET mine == members[req[q].pool] \cap Capable[q]
      IN /\ req[q].left \subseteq members[req[q].pool]
         /\ req[q].eligible \subseteq (mine \cap glimpsed[q]) \ req[q].tried
         /\ mine \cap steady[q] \subseteq req[q].tried \cup req[q].left \cup req[q].eligible

Sound ==
    /\ TypeOK
    /\ \A q \in Requests : Placed(q) /\ Observed(q) /\ Tracked(q)

-----------------------------------------------------------------------------
(* The pools are numbered.                                                 *)
LEMMA PoolNumbers == MaxRebuilds \in Nat /\ Pools \subseteq Nat
  BY PoolAssumption DEF Pools

LEMMA InitSound == Init => Sound
  <1> SUFFICES ASSUME Init PROVE Sound
    OBVIOUS
  <1> USE PoolAssumption DEF Init
  <1>0. 1 \in Pools
    BY DEF Pools
  <1>1. TypeOK
    <2>1. members \in [Pools -> SUBSET Members]
      BY <1>0
    <2>2. req \in [Requests -> RequestType]
      BY <1>0 DEF RequestType, Waiting, Answers
    <2> QED
      BY <1>0, <2>1, <2>2 DEF TypeOK, Waiting
  <1>2. ASSUME NEW q \in Requests PROVE Placed(q) /\ Observed(q) /\ Tracked(q)
    BY DEF Placed, Observed, Tracked, Waiting
  <1> QED
    BY <1>1, <1>2 DEF Sound

-----------------------------------------------------------------------------
(* What the steps of a request do to its record.                           *)

LEMMA PickingType ==
    ASSUME TypeOK, NEW r \in RequestType
    PROVE  /\ Picking(r) \in RequestType
           /\ Picking(r).phase = "picking" /\ Picking(r).pool = r.pool
           /\ Picking(r).tried = r.tried /\ Picking(r).answer = r.answer
           /\ Picking(r).left = members[r.pool] /\ Picking(r).eligible = {}
  BY DEF TypeOK, Picking, RequestType

LEMMA EndedType ==
    ASSUME NEW r \in RequestType, NEW answer \in Answers
    PROVE  /\ Ended(r, answer) \in RequestType
           /\ Ended(r, answer).phase = "done" /\ Ended(r, answer).pool = r.pool
           /\ Ended(r, answer).tried = r.tried /\ Ended(r, answer).answer = answer
  BY DEF Ended, RequestType

(* The counters only ever grow by one where they are counted.              *)
LEMMA ReleaseType ==
    ASSUME TypeOK, NEW q \in Requests, NEW success \in BOOLEAN,
           req[q].phase = "calling", Release(q, success)
    PROVE  totalErrors' \in [Pools -> [Members -> Nat]]
  <1>1. req[q].pool \in Pools /\ req[q].member \in Members
    BY DEF TypeOK, RequestType
  <1>2. CASE success
    BY <1>2 DEF Release, TypeOK
  <1>3. CASE ~success
    BY <1>1, <1>3 DEF Release, TypeOK
  <1> QED
    BY <1>2, <1>3

(* A request that has tried as many members as its pool has has tried them *)
(* all.                                                                    *)
LEMMA NoneLeft ==
    ASSUME Sound, NEW q \in Requests, ~AttemptsLeft(req[q])
    PROVE  req[q].tried = members[req[q].pool]
  <1>1. req[q].pool \in Pools /\ members[req[q].pool] \subseteq Members
    BY DEF Sound, TypeOK, RequestType
  <1>2. IsFiniteSet(members[req[q].pool])
    BY <1>1, PoolAssumption, FS_Subset
  <1>3. req[q].tried \subseteq members[req[q].pool]
    BY DEF Sound, Placed
  <1>4. IsFiniteSet(req[q].tried)
        /\ Cardinality(req[q].tried) <= Cardinality(members[req[q].pool])
        /\ (Cardinality(members[req[q].pool]) = Cardinality(req[q].tried)
             => members[req[q].pool] = req[q].tried)
    BY <1>2, <1>3, FS_Subset
  <1>5. Cardinality(req[q].tried) \in Nat /\ Cardinality(members[req[q].pool]) \in Nat
    BY <1>2, <1>4, FS_CardinalityType
  <1> QED
    BY <1>4, <1>5 DEF AttemptsLeft

-----------------------------------------------------------------------------
(* Another request's part of the invariant does not notice a step of q.    *)
LEMMA OthersSound ==
    ASSUME Sound, NEW q \in Requests, NEW k \in Requests \ {q},
           req'[k] = req[k], steady'[k] = steady[k], glimpsed'[k] = glimpsed[k],
           UNCHANGED <<current, members, healthy>>
    PROVE  (Placed(k) /\ Observed(k) /\ Tracked(k))'
  BY DEF Sound, Placed, Observed, Tracked

LEMMA BeginSound ==
    ASSUME Sound, NEW q \in Requests, Begin(q)
    PROVE  Sound'
  <1> DEFINE r == [req[q] EXCEPT !.pool = current]
  <1>1. req[q] \in RequestType /\ current \in Pools /\ r \in RequestType
        /\ r.pool = current /\ r.tried = req[q].tried /\ r.answer = req[q].answer
    BY DEF Sound, TypeOK, RequestType
  <1>2. req' = [req EXCEPT ![q] = Picking(r)]
    BY DEF Begin
  <1> HIDE DEF r
  <1>3. req'[q] = Picking(r) /\ \A k \in Requests \ {q} : req'[k] = req[k]
    BY <1>2 DEF Sound, TypeOK
  <1>4. Picking(r) \in RequestType /\ Picking(r).phase = "picking"
        /\ Picking(r).pool = current /\ Picking(r).tried = {}
        /\ Picking(r).answer = req[q].answer
        /\ Picking(r).left = members[current] /\ Picking(r).eligible = {}
    BY <1>1, PickingType DEF Sound, Placed, Begin
  <1>5. steady'[q] = healthy /\ glimpsed'[q] = healthy
        /\ steady' \in [Requests -> SUBSET Members] /\ glimpsed' \in [Requests -> SUBSET Members]
        /\ \A k \in Requests \ {q} : steady'[k] = steady[k] /\ glimpsed'[k] = glimpsed[k]
    BY DEF Begin, Sound, TypeOK
  <1>6. UNCHANGED <<current, members, counters, rrIndex, healthy, replace>>
    BY DEF Begin
  <1>7. TypeOK'
    <2>1. req' \in [Requests -> RequestType]
      BY <1>2, <1>4 DEF Sound, TypeOK
    <2>2. \A k \in Requests : req'[k].phase = "calling" => req'[k].member \in Members
      BY <1>3, <1>4 DEF Sound, TypeOK
    <2> QED
      BY <2>1, <2>2, <1>5, <1>6 DEF Sound, TypeOK, counters
  <1>8. (Placed(q) /\ Observed(q) /\ Tracked(q))'
    <2>1. Placed(q)'
      <3>1. current \in Int
        BY <1>1, PoolAssumption DEF Pools
      <3>2. req[q].answer = "none"
        BY DEF Sound, Placed, Begin
      <3> QED
        BY <1>3, <1>4, <1>6, <3>1, <3>2 DEF Placed
    <2>2. Observed(q)' /\ Tracked(q)'
      BY <1>3, <1>4, <1>5, <1>6 DEF Observed, Tracked
    <2> QED
      BY <2>1, <2>2
  <1>9. ASSUME NEW k \in Requests \ {q} PROVE (Placed(k) /\ Observed(k) /\ Tracked(k))'
    BY <1>3, <1>5, <1>6, OthersSound
  <1> QED
    BY <1>7, <1>8, <1>9 DEF Sound

LEMMA ExamineSound ==
    ASSUME Sound, NEW q \in Requests, Examine(q)
    PROVE  Sound'
  <1>1. PICK m \in req[q].left :
          req' = [req EXCEPT ![q].left = @ \ {m},
                             ![q].eligible = IF IsEligible(q, m) THEN @ \cup {m} ELSE @]
    BY DEF Examine
  <1>2. req[q] \in RequestType /\ req[q].phase = "picking" /\ m \in Members
    BY DEF Sound, TypeOK, RequestType, Examine
  <1>3. /\ req'[q].phase = "picking" /\ req'[q].pool = req[q].pool
        /\ req'[q].tried = req[q].tried /\ req'[q].answer = req[q].answer
        /\ req'[q].left = req[q].left \ {m}
        /\ req'[q].eligible = IF IsEligible(q, m) THEN req[q].eligible \cup {m}
                                                  ELSE req[q].eligible
    BY <1>1, <1>2 DEF Sound, TypeOK, RequestType
  <1>4. req' \in [Requests -> RequestType] /\ \A k \in Requests \ {q} : req'[k] = req[k]
    BY <1>1, <1>2 DEF Sound, TypeOK, RequestType
  <1>5. UNCHANGED <<current, members, counters, rrIndex, healthy, replace, history>>
    BY DEF Examine
  <1>6. TypeOK'
    <2>1. \A k \in Requests : req'[k].phase = "calling" => req'[k].member \in Members
      BY <1>3, <1>4 DEF Sound, TypeOK
    <2> QED
      BY <2>1, <1>4, <1>5 DEF Sound, TypeOK, counters, history
  <1>7. (Placed(q) /\ Observed(q) /\ Tracked(q))'
    <2>1. Placed(q)' /\ Observed(q)'
      BY <1>2, <1>3, <1>5 DEF Sound, Placed, Observed, history
    <2>2. Tracked(q)'
      BY <1>2, <1>3, <1>5 DEF Sound, Observed, Tracked, IsEligible, history
    <2> QED
      BY <2>1, <2>2
  <1>8. ASSUME NEW k \in Requests \ {q} PROVE (Placed(k) /\ Observed(k) /\ Tracked(k))'
    BY <1>4, <1>5, OthersSound DEF history
  <1> QED
    BY <1>6, <1>7, <1>8 DEF Sound

LEMMA ChooseSound ==
    ASSUME Sound, NEW q \in Requests, Choose(q)
    PROVE  Sound'
  <1>1. PICK m \in req[q].eligible :
          /\ totalRequests' = [totalRequests EXCEPT ![req[q].pool][m] = @ + 1]
          /\ req' = [req EXCEPT ![q].phase = "calling", ![q].member = m,
                                ![q].tried = @ \cup {m}]
    BY DEF Choose
  <1>2. req[q] \in RequestType /\ req[q].phase = "picking" /\ m \in Members
        /\ req[q].pool \in Pools
    BY DEF Sound, TypeOK, RequestType, Choose
  <1>3. /\ req'[q].phase = "calling" /\ req'[q].pool = req[q].pool
        /\ req'[q].tried = req[q].tried \cup {m} /\ req'[q].answer = req[q].answer
        /\ req'[q].member = m
    BY <1>1, <1>2 DEF Sound, TypeOK, RequestType
  <1>4. req' \in [Requests -> RequestType] /\ \A k \in Requests \ {q} : req'[k] = req[k]
    BY <1>1, <1>2 DEF Sound, TypeOK, RequestType
  <1>5. UNCHANGED <<current, members, totalErrors, healthy, replace, steady>>
        /\ glimpsed' = [glimpsed EXCEPT ![q] = {}]
    BY DEF Choose
  <1>6. TypeOK'
    <2>1. totalRequests' \in [Pools -> [Members -> Nat]]
      BY <1>1, <1>2 DEF Sound, TypeOK
    <2>2. rrIndex' \in [Pools -> Nat]
      <3>1. rrIndex' = [rrIndex EXCEPT ![req[q].pool] = Advanced(req[q].eligible, @)]
        BY DEF Choose
      <3>2. Advanced(req[q].eligible, rrIndex[req[q].pool]) \in Nat
        BY <1>2 DEF Advanced, Sound, TypeOK
      <3> QED
        BY <3>1, <3>2 DEF Sound, TypeOK
    <2>3. \A k \in Requests : req'[k].phase = "calling" => req'[k].member \in Members
      BY <1>2, <1>3, <1>4 DEF Sound, TypeOK
    <2> QED
      BY <2>1, <2>2, <2>3, <1>4, <1>5 DEF Sound, TypeOK
  <1>7. (Placed(q) /\ Observed(q) /\ Tracked(q))'
    <2>1. m \in members[req[q].pool]
      BY <1>2 DEF Sound, Tracked
    <2> QED
      BY <2>1, <1>2, <1>3, <1>5 DEF Sound, Placed, Observed, Tracked
  <1>8. ASSUME NEW k \in Requests \ {q} PROVE (Placed(k) /\ Observed(k) /\ Tracked(k))'
    <2>1. glimpsed'[k] = glimpsed[k]
      BY <1>5 DEF Sound, TypeOK
    <2> QED
      BY <2>1, <1>4, <1>5, OthersSound
  <1> QED
    BY <1>6, <1>7, <1>8 DEF Sound

(* A request that ends keeps nothing but its answer and what it tried.     *)
LEMMA EndSound ==
    ASSUME Sound, NEW q \in Requests, NEW answer \in Answers \ {"none"},
           req[q].phase # "new",
           req' = [req EXCEPT ![q] = Ended(@, answer)],
           steady' = [steady EXCEPT ![q] = {}],
           glimpsed' \in {glimpsed, [glimpsed EXCEPT ![q] = {}]},
           totalErrors' \in [Pools -> [Members -> Nat]],
           UNCHANGED <<current, members, totalRequests, rrIndex, healthy, replace>>
    PROVE  Sound'
  <1>1. req[q] \in RequestType
    BY DEF Sound, TypeOK
  <1>2. /\ Ended(req[q], answer) \in RequestType
        /\ Ended(req[q], answer).phase = "done" /\ Ended(req[q], answer).pool = req[q].pool
        /\ Ended(req[q], answer).tried = req[q].tried
        /\ Ended(req[q], answer).answer = answer
    BY <1>1, EndedType
  <1>3. req'[q] = Ended(req[q], answer) /\ \A k \in Requests \ {q} : req'[k] = req[k]
    BY DEF Sound, TypeOK
  <1>4. glimpsed' \in [Requests -> SUBSET Members]
        /\ \A k \in Requests \ {q} : glimpsed'[k] = glimpsed[k] /\ steady'[k] = steady[k]
    BY DEF Sound, TypeOK
  <1>5. TypeOK'
    <2>1. req' \in [Requests -> RequestType]
      BY <1>2 DEF Sound, TypeOK
    <2>2. \A k \in Requests : req'[k].phase = "calling" => req'[k].member \in Members
      BY <1>2, <1>3 DEF Sound, TypeOK
    <2> QED
      BY <2>1, <2>2, <1>4 DEF Sound, TypeOK
  <1>6. (Placed(q) /\ Observed(q) /\ Tracked(q))'
    <2>1. steady'[q] = {}
      BY DEF Sound, TypeOK
    <2> QED
      BY <2>1, <1>2, <1>3 DEF Sound, Placed, Observed, Tracked
  <1>7. ASSUME NEW k \in Requests \ {q} PROVE (Placed(k) /\ Observed(k) /\ Tracked(k))'
    BY <1>3, <1>4, OthersSound
  <1> QED
    BY <1>5, <1>6, <1>7 DEF Sound

LEMMA NothingEligibleSound ==
    ASSUME Sound, NEW q \in Requests, NothingEligible(q)
    PROVE  Sound'
  <1> DEFINE answer == IF req[q].lastErr THEN "lastErr" ELSE "unavailable"
  <1>1. answer \in Answers \ {"none"}
    BY DEF Answers
  <1>2. req' = [req EXCEPT ![q] = Ended(@, answer)]
    BY DEF NothingEligible, Sound, TypeOK
  <1>3. totalErrors' \in [Pools -> [Members -> Nat]]
    BY DEF NothingEligible, Sound, TypeOK, counters
  <1> HIDE DEF answer
  <1>4. /\ req[q].phase # "new"
        /\ steady' = [steady EXCEPT ![q] = {}] /\ glimpsed' = [glimpsed EXCEPT ![q] = {}]
        /\ UNCHANGED <<current, members, totalRequests, rrIndex, healthy, replace>>
    BY DEF NothingEligible, counters
  <1> QED
    BY <1>1, <1>2, <1>3, <1>4, EndSound

LEMMA SucceedSound ==
    ASSUME Sound, NEW q \in Requests, Succeed(q)
    PROVE  Sound'
  <1>1. totalErrors' \in [Pools -> [Members -> Nat]]
    BY ReleaseType DEF Succeed, Sound
  <1>2. "ok" \in Answers \ {"none"}
    BY DEF Answers
  <1> QED
    BY <1>1, <1>2, EndSound DEF Succeed

LEMMA FailDefinitelySound ==
    ASSUME Sound, NEW q \in Requests, FailDefinitely(q)
    PROVE  Sound'
  <1>1. totalErrors' \in [Pools -> [Members -> Nat]]
    BY ReleaseType DEF FailDefinitely, Sound
  <1>2. "definite" \in Answers \ {"none"}
    BY DEF Answers
  <1> QED
    BY <1>1, <1>2, EndSound DEF FailDefinitely

LEMMA TryAnotherSound ==
    ASSUME Sound, NEW q \in Requests, TryAnother(q)
    PROVE  Sound'
  <1>1. totalErrors' \in [Pools -> [Members -> Nat]]
    BY ReleaseType DEF TryAnother, Sound
  <1>2. CASE ~AttemptsLeft(req[q])
    <2>1. req' = [req EXCEPT ![q] = Ended(@, "lastErr")]
      BY <1>2 DEF TryAnother, Again
    <2>2. "lastErr" \in Answers \ {"none"}
      BY DEF Answers
    <2>3. /\ req[q].phase # "new"
          /\ steady' = [steady EXCEPT ![q] = {}] /\ glimpsed' = [glimpsed EXCEPT ![q] = {}]
          /\ UNCHANGED <<current, members, totalRequests, rrIndex, healthy, replace>>
      BY <1>2 DEF TryAnother
    <2> QED
      BY <1>1, <2>1, <2>2, <2>3, EndSound
  <1>3. CASE AttemptsLeft(req[q])
    <2> DEFINE r == [req[q] EXCEPT !.lastErr = TRUE]
    <2>1. req[q] \in RequestType /\ req[q].phase = "calling"
      BY DEF Sound, TypeOK, TryAnother
    <2>2. r \in RequestType /\ r.pool = req[q].pool /\ r.tried = req[q].tried
          /\ r.answer = req[q].answer
      BY <2>1 DEF RequestType
    <2>3. req' = [req EXCEPT ![q] = Picking(r)]
      BY <1>3 DEF TryAnother, Again
    <2> HIDE DEF r
    <2>4. /\ Picking(r) \in RequestType
          /\ Picking(r).phase = "picking" /\ Picking(r).pool = req[q].pool
          /\ Picking(r).tried = req[q].tried /\ Picking(r).answer = req[q].answer
          /\ Picking(r).left = members[req[q].pool] /\ Picking(r).eligible = {}
      BY <2>2, PickingType DEF Sound
    <2>5. req'[q] = Picking(r) /\ \A k \in Requests \ {q} : req'[k] = req[k]
      BY <2>3 DEF Sound, TypeOK
    <2>6. /\ glimpsed'[q] = healthy /\ glimpsed' \in [Requests -> SUBSET Members]
          /\ \A k \in Requests \ {q} : glimpsed'[k] = glimpsed[k]
          /\ steady' = steady
      BY <1>3 DEF TryAnother, Sound, TypeOK
    <2>7. UNCHANGED <<current, members, totalRequests, rrIndex, healthy, replace>>
      BY DEF TryAnother
    <2>8. TypeOK'
      <3>1. req' \in [Requests -> RequestType]
        BY <2>3, <2>4 DEF Sound, TypeOK
      <3>2. \A k \in Requests : req'[k].phase = "calling" => req'[k].member \in Members
        BY <2>4, <2>5 DEF Sound, TypeOK
      <3> QED
        BY <3>1, <3>2, <1>1, <2>6, <2>7 DEF Sound, TypeOK
    <2>9. (Placed(q) /\ Observed(q) /\ Tracked(q))'
      BY <2>1, <2>4, <2>5, <2>6, <2>7 DEF Sound, Placed, Observed, Tracked
    <2>10. ASSUME NEW k \in Requests \ {q} PROVE (Placed(k) /\ Observed(k) /\ Tracked(k))'
      BY <2>5, <2>6, <2>7, OthersSound
    <2> QED
      BY <2>8, <2>9, <2>10 DEF Sound
  <1> QED
    BY <1>2, <1>3

-----------------------------------------------------------------------------
(* The rest of the gateway.                                                *)

LEMMA ProbeFailsSound ==
    ASSUME Sound, NEW m \in Members, ProbeFails(m)
    PROVE  Sound'
  <1>1. TypeOK'
    BY DEF Sound, TypeOK, ProbeFails, counters
  <1>2. ASSUME NEW q \in Requests PROVE (Placed(q) /\ Observed(q) /\ Tracked(q))'
    BY DEF Sound, Placed, Observed, Tracked, ProbeFails
  <1> QED
    BY <1>1, <1>2 DEF Sound

LEMMA ProbeSucceedsSound ==
    ASSUME Sound, NEW m \in Members, ProbeSucceeds(m)
    PROVE  Sound'
  <1>0. /\ UNCHANGED <<current, members, req, steady>>
        /\ healthy' = healthy \cup {m}
        /\ glimpsed' \in [Requests -> SUBSET Members]
        /\ \A q \in Requests :
             /\ glimpsed[q] \subseteq glimpsed'[q]
             /\ req[q].phase = "picking" => m \in glimpsed'[q]
    BY DEF Sound, TypeOK, ProbeSucceeds
  <1>1. TypeOK'
    BY <1>0 DEF Sound, TypeOK, ProbeSucceeds, counters
  <1>2. ASSUME NEW q \in Requests PROVE (Placed(q) /\ Observed(q) /\ Tracked(q))'
    BY <1>0 DEF Sound, Placed, Observed, Tracked
  <1> QED
    BY <1>1, <1>2 DEF Sound

(* The members of the next pool are set; no request is in that pool yet.   *)
LEMMA StartReplaceSound ==
    ASSUME Sound, StartReplace
    PROVE  Sound'
  <1>1. PICK s \in Shapes :
          /\ members' = [members EXCEPT ![current + 1] = s]
          /\ replace' = [step |-> "requests", left |-> members[current] \cap s]
    BY DEF StartReplace
  <1>2. current \in Int /\ current + 1 \in Pools /\ current \in Pools /\ s \subseteq Members
    BY PoolAssumption DEF Sound, TypeOK, StartReplace, Pools
  <1>3. UNCHANGED <<current, counters, rrIndex, healthy, req, history>>
    BY DEF StartReplace
  <1>4. TypeOK'
    BY <1>1, <1>2, <1>3 DEF Sound, TypeOK, counters, history
  <1>5. ASSUME NEW q \in Requests PROVE (Placed(q) /\ Observed(q) /\ Tracked(q))'
    <2>1. CASE req[q].phase = "new"
      BY <2>1, <1>3 DEF Sound, Placed, Observed, Tracked, history
    <2>2. CASE req[q].phase # "new"
      <3>1. req[q].pool \in Pools /\ req[q].pool <= current
        BY <2>2 DEF Sound, TypeOK, RequestType, Placed
      <3>2. members'[req[q].pool] = members[req[q].pool]
        BY <1>1, <1>2, <3>1, PoolNumbers DEF Sound, TypeOK
      <3> QED
        BY <3>2, <1>3 DEF Sound, Placed, Observed, Tracked, history
    <2> QED
      BY <2>1, <2>2
  <1> QED
    BY <1>4, <1>5 DEF Sound

LEMMA ReplacingSound ==
    ASSUME Sound, Replacing
    PROVE  Sound'
  <1>0. UNCHANGED <<members, healthy, req, history, rrIndex>>
    BY DEF Replacing, CarryRequests, CarryErrors, Swap
  <1>1. TypeOK'
    <2>1. CASE CarryRequests
      <3>1. current \in Pools /\ current + 1 \in Pools /\ replace.left \subseteq Members
        BY <2>1 DEF CarryRequests, Sound, TypeOK
      <3>2. PICK m \in replace.left :
              totalRequests' = [totalRequests EXCEPT ![current + 1][m] = @ + totalRequests[current][m]]
        BY <2>1 DEF CarryRequests
      <3>3. totalRequests' \in [Pools -> [Members -> Nat]]
        BY <3>1, <3>2 DEF Sound, TypeOK
      <3>4. replace' \in [step : {"idle", "requests", "errors"}, left : SUBSET Members]
        BY <2>1 DEF CarryRequests, Sound, TypeOK
      <3>5. UNCHANGED <<current, members, totalErrors, rrIndex, healthy, req, history>>
        BY <2>1 DEF CarryRequests
      <3> QED
        BY <3>1, <3>3, <3>4, <3>5 DEF Sound, TypeOK, history
    <2>2. CASE CarryErrors
      <3>1. current \in Pools /\ current + 1 \in Pools /\ replace.left \subseteq Members
        BY <2>2 DEF CarryErrors, Sound, TypeOK
      <3>2. PICK m \in replace.left :
              /\ totalErrors' = [totalErrors EXCEPT ![current + 1][m] = @ + totalErrors[current][m]]
              /\ replace' = [step |-> "requests", left |-> replace.left \ {m}]
        BY <2>2 DEF CarryErrors
      <3>3. totalErrors' \in [Pools -> [Members -> Nat]]
        BY <3>1, <3>2 DEF Sound, TypeOK
      <3>4. replace' \in [step : {"idle", "requests", "errors"}, left : SUBSET Members]
        BY <3>1, <3>2
      <3>5. UNCHANGED <<current, members, totalRequests, rrIndex, healthy, req, history>>
        BY <2>2 DEF CarryErrors
      <3> QED
        BY <3>1, <3>3, <3>4, <3>5 DEF Sound, TypeOK, history
    <2>3. CASE Swap
      BY <2>3 DEF Sound, TypeOK, Swap, counters, history
    <2> QED
      BY <2>1, <2>2, <2>3 DEF Replacing
  <1>2. current' \in {current, current + 1}
    BY DEF Replacing, CarryRequests, CarryErrors, Swap
  <1>3. ASSUME NEW q \in Requests PROVE (Placed(q) /\ Observed(q) /\ Tracked(q))'
    <2>1. current \in Int /\ req[q].pool \in Int
      BY PoolAssumption DEF Sound, TypeOK, RequestType, Pools
    <2>2. Placed(q)'
      <3>1. req[q].pool <= current => req[q].pool <= current'
        BY <1>2, <2>1
      <3> QED
        BY <1>0, <3>1 DEF Sound, Placed
    <2> QED
      BY <1>0, <2>2 DEF Sound, Observed, Tracked, history
  <1> QED
    BY <1>1, <1>3 DEF Sound

-----------------------------------------------------------------------------
LEMMA NextSound == Sound /\ [Next]_vars => Sound'
  <1> SUFFICES ASSUME Sound, [Next]_vars PROVE Sound'
    OBVIOUS
  <1>1. ASSUME NEW q \in Requests, Progress(q) PROVE Sound'
    BY <1>1, BeginSound, ExamineSound, ChooseSound, NothingEligibleSound, SucceedSound,
       FailDefinitelySound, TryAnotherSound DEF Progress
  <1>2. CASE Replacing
    BY <1>2, ReplacingSound
  <1>3. CASE StartReplace
    BY <1>3, StartReplaceSound
  <1>4. ASSUME NEW m \in Members, ProbeFails(m) \/ ProbeSucceeds(m) PROVE Sound'
    BY <1>4, ProbeFailsSound, ProbeSucceedsSound
  <1>5. CASE UNCHANGED vars
    BY <1>5 DEF vars, counters, history, Sound, TypeOK, Placed, Observed, Tracked
  <1> QED
    BY <1>1, <1>2, <1>3, <1>4, <1>5 DEF Next, Probing

THEOREM Soundness == Spec => []Sound
  BY InitSound, NextSound, PTL DEF Spec

(* The types hold, and a call under way knows its member.                  *)
THEOREM TypeCorrect == Spec => []TypeOK
  <1>1. Sound => TypeOK
    BY DEF Sound
  <1> QED
    BY <1>1, Soundness, PTL

(* A request gives up in one of two steps: nobody is eligible, or it has   *)
(* made its last attempt.                                                  *)
LEMMA WhenItGivesUp ==
    ASSUME Sound, [Next]_vars, NEW q \in Requests, GivesUp(q)
    PROVE  NothingEligible(q) \/ (TryAnother(q) /\ ~AttemptsLeft(req[q]))
  <1>0. req \in [Requests -> RequestType] /\ req[q] \in RequestType
    BY DEF Sound, TypeOK
  <1>1. req'[q] # req[q]
    BY DEF GivesUp
  <1>2. PICK k \in Requests : Progress(k)
    BY <1>1 DEF Next, Replacing, CarryRequests, CarryErrors, Swap, StartReplace,
       Probing, ProbeFails, ProbeSucceeds, vars
  <1>3. k = q
    BY <1>0, <1>1, <1>2 DEF Progress, Begin, Examine, Choose, NothingEligible, Succeed,
       FailDefinitely, TryAnother
  <1>4. req[q].answer = "none"
    BY DEF GivesUp
  <1>5. CASE Begin(q)
    <2>1. req'[q].answer = "none"
      BY <1>0, <1>4, <1>5 DEF Begin, Picking, RequestType
    <2> QED
      BY <2>1 DEF GivesUp
  <1>6. CASE Examine(q)
    BY <1>0, <1>4, <1>6 DEF Examine, GivesUp, RequestType
  <1>7. CASE Choose(q)
    BY <1>0, <1>4, <1>7 DEF Choose, GivesUp, RequestType
  <1>8. CASE Succeed(q)
    BY <1>0, <1>8 DEF Succeed, Ended, GivesUp, RequestType
  <1>9. CASE FailDefinitely(q)
    BY <1>0, <1>9 DEF FailDefinitely, Ended, GivesUp, RequestType
  <1>10. CASE TryAnother(q) /\ AttemptsLeft(req[q])
    <2>1. req'[q].answer = "none"
      BY <1>0, <1>4, <1>10 DEF TryAnother, Again, Picking, RequestType
    <2> QED
      BY <2>1 DEF GivesUp
  <1> QED
    BY <1>2, <1>3, <1>5, <1>6, <1>7, <1>8, <1>9, <1>10 DEF Progress

(* The router gives up on no member that supports the request and was      *)
(* healthy all along.                                                      *)
THEOREM NoHealthyMemberMissed == Spec => EveryHealthyMemberTried
  <1> DEFINE Kept ==
        \A q \in Requests :
          GivesUp(q) => members[req[q].pool] \cap Capable[q] \cap steady[q] \subseteq req[q].tried
  <1>1. Sound /\ [Next]_vars => Kept
    <2> SUFFICES ASSUME Sound, [Next]_vars, NEW q \in Requests, GivesUp(q)
                 PROVE  members[req[q].pool] \cap Capable[q] \cap steady[q] \subseteq req[q].tried
      OBVIOUS
    <2>1. CASE NothingEligible(q)
      BY <2>1 DEF NothingEligible, Sound, Tracked
    <2>2. CASE TryAnother(q) /\ ~AttemptsLeft(req[q])
      BY <2>2, NoneLeft
    <2> QED
      BY <2>1, <2>2, WhenItGivesUp
  <1>2. Sound /\ [Next]_vars => [Kept]_vars
    BY <1>1
  <1> HIDE DEF Kept
  <1>3. Spec => [][Kept]_vars
    BY <1>2, Soundness, PTL DEF Spec
  <1> QED
    BY <1>3 DEF EveryHealthyMemberTried, Kept

(* Pick chooses only what it saw healthy in this pass and has not tried.   *)
THEOREM NoStaleChoiceMade == Spec => NoStaleChoice
  <1> DEFINE Fresh ==
        \A q \in Requests :
          req[q].phase = "picking" /\ req'[q].phase = "calling" =>
            req'[q].member \in
              (members[req[q].pool] \cap Capable[q] \cap glimpsed[q]) \ req[q].tried
  <1>1. Sound /\ [Next]_vars => Fresh
    <2> SUFFICES ASSUME Sound, [Next]_vars, NEW q \in Requests,
                        req[q].phase = "picking", req'[q].phase = "calling"
                 PROVE  req'[q].member \in
                          (members[req[q].pool] \cap Capable[q] \cap glimpsed[q]) \ req[q].tried
      OBVIOUS
    <2>0. req \in [Requests -> RequestType] /\ req[q] \in RequestType
      BY DEF Sound, TypeOK
    <2>1. PICK k \in Requests : Progress(k)
      BY DEF Next, Replacing, CarryRequests, CarryErrors, Swap, StartReplace,
         Probing, ProbeFails, ProbeSucceeds, vars
    <2>2. k = q
      BY <2>0, <2>1 DEF Progress, Begin, Examine, Choose, NothingEligible, Succeed,
         FailDefinitely, TryAnother
    <2>3. Choose(q)
      <3>1. ~Begin(q) /\ ~Succeed(q) /\ ~FailDefinitely(q) /\ ~TryAnother(q)
        BY DEF Begin, Succeed, FailDefinitely, TryAnother
      <3>2. ~Examine(q)
        BY <2>0 DEF Examine, RequestType
      <3>3. ~NothingEligible(q)
        <4> SUFFICES ASSUME NothingEligible(q) PROVE FALSE
          OBVIOUS
        <4>1. PICK answer : req' = [req EXCEPT ![q] = Ended(req[q], answer)]
          BY DEF NothingEligible
        <4>2. req'[q] = Ended(req[q], answer)
          BY <2>0, <4>1
        <4>3. Ended(req[q], answer).phase = "done"
          BY <2>0 DEF Ended, RequestType
        <4> QED
          BY <4>2, <4>3
      <3> QED
        BY <2>1, <2>2, <3>1, <3>2, <3>3 DEF Progress
    <2>4. req'[q].member \in req[q].eligible
      BY <2>0, <2>3 DEF Choose, RequestType
    <2> QED
      BY <2>4 DEF Sound, Tracked
  <1>2. Sound /\ [Next]_vars => [Fresh]_vars
    BY <1>1
  <1> HIDE DEF Fresh
  <1>3. Spec => [][Fresh]_vars
    BY <1>2, Soundness, PTL DEF Spec
  <1> QED
    BY <1>3 DEF NoStaleChoice, Fresh

-----------------------------------------------------------------------------
(* The counters.                                                           *)

(* A call under way has been noted as tried; what Replace has yet to carry *)
(* over is still zero in the new pool, and so is every later pool.         *)
NotedAsTried ==
    \A q \in Requests : req[q].phase = "calling" => req[q].member \in req[q].tried

NotYetCarried ==
    \A g \in Pools, m \in Members :
        /\ current < g /\ (replace.step = "idle" \/ g # current + 1) =>
              totalRequests[g][m] = 0 /\ totalErrors[g][m] = 0
        /\ g = current + 1 /\ m \in replace.left =>
              /\ totalErrors[g][m] = 0
              /\ replace.step = "requests" \/ ~IsFirst(m, replace.left) => totalRequests[g][m] = 0

Counted == NotedAsTried /\ NotYetCarried /\ CountsOnce

Counters == [Pools -> [Members -> Nat]]
Events   == [Members -> SUBSET Requests]
Users    == [Pools -> SUBSET Requests]

LEMMA FiniteEvents ==
    ASSUME NEW S \in SUBSET Requests
    PROVE  IsFiniteSet(S) /\ Cardinality(S) \in Nat
  BY PoolAssumption, FS_Subset, FS_CardinalityType

(* One more event of a request of pool g, counted there.                   *)
LEMMA CountingKeeps ==
    ASSUME NEW count \in Counters, NEW events \in Events, NEW users \in Users,
           NEW g \in Pools, NEW m \in Members, NEW q \in Requests,
           q \in users[g], \A h \in Pools : q \in users[h] => h = g, q \notin events[m],
           Within(count, events, users)
    PROVE  Within([count EXCEPT ![g][m] = @ + 1], [events EXCEPT ![m] = @ \cup {q}], users)
  <1> DEFINE count2 == [count EXCEPT ![g][m] = @ + 1]
             events2 == [events EXCEPT ![m] = @ \cup {q}]
  <1> SUFFICES ASSUME NEW h \in Pools, NEW k \in Members
               PROVE  /\ Cardinality(events2[k] \cap users[h]) <= count2[h][k]
                      /\ count2[h][k] <= Cardinality(events2[k])
    BY DEF Within
  <1>1. /\ Cardinality(events[k] \cap users[h]) <= count[h][k]
        /\ count[h][k] <= Cardinality(events[k])
    BY DEF Within
  <1>2. /\ events[k] \in SUBSET Requests /\ events[k] \cap users[h] \in SUBSET Requests
        /\ count[h][k] \in Nat
    BY DEF Counters, Events, Users
  <1>3. /\ Cardinality(events[k]) \in Nat /\ Cardinality(events[k] \cap users[h]) \in Nat
        /\ IsFiniteSet(events[k]) /\ IsFiniteSet(events[k] \cap users[h])
    BY <1>2, FiniteEvents
  <1>4. CASE k # m
    <2>1. events2[k] = events[k] /\ count2[h][k] = count[h][k]
      BY <1>4 DEF Counters, Events
    <2> QED
      BY <1>1, <2>1
  <1>5. CASE k = m
    <2>1. events2[k] = events[k] \cup {q}
      BY <1>5 DEF Events
    <2>2. Cardinality(events2[k]) = Cardinality(events[k]) + 1
      BY <1>3, <1>5, <2>1, FS_AddElement
    <2>3. CASE h = g
      <3>1. count2[h][k] = count[h][k] + 1
        BY <1>5, <2>3 DEF Counters
      <3>2. events2[k] \cap users[h] = (events[k] \cap users[h]) \cup {q}
        BY <2>1, <2>3
      <3>3. Cardinality(events2[k] \cap users[h]) = Cardinality(events[k] \cap users[h]) + 1
        BY <1>3, <1>5, <3>2, FS_AddElement
      <3> HIDE DEF count2, events2
      <3> QED
        BY <1>1, <1>2, <1>3, <2>2, <3>1, <3>3
    <2>4. CASE h # g
      <3>1. count2[h][k] = count[h][k]
        BY <2>4 DEF Counters
      <3>2. events2[k] \cap users[h] = events[k] \cap users[h]
        BY <2>1, <2>4
      <3>3. Cardinality(events2[k] \cap users[h]) = Cardinality(events[k] \cap users[h])
        BY <3>2
      <3> HIDE DEF count2, events2
      <3> QED
        BY <1>1, <1>2, <1>3, <2>2, <3>1, <3>3
    <2> QED
      BY <2>3, <2>4
  <1> QED
    BY <1>4, <1>5

(* A pool's count carried over to one that has none.                       *)
LEMMA CarryingKeeps ==
    ASSUME NEW count \in Counters, NEW events \in Events, NEW users \in Users,
           NEW g \in Pools, NEW h \in Pools, NEW m \in Members,
           count[h][m] = 0, Within(count, events, users)
    PROVE  Within([count EXCEPT ![h][m] = @ + count[g][m]], events, users)
  <1> DEFINE count2 == [count EXCEPT ![h][m] = @ + count[g][m]]
  <1> SUFFICES ASSUME NEW i \in Pools, NEW k \in Members
               PROVE  /\ Cardinality(events[k] \cap users[i]) <= count2[i][k]
                      /\ count2[i][k] <= Cardinality(events[k])
    BY DEF Within
  <1>1. /\ Cardinality(events[k] \cap users[i]) <= count[i][k]
        /\ count[i][k] <= Cardinality(events[k])
        /\ count[g][k] <= Cardinality(events[k])
    BY DEF Within
  <1>2. events[k] \cap users[i] \in SUBSET Requests /\ count[i][k] \in Nat /\ count[g][m] \in Nat
    BY DEF Counters, Events, Users
  <1>3. Cardinality(events[k] \cap users[i]) \in Nat
    BY <1>2, FiniteEvents
  <1>4. CASE i = h /\ k = m
    <2>1. count2[i][k] = count[g][k]
      BY <1>2, <1>4 DEF Counters
    <2> QED
      BY <1>1, <1>2, <1>3, <1>4, <2>1
  <1>5. CASE ~(i = h /\ k = m)
    <2>1. count2[i][k] = count[i][k]
      BY <1>5 DEF Counters
    <2> QED
      BY <1>1, <2>1
  <1> QED
    BY <1>4, <1>5

LEMMA InitCounted == Init => Counted
  <1> SUFFICES ASSUME Init PROVE Counted
    OBVIOUS
  <1> USE DEF Init
  <1>1. NotedAsTried /\ NotYetCarried
    BY DEF NotedAsTried, NotYetCarried, Waiting
  <1>2. \A m \in Members : Attempted[m] = {} /\ FailedOn[m] = {}
    BY DEF Attempted, FailedOn, Failed, Waiting
  <1>3. ASSUME NEW g \in Pools, NEW m \in Members
        PROVE  /\ Attempted[m] \cap UsersOf[g] = {} /\ FailedOn[m] \cap UsersOf[g] = {}
               /\ totalRequests[g][m] = 0 /\ totalErrors[g][m] = 0
    BY <1>2
  <1>4. Cardinality({}) = 0
    BY FS_EmptySet
  <1> HIDE DEF Init
  <1>5. ASSUME NEW g \in Pools, NEW m \in Members
        PROVE  /\ Cardinality(Attempted[m] \cap UsersOf[g]) <= totalRequests[g][m]
               /\ totalRequests[g][m] <= Cardinality(Attempted[m])
               /\ Cardinality(FailedOn[m] \cap UsersOf[g]) <= totalErrors[g][m]
               /\ totalErrors[g][m] <= Cardinality(FailedOn[m])
    <2>1. /\ Cardinality(Attempted[m] \cap UsersOf[g]) = 0 /\ Cardinality(Attempted[m]) = 0
          /\ Cardinality(FailedOn[m] \cap UsersOf[g]) = 0 /\ Cardinality(FailedOn[m]) = 0
          /\ totalRequests[g][m] = 0 /\ totalErrors[g][m] = 0
      BY <1>2, <1>3, <1>4
    <2> QED
      BY <2>1
  <1> QED
    BY <1>1, <1>5 DEF Counted, CountsOnce, Within

LEMMA CountTypes ==
    ASSUME Sound
    PROVE  /\ totalRequests \in Counters /\ totalErrors \in Counters
           /\ Attempted \in Events /\ FailedOn \in Events /\ UsersOf \in Users
  BY DEF Sound, TypeOK, Counters, Events, Users, Attempted, FailedOn, UsersOf

(* A step that leaves the counters, what every request tried and failed    *)
(* on, and the pools of those who tried something, keeps the bounds.       *)
LEMMA SameCounts ==
    ASSUME CountsOnce,
           UNCHANGED <<totalRequests, totalErrors>>,
           \A q \in Requests : /\ req'[q].tried = req[q].tried
                               /\ Failed(q)' = Failed(q)
                               /\ req'[q].pool = req[q].pool
                                  \/ (req[q].tried = {} /\ Failed(q) = {})
    PROVE  CountsOnce'
  <1>1. ASSUME NEW m \in Members
        PROVE  /\ Attempted'[m] = Attempted[m] /\ FailedOn'[m] = FailedOn[m]
    BY DEF Attempted, FailedOn
  <1>2. ASSUME NEW g \in Pools, NEW m \in Members
        PROVE  /\ Attempted'[m] \cap UsersOf'[g] = Attempted[m] \cap UsersOf[g]
               /\ FailedOn'[m] \cap UsersOf'[g] = FailedOn[m] \cap UsersOf[g]
    BY DEF Attempted, FailedOn, UsersOf
  <1> QED
    BY <1>1, <1>2 DEF CountsOnce, Within

(* Counting on a pool in use does not touch what is yet to be carried.     *)
LEMMA CountingBelow ==
    ASSUME Sound, NotYetCarried, NEW g \in Pools, g <= current, NEW m \in Members,
           totalRequests' \in {totalRequests, [totalRequests EXCEPT ![g][m] = @ + 1]},
           totalErrors' \in {totalErrors, [totalErrors EXCEPT ![g][m] = @ + 1]},
           UNCHANGED <<current, replace>>
    PROVE  NotYetCarried'
  <1>1. g \in Nat /\ current \in Nat
    BY PoolNumbers DEF Sound, TypeOK
  <1>2. ASSUME NEW h \in Pools, NEW k \in Members, current < h
        PROVE  totalRequests'[h][k] = totalRequests[h][k] /\ totalErrors'[h][k] = totalErrors[h][k]
    <2>1. h # g
      BY <1>1, <1>2, PoolNumbers
    <2> QED
      BY <2>1 DEF Sound, TypeOK
  <1>3. current < current + 1
    BY <1>1
  <1> QED
    BY <1>2, <1>3 DEF NotYetCarried

LEMMA SameRequestsCounted ==
    ASSUME Sound, Counted, NEW q \in Requests,
           UNCHANGED <<current, replace, totalRequests, totalErrors>>,
           \A k \in Requests \ {q} : req'[k] = req[k],
           req'[q].tried = req[q].tried, Failed(q)' = Failed(q),
           req'[q].phase # "calling",
           req'[q].pool = req[q].pool \/ (req[q].tried = {} /\ Failed(q) = {})
    PROVE  Counted'
  <1>1. CountsOnce'
    <2>1. ASSUME NEW k \in Requests \ {q}
          PROVE  /\ req'[k].tried = req[k].tried /\ Failed(k)' = Failed(k)
                 /\ req'[k].pool = req[k].pool
      BY DEF Failed
    <2>2. \A k \in Requests : /\ req'[k].tried = req[k].tried
                              /\ Failed(k)' = Failed(k)
                              /\ req'[k].pool = req[k].pool
                                  \/ (req[k].tried = {} /\ Failed(k) = {})
      BY <2>1
    <2> QED
      BY <2>2, SameCounts DEF Counted
  <1>2. NotedAsTried' /\ NotYetCarried'
    BY DEF Counted, NotedAsTried, NotYetCarried
  <1> QED
    BY <1>1, <1>2 DEF Counted

LEMMA BeginCounted ==
    ASSUME Sound, Counted, NEW q \in Requests, Begin(q)
    PROVE  Counted'
  <1> DEFINE r == [req[q] EXCEPT !.pool = current]
  <1>1. req[q] \in RequestType /\ r \in RequestType /\ r.tried = req[q].tried
        /\ r.answer = req[q].answer /\ req[q].phase = "new"
    BY DEF Sound, TypeOK, RequestType, Begin
  <1>2. req' = [req EXCEPT ![q] = Picking(r)]
    BY DEF Begin
  <1> HIDE DEF r
  <1>3. Picking(r).phase = "picking" /\ Picking(r).tried = req[q].tried
        /\ Picking(r).answer = req[q].answer
    BY <1>1, PickingType DEF Sound
  <1>4. req'[q] = Picking(r) /\ \A k \in Requests \ {q} : req'[k] = req[k]
    BY <1>2 DEF Sound, TypeOK
  <1>5. req[q].tried = {} /\ req[q].answer = "none"
    BY <1>1 DEF Sound, Placed
  <1>6. Failed(q) = {} /\ Failed(q)' = {}
    BY <1>1, <1>3, <1>4, <1>5 DEF Failed
  <1>7. UNCHANGED <<current, replace, totalRequests, totalErrors>>
    BY DEF Begin, counters
  <1>8. req'[q].phase # "calling" /\ req'[q].tried = req[q].tried
    BY <1>3, <1>4
  <1> QED
    BY <1>4, <1>5, <1>6, <1>7, <1>8, SameRequestsCounted

LEMMA ExamineCounted ==
    ASSUME Sound, Counted, NEW q \in Requests, Examine(q)
    PROVE  Counted'
  <1>1. req[q] \in RequestType /\ req[q].phase = "picking"
    BY DEF Sound, TypeOK, Examine
  <1>2. /\ req'[q].phase = "picking" /\ req'[q].pool = req[q].pool
        /\ req'[q].tried = req[q].tried /\ req'[q].answer = req[q].answer
        /\ req'[q].member = req[q].member
        /\ \A k \in Requests \ {q} : req'[k] = req[k]
    BY <1>1 DEF Examine, Sound, TypeOK, RequestType
  <1>3. Failed(q)' = Failed(q)
    BY <1>1, <1>2 DEF Failed
  <1>4. UNCHANGED <<current, replace, totalRequests, totalErrors>>
    BY DEF Examine, counters
  <1>5. req'[q].phase # "calling"
    BY <1>2
  <1> QED
    BY <1>2, <1>3, <1>4, <1>5, SameRequestsCounted

LEMMA NothingEligibleCounted ==
    ASSUME Sound, Counted, NEW q \in Requests, NothingEligible(q)
    PROVE  Counted'
  <1> DEFINE answer == IF req[q].lastErr THEN "lastErr" ELSE "unavailable"
  <1>1. answer \in Answers /\ answer # "ok"
    BY DEF Answers
  <1>2. req[q] \in RequestType /\ req[q].phase = "picking" /\ req[q].answer = "none"
    BY DEF Sound, TypeOK, Placed, NothingEligible
  <1>3. req'[q] = Ended(req[q], answer) /\ \A k \in Requests \ {q} : req'[k] = req[k]
    BY DEF NothingEligible, Sound, TypeOK
  <1> HIDE DEF answer
  <1>4. /\ req'[q].phase = "done" /\ req'[q].pool = req[q].pool
        /\ req'[q].tried = req[q].tried /\ req'[q].answer = answer
    BY <1>1, <1>2, <1>3, EndedType
  <1>5. Failed(q)' = Failed(q)
    BY <1>1, <1>2, <1>4 DEF Failed
  <1>6. UNCHANGED <<current, replace, totalRequests, totalErrors>>
    BY DEF NothingEligible, counters
  <1>7. req'[q].phase # "calling"
    BY <1>4
  <1> QED
    BY <1>3, <1>4, <1>5, <1>6, <1>7, SameRequestsCounted

LEMMA SucceedCounted ==
    ASSUME Sound, Counted, NEW q \in Requests, Succeed(q)
    PROVE  Counted'
  <1>1. req[q] \in RequestType /\ req[q].phase = "calling" /\ "ok" \in Answers
    BY DEF Sound, TypeOK, Succeed, Answers
  <1>2. req'[q] = Ended(req[q], "ok") /\ \A k \in Requests \ {q} : req'[k] = req[k]
    BY DEF Succeed, Sound, TypeOK
  <1>3. /\ req'[q].phase = "done" /\ req'[q].pool = req[q].pool
        /\ req'[q].tried = req[q].tried /\ req'[q].answer = "ok"
    BY <1>1, <1>2, EndedType
  <1>4. req'[q].member = req[q].member
    BY <1>1, <1>2 DEF Ended, RequestType
  <1>5. Failed(q)' = Failed(q)
    BY <1>1, <1>3, <1>4 DEF Failed
  <1>6. UNCHANGED <<current, replace, totalRequests, totalErrors>>
    BY DEF Succeed, Release
  <1>7. req'[q].phase # "calling"
    BY <1>3
  <1> QED
    BY <1>2, <1>3, <1>5, <1>6, <1>7, SameRequestsCounted

LEMMA ChooseCounted ==
    ASSUME Sound, Counted, NEW q \in Requests, Choose(q)
    PROVE  Counted'
  <1>1. PICK m \in req[q].eligible :
          /\ totalRequests' = [totalRequests EXCEPT ![req[q].pool][m] = @ + 1]
          /\ req' = [req EXCEPT ![q].phase = "calling", ![q].member = m,
                                ![q].tried = @ \cup {m}]
    BY DEF Choose
  <1>2. /\ req[q] \in RequestType /\ req[q].phase = "picking" /\ m \in Members
        /\ req[q].pool \in Pools /\ m \notin req[q].tried
        /\ req[q].answer = "none" /\ req[q].pool <= current
    BY DEF Sound, TypeOK, RequestType, Choose, Tracked, Placed
  <1>3. /\ req'[q].phase = "calling" /\ req'[q].pool = req[q].pool
        /\ req'[q].tried = req[q].tried \cup {m} /\ req'[q].answer = req[q].answer
        /\ req'[q].member = m
        /\ \A k \in Requests \ {q} : req'[k] = req[k]
    BY <1>1, <1>2 DEF Sound, TypeOK, RequestType
  <1>4. UNCHANGED <<current, replace, totalErrors>>
    BY DEF Choose
  <1>5. NotedAsTried'
    BY <1>3 DEF Counted, NotedAsTried
  <1>6. NotYetCarried'
    BY <1>1, <1>2, <1>4, CountingBelow DEF Counted
  <1>7. \A k \in Requests : Failed(k)' = Failed(k) /\ req'[k].pool = req[k].pool
    <2>1. Failed(q) = req[q].tried /\ Failed(q)' = (req[q].tried \cup {m}) \ {m}
      BY <1>2, <1>3 DEF Failed
    <2>2. Failed(q)' = Failed(q)
      BY <1>2, <2>1
    <2>3. \A k \in Requests \ {q} : Failed(k)' = Failed(k)
      BY <1>3 DEF Failed
    <2> QED
      BY <1>3, <2>2, <2>3
  <1>8. FailedOn' = FailedOn /\ UsersOf' = UsersOf
    BY <1>7 DEF FailedOn, UsersOf
  <1>9. Attempted' = [Attempted EXCEPT ![m] = @ \cup {q}]
    <2>1. ASSUME NEW k \in Members
          PROVE  Attempted'[k] = [Attempted EXCEPT ![m] = @ \cup {q}][k]
      BY <1>2, <1>3 DEF Attempted
    <2> QED
      BY <2>1 DEF Attempted
  <1>10. Within(totalRequests', Attempted', UsersOf)
    <2>1. q \notin Attempted[m]
      BY <1>2 DEF Attempted
    <2>2. \A h \in Pools : q \in UsersOf[h] <=> h = req[q].pool
      BY DEF UsersOf
    <2>3. Within(totalRequests, Attempted, UsersOf)
      BY DEF Counted, CountsOnce
    <2> QED
      BY <1>1, <1>2, <1>9, <2>1, <2>2, <2>3, CountTypes, CountingKeeps
  <1>11. CountsOnce'
    BY <1>4, <1>8, <1>10 DEF Counted, CountsOnce, Within
  <1> QED
    BY <1>5, <1>6, <1>11 DEF Counted

(* The member that failed is charged once, wherever the request goes next. *)
LEMMA ReleaseCounted ==
    ASSUME Sound, Counted, NEW q \in Requests, NEW r \in RequestType,
           req[q].phase = "calling", Release(q, FALSE),
           req' = [req EXCEPT ![q] = r],
           r.tried = req[q].tried, r.pool = req[q].pool,
           r.phase # "calling", r.answer # "ok",
           UNCHANGED <<current, replace, totalRequests>>
    PROVE  Counted'
  <1> DEFINE m == req[q].member
             g == req[q].pool
  <1>1. /\ m \in Members /\ g \in Pools /\ g <= current /\ m \in req[q].tried
        /\ req[q] \in RequestType
    BY DEF Sound, TypeOK, RequestType, Placed, Counted, NotedAsTried
  <1>2. totalErrors' = [totalErrors EXCEPT ![g][m] = @ + 1]
    BY DEF Release
  <1>3. req'[q] = r /\ \A k \in Requests \ {q} : req'[k] = req[k]
    BY DEF Sound, TypeOK
  <1>4. \A k \in Requests : req'[k].tried = req[k].tried /\ req'[k].pool = req[k].pool
    BY <1>3
  <1>5. Failed(q) = req[q].tried \ {m} /\ Failed(q)' = req[q].tried
        /\ \A k \in Requests \ {q} : Failed(k)' = Failed(k)
    BY <1>3 DEF Failed
  <1> HIDE DEF m, g
  <1>6. NotedAsTried'
    BY <1>3 DEF Counted, NotedAsTried
  <1>7. NotYetCarried'
    BY <1>1, <1>2, CountingBelow DEF Counted
  <1>8. Attempted' = Attempted /\ UsersOf' = UsersOf
    BY <1>4 DEF Attempted, UsersOf
  <1>9. FailedOn' = [FailedOn EXCEPT ![m] = @ \cup {q}]
    <2>1. ASSUME NEW k \in Members
          PROVE  FailedOn'[k] = [FailedOn EXCEPT ![m] = @ \cup {q}][k]
      BY <1>1, <1>5 DEF FailedOn
    <2> QED
      BY <2>1 DEF FailedOn
  <1>10. Within(totalErrors', FailedOn', UsersOf)
    <2>1. q \notin FailedOn[m]
      BY <1>1, <1>5 DEF FailedOn
    <2>2. \A h \in Pools : q \in UsersOf[h] <=> h = g
      BY DEF UsersOf, g
    <2>3. Within(totalErrors, FailedOn, UsersOf)
      BY DEF Counted, CountsOnce
    <2> QED
      BY <1>1, <1>2, <1>9, <2>1, <2>2, <2>3, CountTypes, CountingKeeps
  <1>11. CountsOnce'
    BY <1>8, <1>10 DEF Counted, CountsOnce, Within
  <1> QED
    BY <1>6, <1>7, <1>11 DEF Counted

LEMMA FailDefinitelyCounted ==
    ASSUME Sound, Counted, NEW q \in Requests, FailDefinitely(q)
    PROVE  Counted'
  <1> DEFINE r == Ended(req[q], "definite")
  <1>1. req[q] \in RequestType /\ "definite" \in Answers
    BY DEF Sound, TypeOK, Answers
  <1>2. r \in RequestType /\ r.tried = req[q].tried /\ r.pool = req[q].pool
        /\ r.phase # "calling" /\ r.answer # "ok"
    BY <1>1, EndedType
  <1>3. /\ req[q].phase = "calling" /\ Release(q, FALSE) /\ req' = [req EXCEPT ![q] = r]
        /\ UNCHANGED <<current, replace, totalRequests>>
    BY DEF FailDefinitely
  <1> HIDE DEF r
  <1> QED
    BY <1>2, <1>3, ReleaseCounted

LEMMA TryAnotherCounted ==
    ASSUME Sound, Counted, NEW q \in Requests, TryAnother(q)
    PROVE  Counted'
  <1> DEFINE r == Again(req[q])
             failed == [req[q] EXCEPT !.lastErr = TRUE]
  <1>1. /\ req[q] \in RequestType /\ "lastErr" \in Answers /\ failed \in RequestType
        /\ failed.tried = req[q].tried /\ failed.pool = req[q].pool
        /\ failed.answer = req[q].answer /\ req[q].answer = "none"
    <2>1. req[q] \in RequestType
      BY DEF Sound, TypeOK
    <2>2. req[q].answer = "none"
      BY DEF Sound, Placed, TryAnother
    <2> QED
      BY <2>1, <2>2 DEF RequestType, Answers
  <1>2. r = IF AttemptsLeft(req[q]) THEN Picking(failed) ELSE Ended(req[q], "lastErr")
    BY DEF Again
  <1>3. /\ req[q].phase = "calling" /\ Release(q, FALSE) /\ req' = [req EXCEPT ![q] = r]
        /\ UNCHANGED <<current, replace, totalRequests>>
    BY DEF TryAnother
  <1> HIDE DEF r, failed
  <1>4. r \in RequestType /\ r.tried = req[q].tried /\ r.pool = req[q].pool
        /\ r.phase # "calling" /\ r.answer # "ok"
    <2>1. CASE AttemptsLeft(req[q])
      BY <1>1, <1>2, <2>1, PickingType DEF Sound
    <2>2. CASE ~AttemptsLeft(req[q])
      BY <1>1, <1>2, <2>2, EndedType
    <2> QED
      BY <2>1, <2>2
  <1> QED
    BY <1>3, <1>4, ReleaseCounted

(* Nobody uses the next pool yet, and what is carried was zero there.      *)
LEMMA CarryRequestsCounted ==
    ASSUME Sound, Counted, CarryRequests
    PROVE  Counted'
  <1>1. PICK m \in replace.left :
          /\ IsFirst(m, replace.left)
          /\ totalRequests' =
               [totalRequests EXCEPT ![current + 1][m] = @ + totalRequests[current][m]]
    BY DEF CarryRequests
  <1>2. /\ m \in Members /\ current \in Pools /\ current + 1 \in Pools /\ current \in Nat
        /\ replace.step = "requests" /\ replace.left \subseteq Members
    BY PoolNumbers DEF Sound, TypeOK, CarryRequests
  <1>3. UNCHANGED <<current, req, totalErrors>>
        /\ replace'.step = "errors" /\ replace'.left = replace.left
    BY DEF CarryRequests, Sound, TypeOK
  <1>4. totalRequests[current + 1][m] = 0
    BY <1>1, <1>2 DEF Counted, NotYetCarried
  <1>5. NotYetCarried'
    <2>1. ASSUME NEW g \in Pools, NEW k \in Members, ~(g = current + 1 /\ k = m)
          PROVE  totalRequests'[g][k] = totalRequests[g][k]
      BY <1>1, <1>2, <2>1 DEF Sound, TypeOK
    <2>2. ASSUME NEW k \in replace.left, ~IsFirst(k, replace.left)
          PROVE  totalRequests'[current + 1][k] = 0
      BY <1>1, <1>2, <2>1, <2>2 DEF Counted, NotYetCarried
    <2> QED
      BY <1>2, <1>3, <2>1, <2>2 DEF Counted, NotYetCarried
  <1>6. CountsOnce'
    <2>1. Attempted' = Attempted /\ UsersOf' = UsersOf /\ FailedOn' = FailedOn
      BY <1>3 DEF Attempted, UsersOf, FailedOn, Failed
    <2>2. Within(totalRequests', Attempted, UsersOf)
      BY <1>1, <1>2, <1>4, CountTypes, CarryingKeeps DEF Counted, CountsOnce
    <2> QED
      BY <1>3, <2>1, <2>2 DEF Counted, CountsOnce, Within
  <1>7. NotedAsTried'
    BY <1>3 DEF Counted, NotedAsTried
  <1> QED
    BY <1>5, <1>6, <1>7 DEF Counted

LEMMA CarryErrorsCounted ==
    ASSUME Sound, Counted, CarryErrors
    PROVE  Counted'
  <1>1. PICK m \in replace.left :
          /\ IsFirst(m, replace.left)
          /\ totalErrors' =
               [totalErrors EXCEPT ![current + 1][m] = @ + totalErrors[current][m]]
          /\ replace' = [step |-> "requests", left |-> replace.left \ {m}]
    BY DEF CarryErrors
  <1>2. /\ m \in Members /\ current \in Pools /\ current + 1 \in Pools /\ current \in Nat
        /\ replace.step = "errors" /\ replace.left \subseteq Members
    BY PoolNumbers DEF Sound, TypeOK, CarryErrors
  <1>3. UNCHANGED <<current, req, totalRequests>>
        /\ replace'.step = "requests" /\ replace'.left = replace.left \ {m}
    BY <1>1 DEF CarryErrors
  <1>4. totalErrors[current + 1][m] = 0
    BY <1>1, <1>2 DEF Counted, NotYetCarried
  <1>5. NotYetCarried'
    <2>1. ASSUME NEW g \in Pools, NEW k \in Members, ~(g = current + 1 /\ k = m)
          PROVE  totalErrors'[g][k] = totalErrors[g][k]
      BY <1>1, <1>2, <2>1 DEF Sound, TypeOK
    <2>2. ASSUME NEW k \in replace.left \ {m}
          PROVE  ~IsFirst(k, replace.left)
      <3>1. Rank[m] \in Nat /\ Rank[k] \in Nat /\ (Rank[m] = Rank[k] => m = k)
        BY <1>2, PoolAssumption
      <3> QED
        BY <1>1, <3>1 DEF IsFirst
    <2>3. ASSUME NEW k \in replace.left \ {m}
          PROVE  totalRequests'[current + 1][k] = 0 /\ totalErrors'[current + 1][k] = 0
      BY <1>2, <1>3, <2>1, <2>2 DEF Counted, NotYetCarried
    <2> QED
      BY <1>2, <1>3, <2>1, <2>3 DEF Counted, NotYetCarried
  <1>6. CountsOnce'
    <2>1. Attempted' = Attempted /\ UsersOf' = UsersOf /\ FailedOn' = FailedOn
      BY <1>3 DEF Attempted, UsersOf, FailedOn, Failed
    <2>2. Within(totalErrors', FailedOn, UsersOf)
      BY <1>1, <1>2, <1>4, CountTypes, CarryingKeeps DEF Counted, CountsOnce
    <2> QED
      BY <1>3, <2>1, <2>2 DEF Counted, CountsOnce, Within
  <1>7. NotedAsTried'
    BY <1>3 DEF Counted, NotedAsTried
  <1> QED
    BY <1>5, <1>6, <1>7 DEF Counted

(* The pools after the new one are as empty as they were.                  *)
LEMMA SwapCounted ==
    ASSUME Sound, Counted, Swap
    PROVE  Counted'
  <1>1. /\ current \in Nat /\ current' = current + 1 /\ replace.step # "idle"
        /\ replace'.step = "idle" /\ replace'.left = {}
        /\ UNCHANGED <<req, totalRequests, totalErrors>>
    BY PoolNumbers DEF Sound, TypeOK, Swap, counters
  <1>2. NotYetCarried'
    <2>1. ASSUME NEW g \in Pools, current + 1 < g
          PROVE  current < g /\ g # current + 1
      BY <1>1, <2>1, PoolNumbers
    <2> QED
      BY <1>1, <2>1 DEF Counted, NotYetCarried
  <1>3. CountsOnce' /\ NotedAsTried'
    BY <1>1 DEF Counted, CountsOnce, Within, Attempted, FailedOn, UsersOf, Failed, NotedAsTried
  <1> QED
    BY <1>2, <1>3 DEF Counted

LEMMA StartReplaceCounted ==
    ASSUME Sound, Counted, StartReplace
    PROVE  Counted'
  <1>1. /\ current \in Nat /\ current < current + 1 /\ replace.step = "idle"
        /\ replace'.step = "requests" /\ replace'.left \subseteq Members
        /\ UNCHANGED <<current, req, totalRequests, totalErrors>>
    BY PoolNumbers DEF Sound, TypeOK, StartReplace, counters
  <1>2. NotYetCarried'
    BY <1>1 DEF Counted, NotYetCarried
  <1>3. CountsOnce' /\ NotedAsTried'
    BY <1>1 DEF Counted, CountsOnce, Within, Attempted, FailedOn, UsersOf, Failed, NotedAsTried
  <1> QED
    BY <1>2, <1>3 DEF Counted

LEMMA NextCounted == Sound /\ Counted /\ [Next]_vars => Counted'
  <1> SUFFICES ASSUME Sound, Counted, [Next]_vars PROVE Counted'
    OBVIOUS
  <1>1. ASSUME NEW q \in Requests, Progress(q) PROVE Counted'
    BY <1>1, BeginCounted, ExamineCounted, ChooseCounted, NothingEligibleCounted,
       SucceedCounted, FailDefinitelyCounted, TryAnotherCounted DEF Progress
  <1>2. CASE Replacing
    BY <1>2, CarryRequestsCounted, CarryErrorsCounted, SwapCounted DEF Replacing
  <1>3. CASE StartReplace
    BY <1>3, StartReplaceCounted
  <1>4. ASSUME UNCHANGED <<current, counters, replace, req>> PROVE Counted'
    BY <1>4 DEF counters, Counted, CountsOnce, Within, Attempted, FailedOn, UsersOf,
       Failed, NotedAsTried, NotYetCarried
  <1>5. ASSUME NEW m \in Members, ProbeFails(m) \/ ProbeSucceeds(m) PROVE Counted'
    BY <1>4, <1>5 DEF ProbeFails, ProbeSucceeds
  <1>6. CASE UNCHANGED vars
    BY <1>4, <1>6 DEF vars
  <1> QED
    BY <1>1, <1>2, <1>3, <1>5, <1>6 DEF Next, Probing

(* No count of a member is lost to a concurrent pick, made twice by a      *)
(* release, or carried over twice by Replace.                              *)
THEOREM CountsKept == Spec => []CountsOnce
  <1>1. Init => Sound /\ Counted
    BY InitSound, InitCounted
  <1>2. Counted => CountsOnce
    BY DEF Counted
  <1>3. Spec => []Counted
    BY <1>1, NextCounted, Soundness, PTL DEF Spec
  <1> QED
    BY <1>2, <1>3, PTL
=============================================================================
