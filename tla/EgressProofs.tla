--------------------------- MODULE EgressProofs ---------------------------
(***************************************************************************)
(* What holds of the exits of a provider for any number of workers, any    *)
(* configurations, any extension exits and any tiers: the shape of the     *)
(* state, that an exit is out for failures that stand, that a Pick finds   *)
(* an exit and a failover the one it was promised whatever moves under     *)
(* them, and who demotes a tier and for how long.                          *)
(***************************************************************************)
EXTENDS Egress, TLAPS, FiniteSetTheorems

LEMMA Numbers ==
  /\ BadAfter \in Nat /\ BadAfter > 0 /\ CoolDown \in Nat /\ LimitedCoolDown \in Nat
  /\ \A e \in Exits : TierOf[e] \in Tiers /\ TierOf[e] \in Int
BY EgressAssumption DEF Tiers

Healths == [failures : 0..BadAfter, down : 0..CoolDown, limited : 0..LimitedCoolDown]
Phases == {"idle", "asking", "choosing", "using", "reporting"}
Views == [avail : SUBSET Exits, open : SUBSET Tiers]
Attempts == [phase : Phases, tried : SUBSET Exits, seen : SUBSET Exits,
             off : SUBSET Exits, exit : Exits \cup {NoExit}, lost : BOOLEAN, view : Views,
             outcome : Outcomes, steady : SUBSET Exits, good : SUBSET Exits]

\* A worker that uses an exit, or reports on it, has one: NoExit has no health.
HoldsExit == \A w \in Workers : req[w].phase \in {"using", "reporting"} => req[w].exit \in Exits

Parts ==
  /\ present \in BOOLEAN /\ syncing \in BOOLEAN
  /\ core \subseteq Core /\ disabled \subseteq Exits /\ ext \subseteq Offered
  /\ conf \in Confs
  /\ health \in [Exits -> Healths]
  /\ tierLimit \in [Tiers -> 0..LimitedCoolDown]
  /\ req \in [Workers -> Attempts]

LEMMA PartsAreType == Parts <=> TypeOK
BY DEF Parts, TypeOK, Healths, Phases, Views, Attempts

EgressInv == Parts /\ HoldsExit /\ DownIsEarned

-----------------------------------------------------------------------------
(* Selection *)

\* A finite set of tiers has a lowest one.
LEMMA LowestTier ==
  ASSUME NEW S, IsFiniteSet(S), S # {}, \A x \in S : TierOf[x] \in Int
  PROVE \E m \in S : \A x \in S : TierOf[m] <= TierOf[x]
<1> DEFINE below(k) == {x \in S : TierOf[x] <= TierOf[k]}
<1> DEFINE downs == {below(k) : k \in S}
<1> DEFINE R == StrictSubsetOrdering(S)
<1>1. downs \subseteq FiniteSubsetsOf(S) /\ downs # {}
  <2>1. \A k \in S : IsFiniteSet(below(k)) /\ below(k) \in SUBSET S
    BY FS_Subset
  <2>2. QED
    BY <2>1 DEF FiniteSubsetsOf
<1>2. IsWellFoundedOn(R, FiniteSubsetsOf(S))
  BY FS_StrictSubsetOrderingWellFounded, Zenon
<1>3. PICK d \in downs : \A y \in downs : ~(<<y, d>> \in R)
  <2> HIDE DEF downs, R
  <2>1. QED
    BY <1>1, <1>2, WFMin, Zenon
<1>4. PICK m \in S : d = below(m)
  OBVIOUS
<1>5. ASSUME NEW k \in S, ~(TierOf[m] <= TierOf[k]) PROVE FALSE
  <2>1. TierOf[k] \in Int /\ TierOf[m] \in Int
    OBVIOUS
  <2>2. below(k) \subseteq below(m) /\ m \notin below(k) /\ m \in below(m)
    BY <2>1, <1>5
  <2>3. below(k) \in SUBSET S /\ below(m) \in SUBSET S
    OBVIOUS
  <2>4. <<below(k), below(m)>> \in R
    BY <2>2, <2>3 DEF StrictSubsetOrdering
  <2>5. QED
    BY <1>3, <1>4, <2>4
<1>6. QED
  BY <1>5

LEMMA LowestExists ==
  ASSUME NEW es \in SUBSET Exits, es # {} PROVE Lowest(es) # {}
<1>1. IsFiniteSet(es)
  BY EgressAssumption, FS_Subset
<1>2. \A x \in es : TierOf[x] \in Int
  BY Numbers
<1>3. PICK m \in es : \A x \in es : TierOf[m] <= TierOf[x]
  BY <1>1, <1>2, LowestTier
<1>4. QED
  BY <1>3 DEF Lowest

LEMMA LowestWithin == ASSUME NEW es PROVE Lowest(es) \subseteq es
BY DEF Lowest

LEMMA ChoicesExist ==
  ASSUME NEW all \in SUBSET Exits, NEW tried, NEW v
  PROVE /\ Choices(all, tried, v) \subseteq all
        /\ all # {} => Choices(all, tried, v) # {}
<1> DEFINE es == Usable(all, tried, v)
<1> DEFINE rest == {e \in es : TierOf[e] \in v.open}
<1> DEFINE from == IF rest = {} THEN es ELSE rest
<1>1. es \subseteq all /\ (all # {} => es # {})
  BY DEF Usable
<1>2. Choices(all, tried, v) = Lowest(from)
  BY DEF Choices, ChooseTier
<1>3. from \in SUBSET Exits /\ from \subseteq all /\ (all # {} => from # {})
  BY <1>1
<1> HIDE DEF from
<1>4. QED
  BY <1>2, <1>3, LowestExists, LowestWithin

LEMMA ChoicesKeepPromise ==
  ASSUME NEW all \in SUBSET Exits, NEW tried, NEW v, NEW f \in all \ tried,
         f \in v.avail, TierOf[f] \in v.open,
         NEW e \in Choices(all, tried, v)
  PROVE e \in all /\ e \notin tried /\ e \in v.avail /\ TierOf[e] \in v.open
<1> DEFINE fresh == (all \ tried) \cap v.avail
<1> DEFINE rest == {d \in fresh : TierOf[d] \in v.open}
<1>1. f \in fresh /\ f \in rest
  OBVIOUS
<1>2. Usable(all, tried, v) = fresh
  BY <1>1 DEF Usable
<1>3. Choices(all, tried, v) = Lowest(rest)
  BY <1>1, <1>2 DEF Choices, ChooseTier
<1>4. e \in rest
  BY <1>3, LowestWithin
<1>5. QED
  BY <1>4

-----------------------------------------------------------------------------
(* Every attempt keeps its shape *)

LEMMA RestingType ==
  /\ Resting \in Attempts /\ Resting.phase = "idle"
  /\ Resting.good = {} /\ Resting.steady = {} /\ Resting.tried = {}
BY DEF Resting, Attempts, Phases, Outcomes, Views

LEMMA StandingType == Standing \in Views
BY DEF Standing, Views

LEMMA ViewType ==
  ASSUME Parts, NEW w \in Workers PROVE View(w) \in Views
BY StandingType DEF View, Parts, Attempts

LEMMA RecountedType ==
  ASSUME NEW r \in Attempts, NEW s, s = Recounted(r)
  PROVE s \in Attempts /\ s.phase = r.phase /\ s.exit = r.exit
BY DEF Recounted, Attempts

LEMMA OrphanedType ==
  ASSUME NEW r \in Attempts
  PROVE Orphaned(r) \in Attempts /\ Orphaned(r).phase = r.phase /\ Orphaned(r).exit = r.exit
<1>1. ASSUME NEW v \in Views
      PROVE /\ [r EXCEPT !.lost = TRUE, !.view = v] \in Attempts
            /\ [r EXCEPT !.lost = TRUE, !.view = v].phase = r.phase
            /\ [r EXCEPT !.lost = TRUE, !.view = v].exit = r.exit
  BY DEF Attempts
<1>2. QED
  BY <1>1, StandingType DEF Orphaned

LEMMA RecountType ==
  ASSUME EgressInv, Recount
  PROVE req' \in [Workers -> Attempts] /\ HoldsExit'
<1>1. \A v \in Workers : req[v] \in Attempts /\ req'[v] = Recounted(req[v])
  BY DEF EgressInv, Parts, Recount
<1>2. \A v \in Workers : req'[v] \in Attempts /\ req'[v].phase = req[v].phase
                          /\ req'[v].exit = req[v].exit
  BY <1>1, RecountedType
<1>3. req' = [v \in Workers |-> req'[v]]
  BY DEF Recount
<1>4. QED
  BY <1>2, <1>3 DEF EgressInv, HoldsExit

-----------------------------------------------------------------------------
LEMMA EgressInvInit == Init => EgressInv
<1> SUFFICES ASSUME Init PROVE EgressInv
  OBVIOUS
<1> USE DEF Init
<1>1. core \subseteq Core /\ disabled \subseteq Exits /\ ext \subseteq Offered /\ conf \in Confs
  BY EgressAssumption DEF Exits
<1>2. health \in [Exits -> Healths]
  BY Numbers DEF Healths, Untouched
<1>3. tierLimit \in [Tiers -> 0..LimitedCoolDown]
  BY Numbers
<1>4. req \in [Workers -> Attempts]
  BY RestingType
<1>5. present \in BOOLEAN /\ syncing \in BOOLEAN
  BY Zenon
<1>6. HoldsExit /\ DownIsEarned
  BY DEF HoldsExit, DownIsEarned, Resting, Untouched
<1>7. QED
  BY <1>1, <1>2, <1>3, <1>4, <1>5, <1>6 DEF EgressInv, Parts

\* What an outcome makes of a health: of the right shape, and out for hard
\* failures only with all of them standing.
LEMMA AfterHealth ==
  ASSUME NEW h \in Healths, NEW o \in Outcomes, h.down > 0 => h.failures = BadAfter
  PROVE After(h, o) \in Healths /\ (After(h, o).down > 0 => After(h, o).failures = BadAfter)
<1>1. CASE o = "ok"
  BY <1>1, Numbers DEF After, Untouched, Healths
<1>2. CASE o = "limited"
  BY <1>2, Numbers DEF After, Untouched, Healths
<1>3. CASE o = "failed"
  <2> DEFINE n == IF h.failures < BadAfter THEN h.failures + 1 ELSE BadAfter
  <2>1. n \in 0..BadAfter /\ (h.failures = BadAfter => n = BadAfter)
    BY Numbers DEF Healths
  <2>2. After(h, o) = [h EXCEPT !.failures = n, !.down = IF n = BadAfter THEN CoolDown ELSE @]
    BY <1>3 DEF After, FailedAgain
  <2>3. CASE n = BadAfter
    <3>1. After(h, o) = [h EXCEPT !.failures = BadAfter, !.down = CoolDown]
      BY <2>2, <2>3, Zenon
    <3>2. After(h, o) = [failures |-> BadAfter, down |-> CoolDown, limited |-> h.limited]
      BY <3>1 DEF Healths
    <3>3. QED
      BY <3>2, Numbers DEF Healths
  <2>4. CASE n # BadAfter
    <3>1. After(h, o) = [h EXCEPT !.failures = n, !.down = @]
      BY <2>2, <2>4, Zenon
    <3>2. After(h, o).down = h.down /\ After(h, o) \in Healths
      <4> HIDE DEF n
      <4>1. QED
        BY <3>1, <2>1, Numbers DEF Healths
    <3>3. QED
      BY <3>2, <2>1, <2>4
  <2>5. QED
    BY <2>3, <2>4
<1>4. QED
  BY <1>1, <1>2, <1>3 DEF Outcomes

LEMMA TickHealth ==
  ASSUME NEW h \in Healths, h.down > 0 => h.failures = BadAfter
  PROVE /\ [h EXCEPT !.down = Less(@), !.limited = Less(@)] \in Healths
        /\ Less(h.down) > 0 => h.failures = BadAfter
<1>1. \A b \in Nat : \A k \in 0..b : Less(k) \in 0..b /\ (Less(k) > 0 => k > 0)
  BY DEF Less
<1>2. /\ h.down \in 0..CoolDown /\ h.limited \in 0..LimitedCoolDown
      /\ h = [failures |-> h.failures, down |-> h.down, limited |-> h.limited]
      /\ h.failures \in 0..BadAfter
  BY DEF Healths
<1>3. Less(h.down) \in 0..CoolDown /\ Less(h.limited) \in 0..LimitedCoolDown
  BY <1>1, <1>2, Numbers
<1>4. ASSUME NEW g, g = [h EXCEPT !.down = Less(@), !.limited = Less(@)] PROVE g \in Healths
  <2>1. g = [failures |-> h.failures, down |-> Less(h.down), limited |-> Less(h.limited)]
    BY <1>4 DEF Healths
  <2>2. QED
    BY <2>1, <1>2, <1>3 DEF Healths
<1>5. Less(h.down) > 0 => h.failures = BadAfter
  BY <1>1, <1>2, Numbers
<1>6. QED
  BY <1>4, <1>5

-----------------------------------------------------------------------------
(* The steps of a worker *)

\* An attempt's new record: of the right type, and with an exit when it needs one.
LEMMA OneAttempt ==
  ASSUME EgressInv, NEW w \in Workers, NEW r \in Attempts,
         r.phase \in {"using", "reporting"} => r.exit \in Exits,
         req' = [req EXCEPT ![w] = r],
         UNCHANGED <<registry, ext, conf, syncing>>
  PROVE EgressInv'
<1> USE DEF EgressInv
<1>1. /\ present' = present /\ core' = core /\ disabled' = disabled /\ health' = health
      /\ tierLimit' = tierLimit /\ ext' = ext /\ conf' = conf /\ syncing' = syncing
     
  BY Zenon DEF registry
<1>2. req' \in [Workers -> Attempts]
  BY DEF Parts
<1>3. HoldsExit'
  BY DEF Parts, HoldsExit
<1>4. DownIsEarned'
  BY <1>1 DEF DownIsEarned
<1>5. Parts'
  BY <1>1, <1>2, Zenon DEF Parts
<1>6. QED
  BY <1>3, <1>4, <1>5

LEMMA UsesKeeps ==
  ASSUME EgressInv, NEW w \in Workers, NEW e \in Exits, Uses(w, e),
         UNCHANGED <<registry, ext, conf, syncing>>
  PROVE EgressInv'
<1> DEFINE r == [Resting EXCEPT !.phase = "using", !.exit = e, !.tried = req[w].tried \cup {e}]
<1>1. req[w].tried \in SUBSET Exits
  BY DEF EgressInv, Parts, Attempts
<1>2. r \in Attempts /\ r.exit \in Exits
  BY <1>1, RestingType DEF Attempts, Phases
<1>3. req' = [req EXCEPT ![w] = r]
  BY DEF Uses
<1> HIDE DEF r
<1>4. QED
  BY <1>2, <1>3, OneAttempt

LEMMA RestKeeps ==
  ASSUME NEW t \in SUBSET Exits, NEW g \in SUBSET Exits
  PROVE /\ [Resting EXCEPT !.tried = t] \in Attempts
        /\ [Resting EXCEPT !.tried = t].phase = "idle"
        /\ [Resting EXCEPT !.tried = t, !.good = g] \in Attempts
        /\ [Resting EXCEPT !.tried = t, !.good = g].phase = "idle"
BY RestingType DEF Attempts

\* What a snapshot writes, by its five values.
Taken(r, c, d, n, l, v) ==
  [r EXCEPT !.seen = c, !.off = d, !.steady = n, !.lost = l, !.view = v]

LEMMA TakenType ==
  ASSUME NEW r \in Attempts, NEW c \in SUBSET Exits, NEW d \in SUBSET Exits,
         NEW n \in SUBSET Exits, NEW l \in BOOLEAN, NEW v \in Views
  PROVE /\ Taken(r, c, d, n, l, v) \in Attempts
        /\ \A s : s = Taken(r, c, d, n, l, v) =>
             /\ s.phase = r.phase /\ s.tried = r.tried /\ s.good = r.good
             /\ s.seen = c /\ s.off = d /\ s.steady = n /\ s.lost = l /\ s.view = v
BY DEF Taken, Attempts

SnapshotView(r) == IF present THEN r.view ELSE [avail |-> Exits, open |-> Tiers]

LEMMA SnapshotTakes ==
  ASSUME EgressInv, NEW w \in Workers, NEW r \in Attempts, Snapshot(w, r)
  PROVE /\ core \in SUBSET Exits /\ disabled \in SUBSET Exits /\ Enabled \in SUBSET Exits
        /\ (~present) \in BOOLEAN /\ SnapshotView(r) \in Views
        /\ req' = [req EXCEPT ![w] = Taken(r, core, disabled, Enabled, ~present, SnapshotView(r))]
        /\ UNCHANGED <<registry, ext, conf, syncing>>
<1>1. core \in SUBSET Exits /\ disabled \in SUBSET Exits /\ Enabled \in SUBSET Exits
  BY DEF EgressInv, Parts, Exits, Enabled
<1>2. (~present) \in BOOLEAN
  BY Zenon
<1>3. SnapshotView(r) \in Views
  BY DEF SnapshotView, Views, Attempts
<1>4. /\ req' = [req EXCEPT ![w] = Taken(r, core, disabled, Enabled, ~present, SnapshotView(r))]
      /\ UNCHANGED <<registry, ext, conf, syncing>>
  BY Zenon DEF Snapshot, Taken, SnapshotView
<1>5. QED
  BY <1>1, <1>2, <1>3, <1>4, Zenon

LEMMA SnapshotKeeps ==
  ASSUME EgressInv, NEW w \in Workers, NEW r \in Attempts,
         r.phase \in {"asking", "choosing"}, Snapshot(w, r)
  PROVE EgressInv'
<1>1. PICK l \in BOOLEAN : l = ~present
  BY Zenon
<1>2. /\ core \in SUBSET Exits /\ disabled \in SUBSET Exits /\ Enabled \in SUBSET Exits
      /\ SnapshotView(r) \in Views
      /\ UNCHANGED <<registry, ext, conf, syncing>>
  BY SnapshotTakes
<1> DEFINE s == Taken(r, core, disabled, Enabled, l, SnapshotView(r))
<1>3. req' = [req EXCEPT ![w] = s]
  BY <1>1, SnapshotTakes, Zenon
<1>4. s \in Attempts /\ s.phase = r.phase
  BY <1>2, TakenType
<1> HIDE DEF s
<1>5. QED
  BY <1>2, <1>3, <1>4, OneAttempt

LEMMA WorkerKeeps ==
  ASSUME EgressInv, NEW w \in Workers,
         PickSnapshot(w) \/ PickChoose(w) \/ AskSnapshot(w) \/ AskAnswer(w)
           \/ (\E o \in Outcomes : Answer(w, o)) \/ EndRequest(w)
  PROVE EgressInv'
<1>1. /\ req[w] \in Attempts /\ core \in SUBSET Exits /\ disabled \in SUBSET Exits
      /\ ext \in SUBSET Exits
  BY DEF EgressInv, Parts, Exits
<1>2. CASE PickSnapshot(w)
  <2>1. [req[w] EXCEPT !.phase = "choosing"] \in Attempts
        /\ [req[w] EXCEPT !.phase = "choosing"].phase = "choosing"
    BY <1>1 DEF Attempts, Phases
  <2>2. QED
    BY <1>2, <2>1, SnapshotKeeps DEF PickSnapshot
<1>3. CASE AskSnapshot(w)
  <2>1. [req[w] EXCEPT !.phase = "asking", !.good = Exits] \in Attempts
        /\ [req[w] EXCEPT !.phase = "asking", !.good = Exits].phase = "asking"
    BY <1>1 DEF Attempts, Phases
  <2>2. QED
    BY <1>3, <2>1, SnapshotKeeps DEF AskSnapshot
<1>4. CASE PickChoose(w)
  <2> DEFINE es == Choices(Listed(w), req[w].tried, View(w))
  <2>1. Listed(w) \in SUBSET Exits /\ req[w].tried \in SUBSET Exits
    BY <1>1 DEF Attempts, Listed
  <2>2. es \subseteq Exits
    BY <2>1, ChoicesExist
  <2>3. CASE es = {}
    <3>1. /\ req' = [req EXCEPT ![w] = [Resting EXCEPT !.tried = req[w].tried]]
          /\ UNCHANGED <<registry, ext, conf, syncing>>
      BY <1>4, <2>3 DEF PickChoose
    <3>2. QED
      BY <2>1, <3>1, RestKeeps, OneAttempt
  <2>4. CASE es # {}
    <3>1. PICK e \in es : Uses(w, e)
      BY <1>4, <2>4 DEF PickChoose
    <3>2. UNCHANGED <<registry, ext, conf, syncing>>
      BY <1>4 DEF PickChoose
    <3>3. QED
      BY <2>2, <3>1, <3>2, UsesKeeps
  <2>5. QED
    BY <2>3, <2>4
<1>5. CASE AskAnswer(w)
  <2> DEFINE g == Alternatives(Listed(w), req[w].tried, View(w)) \cap req[w].steady \cap req[w].good
  <2>1. g \in SUBSET Exits /\ req[w].tried \in SUBSET Exits
    BY <1>1 DEF Attempts
  <2>2. /\ req' = [req EXCEPT ![w] = [Resting EXCEPT !.tried = req[w].tried, !.good = g]]
        /\ UNCHANGED <<registry, ext, conf, syncing>>
    BY <1>5 DEF AskAnswer
  <2> HIDE DEF g
  <2>3. QED
    BY <2>1, <2>2, RestKeeps, OneAttempt
<1>6. CASE \E o \in Outcomes : Answer(w, o)
  <2>1. PICK o \in Outcomes : Answer(w, o)
    BY <1>6
  <2> DEFINE r == [req[w] EXCEPT !.phase = "reporting", !.outcome = o, !.seen = core \cup ext]
  <2>2. req[w].phase = "using" /\ req[w].exit \in Exits
    BY <2>1 DEF Answer, EgressInv, HoldsExit
  <2>3. r \in Attempts /\ r.exit = req[w].exit
    BY <1>1 DEF Attempts, Phases
  <2>4. req' = [req EXCEPT ![w] = r] /\ UNCHANGED <<registry, ext, conf, syncing>>
    BY <2>1 DEF Answer, EgressInv, Parts
  <2> HIDE DEF r
  <2>5. QED
    BY <2>2, <2>3, <2>4, OneAttempt
<1>7. CASE EndRequest(w)
  BY <1>7, RestingType, OneAttempt DEF EndRequest
<1>8. QED
  BY <1>2, <1>3, <1>4, <1>5, <1>6, <1>7

LEMMA ReportKeeps ==
  ASSUME EgressInv, NEW w \in Workers, ReportApply(w)
  PROVE EgressInv'
<1> DEFINE e == req[w].exit
<1> DEFINE o == req[w].outcome
<1> DEFINE h == [health EXCEPT ![e] = After(@, o)]
<1>1. e \in Exits /\ o \in Outcomes /\ req[w].tried \in SUBSET Exits
  BY DEF ReportApply, EgressInv, HoldsExit, Parts, Attempts
<1>2. health \in [Exits -> Healths] /\ health[e] \in Healths
  BY <1>1 DEF EgressInv, Parts
<1>3. After(health[e], o) \in Healths
      /\ (After(health[e], o).down > 0 => After(health[e], o).failures = BadAfter)
  BY <1>1, <1>2, AfterHealth DEF EgressInv, DownIsEarned
<1>4. h \in [Exits -> Healths] /\ \A x \in Exits : h[x].down > 0 => h[x].failures = BadAfter
  BY <1>1, <1>2, <1>3 DEF EgressInv, DownIsEarned
<1>5. health' \in {h, health}
  BY DEF ReportApply
<1>6. health' \in [Exits -> Healths] /\ DownIsEarned'
  <2> HIDE DEF h, e, o
  <2>1. CASE health' = h
    BY <2>1, <1>4 DEF DownIsEarned
  <2>2. CASE health' = health
    BY <2>2, <1>2 DEF DownIsEarned, EgressInv
  <2>3. QED
    BY <1>5, <2>1, <2>2
<1>7. tierLimit' \in [Tiers -> 0..LimitedCoolDown]
  <2> DEFINE t == TierOf[e]
  <2> DEFINE v == TierAfter(h, req[w].seen, t, o)
  <2>1. t \in Tiers /\ tierLimit \in [Tiers -> 0..LimitedCoolDown]
    BY <1>1, Numbers DEF EgressInv, Parts
  <2>2. v \in {0, LimitedCoolDown, tierLimit[t]}
    BY DEF TierAfter
  <2>3. tierLimit' = [tierLimit EXCEPT ![t] = v] \/ tierLimit' = tierLimit
    BY DEF ReportApply
  <2> HIDE DEF t, v
  <2>4. QED
    BY <2>1, <2>2, <2>3, Numbers
<1>8. req' \in [Workers -> Attempts] /\ HoldsExit'
  <2> DEFINE r == [Resting EXCEPT !.tried = req[w].tried]
  <2>1. r \in Attempts /\ r.phase = "idle"
    BY <1>1, RestKeeps
  <2>2. /\ req'[w] = r /\ \A v \in Workers \ {w} : req'[v] = Recounted(req[v])
        /\ req' = [v \in Workers |-> req'[v]]
    BY DEF ReportApply
  <2>3. \A v \in Workers : req[v] \in Attempts
    BY DEF EgressInv, Parts
  <2>4. \A v \in Workers \ {w} : req'[v] \in Attempts /\ req'[v].phase = req[v].phase
                                /\ req'[v].exit = req[v].exit
    BY <2>2, <2>3, RecountedType
  <2> HIDE DEF r
  <2>5. QED
    BY <2>1, <2>2, <2>4 DEF EgressInv, HoldsExit
<1>9. /\ present' = present /\ core' = core /\ disabled' = disabled /\ ext' = ext
      /\ conf' = conf /\ syncing' = syncing
  BY Zenon DEF ReportApply
<1>10. QED
  BY <1>6, <1>7, <1>8, <1>9, Zenon DEF EgressInv, Parts

-----------------------------------------------------------------------------
(* The other steps *)

LEMMA ConfShape == ASSUME NEW c \in Confs PROVE c.core \subseteq Core /\ c.disabled \subseteq Exits
BY EgressAssumption

LEMMA SyncKeeps ==
  ASSUME EgressInv, NEW c \in Confs, SyncCandidates(c)
  PROVE EgressInv'
<1>1. conf' = c /\ syncing' = TRUE /\ ext' = ext
  BY Zenon DEF SyncCandidates, SetCore, Remove
<1>2. Untouched \in Healths /\ Untouched.down = 0
  BY Numbers DEF Untouched, Healths
<1>3. CASE SetCore(c)
  <2>1. present' = TRUE /\ core' = c.core /\ disabled' = disabled /\ tierLimit' = tierLimit
    BY <1>3, Zenon DEF SetCore
  <2>2. health' \in [Exits -> Healths] /\ DownIsEarned'
    <3>1. \A e \in Exits : health'[e] = health[e] \/ health'[e] = Untouched
      BY <1>3 DEF SetCore
    <3>2. health' = [e \in Exits |-> IF e \in c.core THEN health[e] ELSE Untouched]
      BY <1>3 DEF SetCore
    <3>3. health' \in [Exits -> Healths]
      BY <1>2, <3>2 DEF EgressInv, Parts
    <3>4. QED
      BY <1>2, <3>1, <3>3 DEF EgressInv, DownIsEarned
  <2>3. core' \subseteq Core /\ disabled' \subseteq Exits /\ ext' \subseteq Offered /\ conf' \in Confs
    BY <1>1, <2>1, ConfShape DEF EgressInv, Parts
  <2>4. tierLimit' \in [Tiers -> 0..LimitedCoolDown] /\ req' \in [Workers -> Attempts] /\ HoldsExit'
    BY <1>3, <2>1, RecountType DEF SetCore, EgressInv, Parts
  <2>5. present' \in BOOLEAN /\ syncing' \in BOOLEAN
    BY <1>1, <2>1, Zenon DEF EgressInv, Parts
  <2>6. QED
    BY <2>2, <2>3, <2>4, <2>5 DEF EgressInv, Parts
<1>4. CASE Remove(c)
  <2>1. present' = FALSE /\ core' = {} /\ disabled' = {}
    BY <1>4, Zenon DEF Remove
  <2>2. health' \in [Exits -> Healths] /\ DownIsEarned'
    <3>1. health' = [e \in Exits |-> Untouched]
      BY <1>4 DEF Remove
    <3>2. QED
      BY <1>2, <3>1 DEF DownIsEarned
  <2>3. tierLimit' \in [Tiers -> 0..LimitedCoolDown]
    <3>1. tierLimit' = [t \in Tiers |-> 0]
      BY <1>4, Zenon DEF Remove
    <3>2. 0 \in 0..LimitedCoolDown
      BY Numbers
    <3>3. QED
      BY <3>1, <3>2
  <2>4. req' \in [Workers -> Attempts] /\ HoldsExit'
    <3>1. \A v \in Workers : req'[v] = Recounted(Orphaned(req[v])) /\ req[v] \in Attempts
      BY <1>4 DEF Remove, EgressInv, Parts
    <3>2. \A v \in Workers : /\ Orphaned(req[v]) \in Attempts
                              /\ Orphaned(req[v]).phase = req[v].phase
                              /\ Orphaned(req[v]).exit = req[v].exit
      BY <3>1, OrphanedType
    <3>3. \A v \in Workers : req'[v] \in Attempts /\ req'[v].phase = req[v].phase
                              /\ req'[v].exit = req[v].exit
      <4> SUFFICES ASSUME NEW v \in Workers
                   PROVE req'[v] \in Attempts /\ req'[v].phase = req[v].phase
                         /\ req'[v].exit = req[v].exit
        OBVIOUS
      <4>1. PICK r \in Attempts : r = Orphaned(req[v])
        BY <3>2
      <4>2. req'[v] = Recounted(r)
        BY <3>1, <4>1
      <4>3. QED
        BY <3>2, <4>1, <4>2, RecountedType
    <3>4. req' = [v \in Workers |-> req'[v]]
      BY <1>4 DEF Remove
    <3>5. QED
      BY <3>3, <3>4 DEF EgressInv, HoldsExit
  <2>5. QED
    BY <1>1, <2>1, <2>2, <2>3, <2>4 DEF EgressInv, Parts
<1>5. QED
  BY <1>3, <1>4 DEF SyncCandidates

LEMMA TickKeeps ==
  ASSUME EgressInv, Tick
  PROVE EgressInv'
<1>1. ASSUME NEW e \in Exits
      PROVE /\ health'[e] \in Healths
            /\ health'[e].down > 0 => health'[e].failures = BadAfter
  <2>1. health[e] \in Healths /\ (health[e].down > 0 => health[e].failures = BadAfter)
    BY DEF EgressInv, Parts, DownIsEarned
  <2>2. health'[e] = [health[e] EXCEPT !.down = Less(@), !.limited = Less(@)]
    BY DEF Tick
  <2>3. health'[e].down = Less(health[e].down) /\ health'[e].failures = health[e].failures
    BY <2>1, <2>2 DEF Healths
  <2>4. QED
    BY <2>1, <2>2, <2>3, TickHealth
<1>2. health' = [e \in Exits |-> health'[e]]
  BY DEF Tick
<1>3. health' \in [Exits -> Healths]
  BY <1>1, <1>2
<1>4. DownIsEarned'
  BY <1>1 DEF DownIsEarned
<1>5. tierLimit' \in [Tiers -> 0..LimitedCoolDown]
  <2>1. \A t \in Tiers : Less(tierLimit[t]) \in 0..LimitedCoolDown
    BY Numbers DEF EgressInv, Parts, Less
  <2>2. tierLimit' = [t \in Tiers |-> Less(tierLimit[t])]
    BY DEF Tick
  <2>3. QED
    BY <2>1, <2>2
<1>6. /\ present' = present /\ core' = core /\ disabled' = disabled /\ ext' = ext
      /\ conf' = conf /\ syncing' = syncing /\ req' = req
  BY Zenon DEF Tick
<1>7. HoldsExit'
  BY <1>6 DEF HoldsExit, EgressInv
<1>8. QED
  BY <1>3, <1>4, <1>5, <1>6, <1>7, Zenon DEF EgressInv, Parts

LEMMA EgressInvStep == EgressInv /\ [Next]_vars => EgressInv'
<1> SUFFICES ASSUME EgressInv, [Next]_vars PROVE EgressInv'
  OBVIOUS
<1>1. ASSUME NEW w \in Workers, Attempt(w) \/ EndRequest(w) PROVE EgressInv'
  BY <1>1, WorkerKeeps, ReportKeeps DEF Attempt
<1>2. ASSUME NEW c \in Confs, SyncCandidates(c) PROVE EgressInv'
  BY <1>2, SyncKeeps
<1>3. CASE SetDisabled
  <2>1. disabled' \subseteq Exits
    BY <1>3, ConfShape DEF SetDisabled, EgressInv, Parts
  <2>2. /\ present' = TRUE /\ syncing' = FALSE /\ core' = core /\ health' = health
        /\ tierLimit' = tierLimit /\ ext' = ext /\ conf' = conf
    BY <1>3, Zenon DEF SetDisabled
  <2>3. req' \in [Workers -> Attempts] /\ HoldsExit'
    BY <1>3, RecountType DEF SetDisabled
  <2>4. QED
    BY <2>1, <2>2, <2>3 DEF EgressInv, Parts, DownIsEarned
<1>4. CASE ExtensionChanges
  <2>1. ext' \subseteq Offered
    BY <1>4, EgressAssumption DEF ExtensionChanges
  <2>2. /\ present' = present /\ syncing' = syncing /\ core' = core /\ health' = health
        /\ disabled' = disabled
        /\ tierLimit' = tierLimit /\ conf' = conf
    BY <1>4, Zenon DEF ExtensionChanges, registry
  <2>3. req' \in [Workers -> Attempts] /\ HoldsExit'
    BY <1>4, RecountType DEF ExtensionChanges
  <2>4. QED
    BY <2>1, <2>2, <2>3 DEF EgressInv, Parts, DownIsEarned
<1>5. CASE Tick
  BY <1>5, TickKeeps
<1>6. CASE UNCHANGED vars
  <2>1. /\ present' = present /\ syncing' = syncing /\ core' = core /\ health' = health
        /\ disabled' = disabled /\ ext' = ext
        /\ tierLimit' = tierLimit /\ conf' = conf /\ req' = req
    BY <1>6, Zenon DEF vars, registry
  <2>2. QED
    BY <2>1 DEF EgressInv, Parts, HoldsExit, DownIsEarned
<1>7. QED
  BY <1>1, <1>2, <1>3, <1>4, <1>5, <1>6 DEF Next

-----------------------------------------------------------------------------
\* The invariant the theorems below are read off.
THEOREM EgressInvariant == Spec => []EgressInv
BY EgressInvInit, EgressInvStep, PTL DEF Spec, SafeSpec

\* The registry's state keeps its shape, whatever workers, syncs and the
\* extension interleave (egress.go:183).
THEOREM EgressTypeCorrect == Spec => []TypeOK
<1>1. EgressInv => TypeOK
  BY PartsAreType DEF EgressInv
<1>2. QED
  BY <1>1, EgressInvariant, PTL

\* An exit cools down for hard failures only while they all stand
\* (egress.go:347).
THEOREM EgressDownIsEarned == Spec => []DownIsEarned
<1>1. EgressInv => DownIsEarned
  BY DEF EgressInv
<1>2. QED
  BY <1>1, EgressInvariant, PTL

-----------------------------------------------------------------------------
(* What a Pick, and the answer before it, can count on *)

InView(v) == {e \in Exits : e \in v.avail /\ TierOf[e] \in v.open}

\* One attempt's history against what it holds: the exits that stayed enabled
\* are still listed, and the good ones fit now and in the view it reads.
HopeAt(r, enabled, fit) ==
  /\ r.phase \in {"asking", "choosing"} =>
       r.steady \subseteq enabled \cap ((r.seen \cup Offered) \ r.off)
  /\ r.phase # "asking" => r.good \subseteq fit \ r.tried
  /\ r.phase = "choosing" => r.good \subseteq r.steady
  /\ r.phase = "choosing" /\ r.lost => r.good \subseteq InView(r.view)
  /\ r.phase = "asking" /\ r.lost => r.good \cap r.steady \cap InView(r.view) \subseteq fit

\* A provider without a state has no cool-downs.
Forgotten == ~present => /\ \A e \in Exits : Available(e)
                         /\ \A t \in Tiers : tierLimit[t] = 0

Hopes == Forgotten /\ \A w \in Workers : HopeAt(req[w], Enabled, Fits)

LEMMA FitsShape ==
  ASSUME EgressInv
  PROVE /\ Fits \subseteq Enabled /\ Enabled \in SUBSET Exits
        /\ Fits = Enabled \cap InView(Standing)
<1>1. Enabled \in SUBSET Exits
  BY DEF EgressInv, Parts, Enabled, Exits
<1>2. Fits = Enabled \cap InView(Standing)
  BY <1>1, Numbers DEF Fits, InView, Standing
<1>3. QED
  BY <1>1, <1>2

LEMMA RestingHope ==
  ASSUME NEW t, NEW en, NEW fit, NEW g \in SUBSET (fit \ t)
  PROVE HopeAt([Resting EXCEPT !.tried = t, !.good = g], en, fit)
BY DEF HopeAt, Resting

LEMMA RestingHopeless ==
  ASSUME NEW t, NEW en, NEW fit
  PROVE HopeAt([Resting EXCEPT !.tried = t], en, fit) /\ HopeAt(Resting, en, fit)
BY DEF HopeAt, Resting

\* The history keeps pace with a step that changes what is enabled and fit.
LEMMA RecountedHope ==
  ASSUME NEW r \in Attempts, NEW en, NEW fit, NEW s,
         HopeAt(r, en, fit), Fits = fit, Fits' \subseteq Enabled', s = Recounted(r)
  PROVE HopeAt(s, Enabled', Fits')
<1> DEFINE en2 == Enabled'
<1> DEFINE fit2 == Fits'
<1>1. s = [r EXCEPT !.steady = @ \cap en2, !.good = @ \ (fit \ fit2)] /\ fit2 \subseteq en2
  BY DEF Recounted
<1> HIDE DEF en2, fit2
<1>2. /\ s.phase = r.phase /\ s.seen = r.seen /\ s.off = r.off /\ s.tried = r.tried
      /\ s.view = r.view
      /\ s.steady = r.steady \cap en2 /\ s.good = r.good \ (fit \ fit2)
  BY <1>1 DEF Attempts
<1>3. s.lost = r.lost
  BY <1>1 DEF Attempts
<1>4. HopeAt(s, en2, fit2)
  BY <1>1, <1>2, <1>3 DEF HopeAt
<1>5. QED
  BY <1>4 DEF en2, fit2

LEMMA RecountHope ==
  ASSUME EgressInv, EgressInv', Hopes, Recount
  PROVE \A w \in Workers : HopeAt(req'[w], Enabled', Fits')
<1>1. Fits' \subseteq Enabled'
  BY DEF Fits
<1>2. ASSUME NEW w \in Workers PROVE HopeAt(req'[w], Enabled', Fits')
  <2>1. req[w] \in Attempts /\ req'[w] = Recounted(req[w]) /\ HopeAt(req[w], Enabled, Fits)
    BY DEF EgressInv, Parts, Recount, Hopes
  <2>2. QED
    BY <1>1, <2>1, RecountedHope
<1>3. QED
  BY <1>2

\* The removed state goes on saying what the registry said of it.
LEMMA OrphanedHope ==
  ASSUME EgressInv, NEW r \in Attempts, HopeAt(r, Enabled, Fits)
  PROVE HopeAt(Orphaned(r), Enabled, Fits)
<1>1. CASE Orphaned(r) = r
  BY <1>1
<1>2. CASE Orphaned(r) # r
  <2> DEFINE s == Orphaned(r)
  <2>1. s = [r EXCEPT !.lost = TRUE, !.view = Standing]
    BY <1>2, Zenon DEF Orphaned
  <2>2. /\ s.phase = r.phase /\ s.seen = r.seen /\ s.off = r.off /\ s.tried = r.tried
        /\ s.steady = r.steady /\ s.good = r.good /\ s.view = Standing
    BY <2>1 DEF Attempts
  <2> HIDE DEF s
  <2>3. HopeAt(s, Enabled, Fits)
    BY <2>2, FitsShape DEF HopeAt
  <2>4. QED
    BY <2>3 DEF s
<1>3. QED
  BY <1>1, <1>2

LEMMA HopesInit == Init => Hopes
<1> SUFFICES ASSUME Init PROVE Hopes
  OBVIOUS
<1>1. Forgotten
  BY DEF Init, Forgotten
<1>2. \A w \in Workers : req[w] = Resting
  BY DEF Init
<1>3. HopeAt(Resting, Enabled, Fits)
  BY RestingHopeless
<1>4. QED
  BY <1>1, <1>2, <1>3 DEF Hopes

\* What the registry says stays; one attempt changes.
LEMMA OneHope ==
  ASSUME EgressInv, Hopes, NEW w \in Workers, NEW r,
         req' = [req EXCEPT ![w] = r], UNCHANGED <<registry, ext, conf, syncing>>,
         HopeAt(r, Enabled, Fits)
  PROVE Hopes'
<1>1. /\ present' = present /\ core' = core /\ disabled' = disabled /\ health' = health
      /\ tierLimit' = tierLimit /\ ext' = ext
  BY Zenon DEF registry
<1>2. Enabled' = Enabled /\ Fits' = Fits
  BY <1>1 DEF Enabled, Fits, Available
<1>3. Forgotten'
  BY <1>1 DEF Forgotten, Hopes, Available
<1>4. \A v \in Workers : req'[v] = IF v = w THEN r ELSE req[v]
  BY DEF EgressInv, Parts
<1>5. \A v \in Workers : HopeAt(req'[v], Enabled, Fits)
  BY <1>4 DEF Hopes
<1>6. QED
  BY <1>2, <1>3, <1>5 DEF Hopes

LEMMA ViewHope ==
  ASSUME EgressInv, Hopes, NEW w \in Workers, req[w].phase \in {"asking", "choosing"}
  PROVE /\ Listed(w) \in SUBSET Exits /\ req[w].steady \subseteq Listed(w)
        /\ req[w].phase = "choosing" => req[w].good \subseteq (InView(View(w)) \cap Listed(w)) \ req[w].tried
        /\ req[w].phase = "asking" =>
             req[w].good \cap req[w].steady \cap InView(View(w)) \subseteq Fits
<1>1. /\ req[w] \in Attempts /\ HopeAt(req[w], Enabled, Fits)
      /\ core \subseteq Core /\ ext \subseteq Offered /\ Core \cap Offered = {}
  BY EgressAssumption DEF EgressInv, Parts, Hopes
<1>2. Listed(w) \in SUBSET Exits
  BY <1>1 DEF Listed, Attempts, Exits
<1>3. req[w].steady \subseteq Listed(w)
  BY <1>1 DEF HopeAt, Enabled, Listed
<1>4. ASSUME req[w].phase = "choosing"
      PROVE req[w].good \subseteq (InView(View(w)) \cap Listed(w)) \ req[w].tried
  BY <1>1, <1>3, <1>4, FitsShape DEF HopeAt, View
<1>5. ASSUME req[w].phase = "asking"
      PROVE req[w].good \cap req[w].steady \cap InView(View(w)) \subseteq Fits
  BY <1>1, <1>5, FitsShape DEF HopeAt, View
<1>6. QED
  BY <1>2, <1>3, <1>4, <1>5

LEMMA SnapshotHope ==
  ASSUME EgressInv, Hopes, NEW w \in Workers, NEW r \in Attempts, Snapshot(w, r),
         r.tried = req[w].tried,
         (r.phase = "choosing" /\ r.good = req[w].good) \/ r.phase = "asking"
  PROVE Hopes'
<1>1. PICK l \in BOOLEAN : l = ~present
  BY Zenon
<1>2. /\ core \in SUBSET Exits /\ disabled \in SUBSET Exits /\ Enabled \in SUBSET Exits
      /\ SnapshotView(r) \in Views
      /\ UNCHANGED <<registry, ext, conf, syncing>>
  BY SnapshotTakes
<1> DEFINE s == Taken(r, core, disabled, Enabled, l, SnapshotView(r))
<1>3. req' = [req EXCEPT ![w] = s]
  BY <1>1, SnapshotTakes, Zenon
<1>4. /\ s.phase = r.phase /\ s.tried = r.tried /\ s.good = r.good
      /\ s.seen = core /\ s.off = disabled /\ s.steady = Enabled /\ s.lost = l
      /\ s.view = SnapshotView(r)
  BY <1>2, TakenType
<1>5. /\ HopeAt(req[w], Enabled, Fits) /\ req[w].phase = "idle"
      /\ Forgotten /\ ext \subseteq Offered
  BY DEF Hopes, Snapshot, EgressInv, Parts
<1>6. r.phase = "choosing" => s.good \subseteq Fits \ r.tried
  BY <1>4, <1>5 DEF HopeAt
<1>7. l => InView(s.view) = Exits /\ Fits = Enabled
  <2>1. ASSUME ~present PROVE SnapshotView(r) = [avail |-> Exits, open |-> Tiers]
    BY <2>1 DEF SnapshotView
  <2>2. ASSUME ~present PROVE InView(SnapshotView(r)) = Exits
    BY <2>1, <2>2, Numbers DEF InView
  <2>3. ASSUME ~present PROVE Fits = Enabled
    BY <1>2, <1>5, <2>3, Numbers DEF Forgotten, Fits
  <2>4. QED
    BY <1>1, <1>4, <2>2, <2>3
<1>8. Enabled \subseteq (core \cup Offered) \ disabled /\ Fits \subseteq Enabled
  BY <1>5, FitsShape DEF Enabled
<1> HIDE DEF s
<1>9. HopeAt(s, Enabled, Fits)
  BY <1>2, <1>4, <1>6, <1>7, <1>8 DEF HopeAt
<1>10. QED
  BY <1>2, <1>3, <1>9, OneHope

LEMMA WorkerHope ==
  ASSUME EgressInv, Hopes, NEW w \in Workers,
         PickSnapshot(w) \/ PickChoose(w) \/ AskSnapshot(w) \/ AskAnswer(w)
           \/ (\E o \in Outcomes : Answer(w, o)) \/ EndRequest(w)
  PROVE Hopes'
<1>1. req[w] \in Attempts /\ HopeAt(req[w], Enabled, Fits)
  BY DEF EgressInv, Parts, Hopes
<1>2. CASE PickSnapshot(w)
  <2> DEFINE r == [req[w] EXCEPT !.phase = "choosing"]
  <2>1. /\ r \in Attempts /\ r.phase = "choosing" /\ r.good = req[w].good
        /\ r.tried = req[w].tried
    BY <1>1 DEF Attempts, Phases
  <2>2. Snapshot(w, r)
    BY <1>2 DEF PickSnapshot
  <2> HIDE DEF r
  <2>3. QED
    BY <2>1, <2>2, SnapshotHope
<1>3. CASE AskSnapshot(w)
  <2> DEFINE r == [req[w] EXCEPT !.phase = "asking", !.good = Exits]
  <2>1. r \in Attempts /\ r.phase = "asking" /\ r.tried = req[w].tried
    BY <1>1 DEF Attempts, Phases
  <2>2. Snapshot(w, r)
    BY <1>3 DEF AskSnapshot
  <2> HIDE DEF r
  <2>3. QED
    BY <2>1, <2>2, SnapshotHope
<1>4. CASE PickChoose(w)
  <2>1. ASSUME NEW e, Uses(w, e), UNCHANGED <<registry, ext, conf, syncing>> PROVE Hopes'
    <3> DEFINE r == [Resting EXCEPT !.phase = "using", !.exit = e, !.tried = req[w].tried \cup {e}]
    <3>1. HopeAt(r, Enabled, Fits)
      BY DEF HopeAt, Resting
    <3>2. req' = [req EXCEPT ![w] = r]
      BY <2>1 DEF Uses
    <3> HIDE DEF r
    <3>3. QED
      BY <2>1, <3>1, <3>2, OneHope
  <2>2. ASSUME req' = [req EXCEPT ![w] = [Resting EXCEPT !.tried = req[w].tried]],
               UNCHANGED <<registry, ext, conf, syncing>>
        PROVE Hopes'
    BY <2>2, RestingHopeless, OneHope
  <2>3. QED
    BY <1>4, <2>1, <2>2 DEF PickChoose
<1>5. CASE AskAnswer(w)
  <2> DEFINE g == Alternatives(Listed(w), req[w].tried, View(w)) \cap req[w].steady \cap req[w].good
  <2>1. g \subseteq Fits /\ g \cap req[w].tried = {}
    <3>1. req[w].phase = "asking"
      BY <1>5 DEF AskAnswer
    <3>2. /\ Listed(w) \in SUBSET Exits
          /\ req[w].good \cap req[w].steady \cap InView(View(w)) \subseteq Fits
      BY <3>1, ViewHope
    <3>3. Alternatives(Listed(w), req[w].tried, View(w)) \subseteq InView(View(w)) \ req[w].tried
      BY <3>2 DEF Alternatives, InView
    <3>4. QED
      BY <3>2, <3>3
  <2>2. /\ req' = [req EXCEPT ![w] = [Resting EXCEPT !.tried = req[w].tried, !.good = g]]
        /\ UNCHANGED <<registry, ext, conf, syncing>>
    BY <1>5 DEF AskAnswer
  <2> HIDE DEF g
  <2>3. HopeAt([Resting EXCEPT !.tried = req[w].tried, !.good = g], Enabled, Fits)
    BY <2>1, RestingHope
  <2>4. QED
    BY <2>2, <2>3, OneHope
<1>6. CASE \E o \in Outcomes : Answer(w, o)
  <2>1. PICK o \in Outcomes : Answer(w, o)
    BY <1>6
  <2> DEFINE r == [req[w] EXCEPT !.phase = "reporting", !.outcome = o, !.seen = core \cup ext]
  <2>2. /\ req' = [req EXCEPT ![w] = r] /\ UNCHANGED <<registry, ext, conf, syncing>>
        /\ req[w].phase = "using"
    BY <2>1 DEF Answer, EgressInv, Parts
  <2>3. r.phase = "reporting" /\ r.good = req[w].good /\ r.tried = req[w].tried
    BY <1>1 DEF Attempts
  <2> HIDE DEF r
  <2>4. HopeAt(r, Enabled, Fits)
    BY <1>1, <2>2, <2>3 DEF HopeAt
  <2>5. QED
    BY <2>2, <2>4, OneHope
<1>7. CASE EndRequest(w)
  <2>1. HopeAt(Resting, Enabled, Fits)
    BY RestingHopeless
  <2>2. QED
    BY <1>7, <2>1, OneHope DEF EndRequest
<1>8. QED
  BY <1>2, <1>3, <1>4, <1>5, <1>6, <1>7

LEMMA ReportHope ==
  ASSUME EgressInv, EgressInv', Hopes, NEW w \in Workers, ReportApply(w)
  PROVE Hopes'
<1>1. Forgotten'
  <2>1. present' = present /\ (~present => health' = health /\ tierLimit' = tierLimit)
    BY DEF ReportApply
  <2>2. QED
    BY <2>1 DEF Forgotten, Hopes, Available
<1>2. Fits' \subseteq Enabled'
  BY DEF Fits
<1>3. ASSUME NEW v \in Workers PROVE HopeAt(req'[v], Enabled', Fits')
  <2>1. req[v] \in Attempts /\ HopeAt(req[v], Enabled, Fits)
    BY DEF EgressInv, Parts, Hopes
  <2>2. CASE v = w
    <3>1. req'[v] = [Resting EXCEPT !.tried = req[w].tried]
      BY <2>2 DEF ReportApply
    <3>2. QED
      BY <3>1, RestingHopeless
  <2>3. CASE v # w
    <3>1. req'[v] = Recounted(req[v])
      BY <2>3 DEF ReportApply
    <3>2. QED
      BY <1>2, <2>1, <3>1, RecountedHope
  <2>4. QED
    BY <2>2, <2>3
<1>4. QED
  BY <1>1, <1>3 DEF Hopes

LEMMA SyncHope ==
  ASSUME EgressInv, EgressInv', Hopes, NEW c \in Confs, SyncCandidates(c)
  PROVE Hopes'
<1>1. CASE SetCore(c)
  <2>1. Forgotten'
    BY <1>1 DEF SetCore, Forgotten
  <2>2. QED
    BY <1>1, <2>1, RecountHope DEF SetCore, Hopes
<1>2. CASE Remove(c)
  <2>1. Forgotten'
    BY <1>2 DEF Remove, Forgotten, Available, Untouched
  <2>2. Fits' \subseteq Enabled'
    BY DEF Fits
  <2>3. ASSUME NEW w \in Workers PROVE HopeAt(req'[w], Enabled', Fits')
    <3>1. /\ req[w] \in Attempts /\ HopeAt(req[w], Enabled, Fits)
          /\ req'[w] = Recounted(Orphaned(req[w]))
      BY <1>2 DEF EgressInv, Parts, Hopes, Remove
    <3>2. PICK r \in Attempts : r = Orphaned(req[w])
      BY <3>1, OrphanedType
    <3>3. HopeAt(r, Enabled, Fits)
      BY <3>1, <3>2, OrphanedHope
    <3>4. QED
      BY <2>2, <3>1, <3>2, <3>3, RecountedHope
  <2>4. QED
    BY <2>1, <2>3 DEF Hopes
<1>3. QED
  BY <1>1, <1>2 DEF SyncCandidates

\* Time only makes exits fit again.
LEMMA TickHope ==
  ASSUME EgressInv, Hopes, Tick
  PROVE Hopes'
<1>1. /\ present' = present /\ core' = core /\ disabled' = disabled /\ ext' = ext /\ req' = req
  BY Zenon DEF Tick
<1>2. \A e \in Exits : Available(e) => Available(e)'
  <2> SUFFICES ASSUME NEW e \in Exits, Available(e)
               PROVE health'[e].down = 0 /\ health'[e].limited = 0
    BY DEF Available
  <2>1. health'[e] = [health[e] EXCEPT !.down = Less(@), !.limited = Less(@)]
    BY DEF Tick
  <2>2. health[e] \in Healths
    BY DEF EgressInv, Parts
  <2>3. QED
    BY <2>1, <2>2 DEF Healths, Less, Available
<1>3. \A t \in Tiers : tierLimit[t] = 0 => tierLimit'[t] = 0
  <2>1. \A t \in Tiers : tierLimit'[t] = Less(tierLimit[t])
    BY DEF Tick
  <2>2. Less(0) = 0
    BY DEF Less
  <2>3. QED
    BY <2>1, <2>2
<1>4. Enabled' = Enabled /\ Fits \subseteq Fits'
  <2>1. Enabled' = Enabled
    BY <1>1 DEF Enabled
  <2>2. Enabled \in SUBSET Exits
    BY FitsShape
  <2>3. QED
    BY <1>2, <1>3, <2>1, <2>2, Numbers DEF Fits
<1>5. Forgotten'
  BY <1>1, <1>2, <1>3 DEF Forgotten, Hopes
<1>6. \A w \in Workers : HopeAt(req[w], Enabled, Fits)
  BY DEF Hopes
<1>7. \A w \in Workers : HopeAt(req'[w], Enabled', Fits')
  BY <1>1, <1>4, <1>6 DEF HopeAt
<1>8. QED
  BY <1>5, <1>7 DEF Hopes

LEMMA HopesStep == EgressInv /\ EgressInv' /\ Hopes /\ [Next]_vars => Hopes'
<1> SUFFICES ASSUME EgressInv, EgressInv', Hopes, [Next]_vars PROVE Hopes'
  OBVIOUS
<1>1. ASSUME NEW w \in Workers, Attempt(w) \/ EndRequest(w) PROVE Hopes'
  BY <1>1, WorkerHope, ReportHope DEF Attempt
<1>2. ASSUME NEW c \in Confs, SyncCandidates(c) PROVE Hopes'
  BY <1>2, SyncHope
<1>3. CASE SetDisabled
  <2>1. Forgotten'
    BY <1>3 DEF SetDisabled, Forgotten
  <2>2. QED
    BY <1>3, <2>1, RecountHope DEF SetDisabled, Hopes
<1>4. CASE ExtensionChanges
  <2>1. Forgotten'
    BY <1>4 DEF ExtensionChanges, Forgotten, Hopes, Available, registry
  <2>2. QED
    BY <1>4, <2>1, RecountHope DEF ExtensionChanges, Hopes
<1>5. CASE Tick
  BY <1>5, TickHope
<1>6. CASE UNCHANGED vars
  BY <1>6 DEF vars, registry, Hopes, Forgotten, Available, Enabled, Fits
<1>7. QED
  BY <1>1, <1>2, <1>3, <1>4, <1>5, <1>6 DEF Next

\* Only the choice itself ends a Pick.
LEMMA ChosenByPick ==
  ASSUME EgressInv, [Next]_vars, NEW w \in Workers, Chosen(w)
  PROVE PickChoose(w)
<1>1. \A v \in Workers : req[v] \in Attempts
  BY DEF EgressInv, Parts
<1>2. req[w].phase = "choosing" /\ req'[w] # req[w] /\ req'[w].phase # "choosing"
  BY DEF Chosen
<1>3. ASSUME Recount PROVE FALSE
  BY <1>1, <1>2, <1>3, RecountedType DEF Recount
<1>4. ASSUME NEW v \in Workers, Attempt(v) \/ EndRequest(v) PROVE PickChoose(w)
  <2>1. CASE ReportApply(v)
    <3>1. v # w
      BY <1>2, <2>1 DEF ReportApply
    <3>2. req'[w] = Recounted(req[w])
      BY <2>1, <3>1 DEF ReportApply
    <3>3. QED
      BY <1>1, <1>2, <3>2, RecountedType
  <2>2. CASE ~ReportApply(v)
    <3>1. \A u \in Workers \ {v} : req'[u] = req[u]
      BY <1>4, <2>2 DEF Attempt, PickSnapshot, AskSnapshot, Snapshot, PickChoose, Uses, AskAnswer,
                   Answer, EndRequest, EgressInv, Parts
    <3>2. v = w
      BY <1>2, <3>1
    <3>3. QED
      BY <1>2, <1>4, <2>2, <3>2 DEF Attempt, PickSnapshot, AskSnapshot, Snapshot, AskAnswer,
                   Answer, EndRequest
  <2>3. QED
    BY <2>1, <2>2
<1>5. ASSUME NEW c \in Confs, SyncCandidates(c) PROVE PickChoose(w)
  <2>1. CASE SetCore(c)
    BY <1>3, <2>1 DEF SetCore
  <2>2. CASE Remove(c)
    <3>1. req'[w] = Recounted(Orphaned(req[w]))
      BY <2>2 DEF Remove
    <3>2. PICK r \in Attempts : r = Orphaned(req[w]) /\ r.phase = req[w].phase
      BY <1>1, OrphanedType
    <3>3. QED
      BY <1>2, <3>1, <3>2, RecountedType
  <2>3. QED
    BY <1>5, <2>1, <2>2 DEF SyncCandidates
<1>6. CASE SetDisabled \/ ExtensionChanges
  BY <1>3, <1>6 DEF SetDisabled, ExtensionChanges
<1>7. CASE Tick \/ UNCHANGED vars
  BY <1>2, <1>7 DEF Tick, vars
<1>8. QED
  BY <1>4, <1>5, <1>6, <1>7 DEF Next

\* What a Pick comes back with, in the terms of both properties.
LEMMA PickDelivers ==
  ASSUME EgressInv, Hopes, NEW w \in Workers, PickChoose(w)
  PROVE /\ req[w].steady # {} => req'[w].exit # NoExit
        /\ req[w].good # {} =>
             /\ req'[w].exit \in Exits \ req[w].tried
             /\ ~req[w].lost => /\ Available(req'[w].exit)
                                /\ tierLimit[TierOf[req'[w].exit]] = 0
<1> DEFINE es == Choices(Listed(w), req[w].tried, View(w))
<1>1. req[w].phase = "choosing" /\ req[w] \in Attempts /\ w \in DOMAIN req
  BY DEF PickChoose, EgressInv, Parts
<1>2. /\ Listed(w) \in SUBSET Exits /\ req[w].steady \subseteq Listed(w)
      /\ req[w].good \subseteq (InView(View(w)) \cap Listed(w)) \ req[w].tried
  BY <1>1, ViewHope
<1>3. es \subseteq Exits /\ (Listed(w) # {} => es # {})
  BY <1>2, ChoicesExist
<1>4. es # {} => req'[w].exit \in es
  <2> SUFFICES ASSUME es # {} PROVE req'[w].exit \in es
    OBVIOUS
  <2>1. PICK e \in es : Uses(w, e)
    BY DEF PickChoose
  <2>2. req'[w].exit = e
    BY <1>1, <2>1 DEF Uses, Resting
  <2>3. QED
    BY <2>1, <2>2
<1>5. NoExit \notin Exits
  BY EgressAssumption
<1>6. ASSUME req[w].good # {}
      PROVE /\ req'[w].exit \in Exits \ req[w].tried
            /\ ~req[w].lost => /\ Available(req'[w].exit)
                               /\ tierLimit[TierOf[req'[w].exit]] = 0
  <2>1. PICK f \in req[w].good : TRUE
    BY <1>6
  <2>2. f \in Listed(w) \ req[w].tried /\ f \in View(w).avail /\ TierOf[f] \in View(w).open
    BY <1>2 DEF InView
  <2>3. req'[w].exit \in es
    BY <1>3, <1>4, <2>2
  <2>4. /\ req'[w].exit \notin req[w].tried /\ req'[w].exit \in View(w).avail
        /\ TierOf[req'[w].exit] \in View(w).open
    BY <1>2, <2>2, <2>3, ChoicesKeepPromise
  <2>5. ~req[w].lost => View(w) = Standing
    BY DEF View
  <2>6. QED
    BY <1>3, <2>3, <2>4, <2>5 DEF Standing
<1> HIDE DEF es
<1>7. QED
  BY <1>2, <1>3, <1>4, <1>5, <1>6

THEOREM EgressHopes == Spec => []Hopes
BY EgressInvariant, HopesInit, HopesStep, PTL DEF Spec, SafeSpec

\* A Pick comes back empty only if no exit was enabled all the way through it,
\* whatever reloads, reports and extension changes fall between its snapshot
\* and its choice (egress.go:437, :500).
THEOREM EgressNeverStranded == Spec => NeverStranded
<1>1. EgressInv /\ Hopes /\ [Next]_vars =>
        \A w \in Workers : Chosen(w) /\ req[w].steady # {} => req'[w].exit # NoExit
  BY ChosenByPick, PickDelivers
<1>2. QED
  BY <1>1, EgressInvariant, EgressHopes, PTL DEF Spec, SafeSpec, NeverStranded

\* The failover HasAlternative allowed gets an untried exit that is fit, unless
\* every exit it answered for was lost before the next Pick chose (egress.go:554).
THEOREM EgressKeepsPromise == Spec => FailoverPromiseKept
<1>1. EgressInv /\ Hopes /\ [Next]_vars =>
        \A w \in Workers :
          Chosen(w) /\ req[w].good # {} =>
             LET e == req'[w].exit
             IN  /\ e \in Exits \ req[w].tried
                 /\ ~req[w].lost => Available(e) /\ tierLimit[TierOf[e]] = 0
  BY ChosenByPick, PickDelivers
<1>2. QED
  BY <1>1, EgressInvariant, EgressHopes, PTL DEF Spec, SafeSpec, FailoverPromiseKept

-----------------------------------------------------------------------------
(* Demotions *)

\* What the property asks of one tier in one step, in its two halves.
MadeJustly(t) ==
  tierLimit'[t] > tierLimit[t] =>
    \E w \in Workers :
      /\ req[w].phase = "reporting" /\ TierOf[req[w].exit] = t
      /\ \A e \in Enabled \cap req[w].seen : TierOf[e] = t => health'[e].limited > 0
StaysBacked(t) == Backed(t) /\ (syncing' => syncing) => Backed(t)'

\* A step that leaves cool-downs and demotions alone.
LEMMA NothingDemoted ==
  ASSUME EgressInv, health' = health, tierLimit' = tierLimit, NEW t \in Tiers
  PROVE MadeJustly(t) /\ StaysBacked(t)
<1>1. tierLimit[t] \in Nat
  BY Numbers DEF EgressInv, Parts
<1>2. QED
  BY <1>1 DEF MadeJustly, StaysBacked, Backed

\* How long a report leaves its exit limited.
LEMMA LimitedAfter ==
  ASSUME NEW h \in Healths, NEW o \in Outcomes
  PROVE /\ o = "limited" => After(h, o).limited = LimitedCoolDown
        /\ o = "failed" => After(h, o).limited = h.limited
<1>1. CASE o = "limited"
  BY <1>1 DEF After, Untouched
<1>2. CASE o = "failed"
  BY <1>2 DEF After, FailedAgain, Healths
<1>3. QED
  BY <1>1, <1>2

LEMMA ReportDemotes ==
  ASSUME EgressInv, NEW w \in Workers, ReportApply(w), NEW t \in Tiers
  PROVE MadeJustly(t) /\ StaysBacked(t)
<1> DEFINE e == req[w].exit
<1> DEFINE o == req[w].outcome
<1> DEFINE h == [health EXCEPT ![e] = After(@, o)]
<1> DEFINE u == TierOf[e]
<1> DEFINE v == TierAfter(h, req[w].seen, u, o)
<1>1. /\ e \in Exits /\ o \in Outcomes /\ u \in Tiers /\ req[w].phase = "reporting"
      /\ tierLimit \in [Tiers -> 0..LimitedCoolDown] /\ health \in [Exits -> Healths]
  BY Numbers DEF ReportApply, EgressInv, HoldsExit, Parts, Attempts
<1>2. CASE ~present
  BY <1>2, NothingDemoted DEF ReportApply
<1>3. CASE present
  <2>1. health' = h /\ tierLimit' = [tierLimit EXCEPT ![u] = v]
    BY <1>3 DEF ReportApply
  <2>2. h[e] = After(health[e], o) /\ \A x \in Exits \ {e} : h[x] = health[x]
    BY <1>1
  <2>3. tierLimit'[u] = v /\ \A s \in Tiers \ {u} : tierLimit'[s] = tierLimit[s]
    BY <1>1, <2>1
  <2>4. /\ \A x \in Exits : health[x].limited \in Nat
        /\ \A s \in Tiers : tierLimit[s] \in Nat /\ tierLimit[s] <= LimitedCoolDown
        /\ LimitedCoolDown \in Nat
    BY <1>1, Numbers DEF Healths
  <2>5. /\ o = "limited" => h[e].limited = LimitedCoolDown
        /\ o = "failed" => h[e].limited = health[e].limited
    BY <1>1, <2>2, LimitedAfter
  <2>6. /\ o = "ok" => v = 0
        /\ o = "failed" => v = tierLimit[u]
        /\ o = "limited" => \/ v = tierLimit[u]
                            \/ v = LimitedCoolDown /\ TierFullyLimited(h, req[w].seen, u)
    <3>1. CASE o = "ok"
      BY <3>1 DEF TierAfter
    <3>2. CASE o = "failed"
      BY <3>2 DEF TierAfter
    <3>3. CASE o = "limited"
      BY <3>3 DEF TierAfter
    <3>4. QED
      BY <1>1, <3>1, <3>2, <3>3 DEF Outcomes
  <2> HIDE DEF h, v
  <2>7. CASE t # u
    <3>1. tierLimit'[t] = tierLimit[t]
      BY <2>3, <2>7
    <3>2. \A x \in Exits : TierOf[x] = t => health'[x] = health[x]
      BY <2>1, <2>2, <2>7
    <3>3. QED
      BY <2>4, <3>1, <3>2 DEF MadeJustly, StaysBacked, Backed
  <2>8. CASE t = u
    <3>1. MadeJustly(t)
      <4> SUFFICES ASSUME tierLimit'[u] > tierLimit[u]
                   PROVE \A x \in Enabled \cap req[w].seen : TierOf[x] = u => health'[x].limited > 0
        BY <1>1, <2>8 DEF MadeJustly
      <4>1. TierFullyLimited(h, req[w].seen, u)
        <5>1. v > tierLimit[u] /\ tierLimit[u] \in Nat
          BY <1>1, <2>3, <2>4
        <5> HIDE DEF o, u, e
        <5>2. QED
          BY <1>1, <2>6, <5>1 DEF Outcomes
      <4>2. QED
        BY <2>1, <4>1 DEF TierFullyLimited, Enabled
    <3>2. StaysBacked(t)
      <4> SUFFICES ASSUME Backed(u), tierLimit'[u] > 0
                   PROVE \E x \in Exits : TierOf[x] = u /\ h[x].limited >= tierLimit'[u]
        BY <2>1, <2>8 DEF StaysBacked, Backed
      <4>1. CASE o = "limited"
        <5>1. h[e].limited >= v
          BY <1>1, <2>4, <2>5, <2>6, <4>1
        <5>2. QED
          BY <1>1, <2>3, <5>1
      <4>2. CASE o = "failed"
        <5>1. tierLimit'[u] = tierLimit[u]
          BY <2>3, <2>6, <4>2
        <5>2. PICK x \in Exits : TierOf[x] = u /\ health[x].limited >= tierLimit[u]
          BY <5>1 DEF Backed
        <5>3. h[x].limited = health[x].limited
          BY <2>2, <2>5, <4>2
        <5>4. QED
          BY <5>1, <5>2, <5>3
      <4>3. CASE o = "ok"
        BY <1>1, <2>3, <2>6, <4>3
      <4>4. QED
        BY <1>1, <4>1, <4>2, <4>3 DEF Outcomes
    <3>3. QED
      BY <3>1, <3>2
  <2>9. QED
    BY <2>7, <2>8
<1>4. QED
  BY <1>2, <1>3

LEMMA TickDemotes ==
  ASSUME EgressInv, Tick, NEW t \in Tiers
  PROVE MadeJustly(t) /\ StaysBacked(t)
<1>1. /\ tierLimit[t] \in Nat /\ tierLimit'[t] = Less(tierLimit[t])
      /\ \A e \in Exits : health[e] \in Healths
  <2>1. tierLimit[t] \in 0..LimitedCoolDown /\ health \in [Exits -> Healths]
    BY DEF EgressInv, Parts
  <2>2. tierLimit'[t] = Less(tierLimit[t])
    BY DEF Tick
  <2>3. QED
    BY <2>1, <2>2, Numbers
<1>2. \A e \in Exits : health[e].limited \in Nat /\ health'[e].limited = Less(health[e].limited)
  <2> SUFFICES ASSUME NEW e \in Exits
               PROVE health[e].limited \in Nat /\ health'[e].limited = Less(health[e].limited)
    OBVIOUS
  <2>1. health'[e] = [health[e] EXCEPT !.down = Less(@), !.limited = Less(@)]
    BY DEF Tick
  <2>2. health[e] \in Healths
    BY <1>1
  <2>3. QED
    BY <2>1, <2>2, Numbers DEF Healths
<1>3. \A n \in Nat : Less(n) \in Nat /\ Less(n) <= n /\ (Less(n) > 0 => Less(n) = n - 1)
  BY DEF Less
<1>4. \A m, n \in Nat : m >= n => Less(m) >= Less(n)
  BY DEF Less
<1>5. MadeJustly(t)
  BY <1>1, <1>3 DEF MadeJustly
<1>6. StaysBacked(t)
  <2> SUFFICES ASSUME Backed(t), tierLimit'[t] > 0
               PROVE \E e \in Exits : TierOf[e] = t /\ health'[e].limited >= tierLimit'[t]
    BY DEF StaysBacked, Backed
  <2>1. tierLimit[t] > 0
    BY <1>1, <1>3
  <2>2. PICK e \in Exits : TierOf[e] = t /\ health[e].limited >= tierLimit[t]
    BY <2>1 DEF Backed
  <2>3. QED
    BY <1>1, <1>2, <1>4, <2>2
<1>7. QED
  BY <1>5, <1>6

\* A reload forgets cool-downs, and demotes nothing.
LEMMA SyncDemotes ==
  ASSUME EgressInv, NEW c \in Confs, SyncCandidates(c), NEW t \in Tiers
  PROVE MadeJustly(t) /\ StaysBacked(t)
<1>1. tierLimit[t] \in Nat /\ tierLimit'[t] \in {0, tierLimit[t]}
  <2>1. tierLimit[t] \in 0..LimitedCoolDown
    BY DEF EgressInv, Parts
  <2>2. tierLimit' = tierLimit \/ tierLimit' = [s \in Tiers |-> 0]
    BY DEF SyncCandidates, SetCore, Remove
  <2>3. QED
    BY <2>1, <2>2, Numbers
<1>2. MadeJustly(t)
  BY <1>1 DEF MadeJustly
<1>3. ~syncing /\ syncing'
  BY DEF SyncCandidates
<1>4. QED
  BY <1>2, <1>3 DEF StaysBacked

\* A demotion is made by a report whose listing is rate-limited throughout, and
\* outlasts no cool-down of its tier unless a reload forgot it (egress.go:310).
THEOREM EgressDemotesJustly == Spec => DemotionJustified
<1>1. EgressInv /\ [Next]_vars => \A t \in Tiers : MadeJustly(t) /\ StaysBacked(t)
  <2> SUFFICES ASSUME EgressInv, [Next]_vars, NEW t \in Tiers
               PROVE MadeJustly(t) /\ StaysBacked(t)
    OBVIOUS
  <2>1. ASSUME NEW w \in Workers, ReportApply(w) PROVE MadeJustly(t) /\ StaysBacked(t)
    BY <2>1, ReportDemotes
  <2>2. ASSUME NEW w \in Workers,
               PickSnapshot(w) \/ PickChoose(w) \/ AskSnapshot(w) \/ AskAnswer(w)
                 \/ (\E o \in Outcomes : Answer(w, o)) \/ EndRequest(w)
        PROVE MadeJustly(t) /\ StaysBacked(t)
    <3>1. health' = health /\ tierLimit' = tierLimit
      BY <2>2 DEF PickSnapshot, AskSnapshot, Snapshot, PickChoose, AskAnswer, Answer,
                EndRequest, registry
    <3>2. QED
      BY <3>1, NothingDemoted
  <2>3. ASSUME NEW c \in Confs, SyncCandidates(c) PROVE MadeJustly(t) /\ StaysBacked(t)
    BY <2>3, SyncDemotes
  <2>4. CASE Tick
    BY <2>4, TickDemotes
  <2>5. CASE SetDisabled \/ ExtensionChanges \/ UNCHANGED vars
    <3>1. health' = health /\ tierLimit' = tierLimit
      BY <2>5 DEF SetDisabled, ExtensionChanges, vars, registry
    <3>2. QED
      BY <3>1, NothingDemoted
  <2>6. QED
    BY <2>1, <2>2, <2>3, <2>4, <2>5 DEF Next, Attempt
<1>2. (\A t \in Tiers : MadeJustly(t) /\ StaysBacked(t)) =>
        \A t \in Tiers :
          /\ tierLimit'[t] > tierLimit[t] =>
               \E w \in Workers :
                 /\ req[w].phase = "reporting" /\ TierOf[req[w].exit] = t
                 /\ \A e \in Enabled \cap req[w].seen :
                      TierOf[e] = t => health'[e].limited > 0
          /\ Backed(t) /\ (syncing' => syncing) => Backed(t)'
  BY Zenon DEF MadeJustly, StaysBacked
<1>3. QED
  BY <1>1, <1>2, EgressInvariant, PTL DEF Spec, SafeSpec, DemotionJustified
=============================================================================
