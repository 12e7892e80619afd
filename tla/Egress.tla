------------------------------- MODULE Egress -------------------------------
(***************************************************************************)
(* The exits of one provider (src/internal/egress/egress.go): source       *)
(* addresses the operator configured and endpoints an extension offers,    *)
(* in tiers, each with its own cool-down, and the workers that pick an     *)
(* exit, use it and report what it did.                                    *)
(*                                                                         *)
(* Pick, and HasAlternative before a failover, copy the configuration      *)
(* under the read lock and then, holding no lock, read the health and      *)
(* choose: two steps each.  Report lists the exits first and updates the   *)
(* health under the write lock afterwards: two steps.  syncEgress replaces *)
(* the candidates and then the disabled set: two steps.  Time is the time  *)
(* left of each cool-down, which Tick lowers.                              *)
(*                                                                         *)
(* Two fields of an attempt are history and decide nothing: steady, the    *)
(* exits enabled at every moment since the snapshot in hand was taken, and *)
(* good, the exits HasAlternative answered for that have stayed fit since  *)
(* it was asked.                                                           *)
(***************************************************************************)
EXTENDS Integers, FiniteSets

CONSTANTS
    Workers,            \* requests that make attempts through the registry
    Core,               \* names of configured source addresses
    Offered,            \* names of exits an extension may contribute
    TierOf,             \* the tier each exit is in; configured ones are in 0
    Confs,              \* operator configurations: [core |-> , disabled |-> ]
    ExtSets,            \* what the extension may offer at a time
    NoExit,             \* the provider's default client, no exit
    BadAfter,           \* hard failures in a row that take an exit out
    CoolDown,           \* ticks an exit stays out after hard failures
    LimitedCoolDown     \* ticks a rate-limited exit, or tier, stays out

Exits == Core \cup Offered
Tiers == {TierOf[e] : e \in Exits}

ASSUME EgressAssumption ==
    /\ Core \cap Offered = {} /\ NoExit \notin Exits
    /\ IsFiniteSet(Exits)
    /\ TierOf \in [Exits -> Int] /\ \A e \in Core : TierOf[e] = 0
    /\ Confs # {} /\ Confs \subseteq [core : SUBSET Core, disabled : SUBSET Exits]
    /\ ExtSets # {} /\ ExtSets \subseteq SUBSET Offered
    /\ BadAfter \in Nat \ {0} /\ CoolDown \in Nat \ {0} /\ LimitedCoolDown \in Nat \ {0}

VARIABLES
    present,            \* whether byProvider has an entry for the provider
    core,               \* providerState.core
    disabled,           \* providerState.disabled
    health,             \* providerState.health; a missing entry is Untouched
    tierLimit,          \* time left of providerState.limitedUntil, by tier
    ext,                \* what the extension source answers now
    conf, syncing,      \* the configuration, and whether its sync is half done
    req                 \* the attempt each worker is making

registry == <<present, core, disabled, health, tierLimit>>
vars     == <<registry, ext, conf, syncing, req>>

Untouched == [failures |-> 0, down |-> 0, limited |-> 0]
Outcomes  == {"ok", "failed", "limited"}
Resting   == [phase |-> "idle", tried |-> {}, seen |-> {}, off |-> {},
              lost |-> FALSE, view |-> [avail |-> {}, open |-> {}],
              exit |-> NoExit, outcome |-> "ok", steady |-> {}, good |-> {}]

-----------------------------------------------------------------------------
(* Selection.                                                              *)

Available(e) == health[e].down = 0 /\ health[e].limited = 0

(* What the health says of exits and tiers.                                *)
Standing == [avail |-> {e \in Exits : Available(e)},
             open  |-> {t \in Tiers : tierLimit[t] = 0}]

(* Untried exits that are not cooling down; everything when there are none.*)
Usable(all, tried, v) ==
    LET fresh == (all \ tried) \cap v.avail
    IN  IF fresh = {} THEN all ELSE fresh

Lowest(es) == {e \in es : \A d \in es : TierOf[e] <= TierOf[d]}

(* chooseTier, without its fallback to demoted tiers.                      *)
ChooseTierStrictly(es, v) == Lowest({e \in es : TierOf[e] \in v.open})

(* The lowest tier that is not demoted, or else the lowest tier.           *)
ChooseTier(es, v) ==
    LET open == {e \in es : TierOf[e] \in v.open}
    IN  Lowest(IF open = {} THEN es ELSE open)

(* What Pick may return; the strategy decides which of them.               *)
Choices(all, tried, v) == ChooseTier(Usable(all, tried, v), v)

Enabled == (core \cup ext) \ disabled

(* HasAlternative without the check for a demoted tier.                    *)
AlternativesAnyTier(all, tried, v) == (all \ tried) \cap v.avail

(* The exits HasAlternative answers yes for.                               *)
Alternatives(all, tried, v) ==
    {e \in (all \ tried) \cap v.avail : TierOf[e] \in v.open}

ExitCount == Cardinality(Enabled)

(* What the worker lists: its snapshot, and the extension's exits of now.  *)
Listed(w) == (req[w].seen \cup ext) \ req[w].off

(* The health the worker reads: of the provider state it took, which is    *)
(* that of the registry unless the provider was removed.                   *)
View(w) == IF req[w].lost THEN req[w].view ELSE Standing

Fits == {e \in Enabled : Available(e) /\ tierLimit[TierOf[e]] = 0}

(* History: the exits that stayed enabled, and fit, through this step.     *)
Recounted(r) == [r EXCEPT !.steady = @ \cap Enabled', !.good = @ \ (Fits \ Fits')]

Recount == req' = [w \in Workers |-> Recounted(req[w])]

-----------------------------------------------------------------------------
Init ==
    /\ conf \in Confs
    /\ core = conf.core /\ disabled = conf.disabled
    /\ present = TRUE /\ syncing = FALSE
    /\ health = [e \in Exits |-> Untouched]
    /\ tierLimit = [t \in Tiers |-> 0]
    /\ ext \in ExtSets
    /\ req = [w \in Workers |-> Resting]

(* The start of both, under the read lock: the candidates, the disabled    *)
(* set and the provider's state.  Without a state every exit is available. *)
Snapshot(w, r) ==
    /\ req[w].phase = "idle"
    /\ req' = [req EXCEPT ![w] = [r EXCEPT
                 !.seen = core, !.off = disabled, !.steady = Enabled,
                 !.lost = ~present,
                 !.view = IF present THEN @ ELSE [avail |-> Exits, open |-> Tiers]]]
    /\ UNCHANGED <<registry, ext, conf, syncing>>

PickSnapshot(w) == Snapshot(w, [req[w] EXCEPT !.phase = "choosing"])

Uses(w, e) ==
    req' = [req EXCEPT ![w] = [Resting EXCEPT !.phase = "using", !.exit = e,
                                              !.tried = req[w].tried \cup {e}]]

(* Pick, unlocked: the extension's exits and the health are read now.      *)
PickChoose(w) ==
    /\ req[w].phase = "choosing"
    /\ LET es == Choices(Listed(w), req[w].tried, View(w))
       IN  IF es = {}
           THEN req' = [req EXCEPT ![w] = [Resting EXCEPT !.tried = req[w].tried]]
           ELSE \E e \in es : Uses(w, e)
    /\ UNCHANGED <<registry, ext, conf, syncing>>

AskSnapshot(w) == Snapshot(w, [req[w] EXCEPT !.phase = "asking", !.good = Exits])

(* HasAlternative's answer, and the exits it may count on when it is yes.  *)
AskAnswer(w) ==
    /\ req[w].phase = "asking"
    /\ LET yes == Alternatives(Listed(w), req[w].tried, View(w))
       IN  req' = [req EXCEPT ![w] = [Resting EXCEPT
                     !.tried = req[w].tried,
                     !.good = yes \cap req[w].steady \cap req[w].good]]
    /\ UNCHANGED <<registry, ext, conf, syncing>>

(* The attempt is over; Report lists the exits before it takes the lock.   *)
Answer(w, o) ==
    /\ req[w].phase = "using"
    /\ req' = [req EXCEPT ![w].phase = "reporting", ![w].outcome = o,
                          ![w].seen = core \cup ext]
    /\ UNCHANGED <<registry, ext, conf, syncing>>

(* Every enabled exit of the tier among those listed is rate-limited.      *)
TierFullyLimited(h, exits, t) ==
    LET es == {e \in exits \ disabled : TierOf[e] = t}
    IN  es # {} /\ \A e \in es : h[e].limited > 0

(* ">" for ">=": an exit survives one hard failure too many.               *)
FailedOnceMore(h) ==
    [h EXCEPT !.failures = @ + 1,
              !.down = IF h.failures + 1 > BadAfter THEN CoolDown ELSE @]

(* The count of failures is only compared with BadAfter: it stops there.   *)
FailedAgain(h) ==
    LET n == IF h.failures < BadAfter THEN h.failures + 1 ELSE BadAfter
    IN  [h EXCEPT !.failures = n, !.down = IF n = BadAfter THEN CoolDown ELSE @]

(* A rate limit that leaves the hard-failure cool-down in place.           *)
AfterKeepingDown(h, o) ==
    CASE o = "ok"      -> Untouched
      [] o = "failed"  -> FailedAgain(h)
      [] o = "limited" -> [h EXCEPT !.failures = 0, !.limited = LimitedCoolDown]

(* What an outcome does to the health of its exit.                         *)
After(h, o) ==
    CASE o = "ok"      -> Untouched
      [] o = "failed"  -> FailedAgain(h)
      [] o = "limited" -> [Untouched EXCEPT !.limited = LimitedCoolDown]

(* Only the exit is back: the demotion of its tier runs on.                *)
TierAfterKept(h, exits, t, o) ==
    IF o = "limited" /\ TierFullyLimited(h, exits, t) THEN LimitedCoolDown ELSE tierLimit[t]

(* A success ends the demotion of the tier it came through.                *)
TierAfter(h, exits, t, o) ==
    CASE o = "ok" -> 0
      [] o = "limited" /\ TierFullyLimited(h, exits, t) -> LimitedCoolDown
      [] OTHER -> tierLimit[t]

(* Report, under the write lock.  A provider that is gone is not recorded. *)
ReportApply(w) ==
    LET e  == req[w].exit
        o  == req[w].outcome
        h  == [health EXCEPT ![e] = After(@, o)]
        t  == TierOf[e]
    IN  /\ req[w].phase = "reporting"
        /\ health' = IF present THEN h ELSE health
        /\ tierLimit' = IF present
                        THEN [tierLimit EXCEPT ![t] = TierAfter(h, req[w].seen, t, o)]
                        ELSE tierLimit
        /\ UNCHANGED <<present, core, disabled, ext, conf, syncing>>
        /\ req' = [v \in Workers |->
                     IF v = w THEN [Resting EXCEPT !.tried = req[w].tried]
                     ELSE Recounted(req[v])]

(* The request is over; the next one of this worker starts afresh.         *)
EndRequest(w) ==
    /\ req[w].phase = "idle" /\ req[w] # Resting
    /\ req' = [req EXCEPT ![w] = Resting]
    /\ UNCHANGED <<registry, ext, conf, syncing>>

-----------------------------------------------------------------------------
(* syncEgress, after every (re)build of the providers.                     *)

(* SetCore keeps the health of the exits it is given and drops the rest.   *)
SetCore(c) ==
    /\ c.core # {}
    /\ present' = TRUE
    /\ core' = c.core
    /\ health' = [e \in Exits |-> IF e \in c.core THEN health[e] ELSE Untouched]
    /\ UNCHANGED <<disabled, tierLimit, ext>>
    /\ Recount

(* A Pick or a HasAlternative under way goes on with the state it took,    *)
(* which nobody writes to any more.                                        *)
Orphaned(r) ==
    IF r.phase \in {"asking", "choosing"} /\ ~r.lost
    THEN [r EXCEPT !.lost = TRUE, !.view = Standing] ELSE r

(* Remove forgets everything about the provider, the disabled set too.     *)
Remove(c) ==
    /\ c.core = {}
    /\ present' = FALSE
    /\ core' = {} /\ disabled' = {}
    /\ health' = [e \in Exits |-> Untouched]
    /\ tierLimit' = [t \in Tiers |-> 0]
    /\ UNCHANGED ext
    /\ req' = [w \in Workers |-> Recounted(Orphaned(req[w]))]

SyncCandidates(c) ==
    /\ ~syncing
    /\ conf' = c
    /\ SetCore(c) \/ Remove(c)
    /\ syncing' = TRUE

SetDisabled ==
    /\ syncing
    /\ present' = TRUE
    /\ disabled' = conf.disabled
    /\ syncing' = FALSE
    /\ UNCHANGED <<core, health, tierLimit, ext, conf>>
    /\ Recount

ExtensionChanges ==
    /\ ext' \in ExtSets \ {ext}
    /\ UNCHANGED <<registry, conf, syncing>>
    /\ Recount

Less(n) == IF n > 0 THEN n - 1 ELSE 0

(* No worker is inside Pick or HasAlternative.                             *)
Unhurried == \A w \in Workers : req[w].phase \notin {"asking", "choosing"}

(* A demotion that looks only at whether its end was set.                  *)
TickTierStuck ==
    /\ Unhurried
    /\ health' = [e \in Exits |-> [health[e] EXCEPT !.down = Less(@), !.limited = Less(@)]]
    /\ UNCHANGED <<present, core, disabled, tierLimit, ext, conf, syncing, req>>

(* Pick and HasAlternative read the clock once: no time passes under them. *)
Tick ==
    /\ Unhurried
    /\ health' = [e \in Exits |-> [health[e] EXCEPT !.down = Less(@), !.limited = Less(@)]]
    /\ tierLimit' = [t \in Tiers |-> Less(tierLimit[t])]
    /\ UNCHANGED <<present, core, disabled, ext, conf, syncing, req>>

Attempt(w) ==
    \/ PickSnapshot(w) \/ PickChoose(w)
    \/ AskSnapshot(w) \/ AskAnswer(w)
    \/ \E o \in Outcomes : Answer(w, o)
    \/ ReportApply(w)

Next ==
    \/ \E w \in Workers : Attempt(w) \/ EndRequest(w)
    \/ \E c \in Confs : SyncCandidates(c)
    \/ SetDisabled \/ ExtensionChanges \/ Tick

SafeSpec == Init /\ [][Next]_vars

(* Attempts end, a sync that started is completed, and time passes.        *)
Fairness ==
    /\ \A w \in Workers :
          WF_vars(req[w].phase # "idle" /\ Attempt(w))
    /\ WF_vars(SetDisabled)
    /\ SF_vars(Tick)

Spec == SafeSpec /\ Fairness

-----------------------------------------------------------------------------
(* The shape of the state.                                                 *)
TypeOK ==
    /\ present \in BOOLEAN /\ syncing \in BOOLEAN
    /\ core \subseteq Core /\ disabled \subseteq Exits /\ ext \subseteq Offered
    /\ conf \in Confs
    /\ health \in [Exits -> [failures : 0..BadAfter, down : 0..CoolDown,
                             limited : 0..LimitedCoolDown]]
    /\ tierLimit \in [Tiers -> 0..LimitedCoolDown]
    /\ req \in [Workers -> [phase : {"idle", "asking", "choosing", "using", "reporting"},
                            tried : SUBSET Exits, seen : SUBSET Exits,
                            off : SUBSET Exits, exit : Exits \cup {NoExit},
                            lost : BOOLEAN,
                            view : [avail : SUBSET Exits, open : SUBSET Tiers],
                            outcome : Outcomes,
                            steady : SUBSET Exits, good : SUBSET Exits]]

Chosen(w) == req[w].phase = "choosing" /\ req'[w].phase # "choosing"

(* chooseTier, egress.go:500: "so a request is never left without an       *)
(* exit".  Whatever is cooling down, demoted or tried, and however reloads *)
(* and the extension move between its two halves, a Pick comes back empty  *)
(* only if no exit was enabled all the way through it.                     *)
NeverStranded ==
    [][\A w \in Workers :
         Chosen(w) /\ req[w].steady # {} => req'[w].exit # NoExit]_vars

(* HasAlternative, egress.go:548: "still has an exit that was not tried    *)
(* yet during this request and is usable right now".  The failover it      *)
(* allows gets one: unless every exit it answered for was turned off,      *)
(* cooled down or demoted before the next Pick chose, that Pick returns an *)
(* untried exit, and one that is fit when it is chosen.  (A Pick whose     *)
(* provider was removed under it goes by the health it took.)              *)
FailoverPromiseKept ==
    [][\A w \in Workers :
         Chosen(w) /\ req[w].good # {} =>
            LET e == req'[w].exit
            IN  /\ e \in Exits \ req[w].tried
                /\ ~req[w].lost => Available(e) /\ tierLimit[TierOf[e]] = 0]_vars

(* An exit is out for hard failures only while the failures that put it    *)
(* there still stand: a rate limit or a success in between clears both.    *)
DownIsEarned == \A e \in Exits : health[e].down > 0 => health[e].failures = BadAfter

(* A tier is demoted by a report whose listing was rate-limited throughout:*)
(* only an exit that came after the listing may be passed over with it     *)
(* (egress.go:310).  And a demotion outlasts no cool-down: whatever        *)
(* requests report and in whatever order, some exit of the tier stays      *)
(* rate-limited as long as the tier stays demoted.  Only a reload, which   *)
(* forgets cool-downs, may leave a demotion without one (egress.go:252).   *)
Backed(t) == tierLimit[t] > 0 =>
    \E e \in Exits : TierOf[e] = t /\ health[e].limited >= tierLimit[t]

DemotionJustified ==
    [][\A t \in Tiers :
         /\ tierLimit'[t] > tierLimit[t] =>
              \E w \in Workers :
                 /\ req[w].phase = "reporting" /\ TierOf[req[w].exit] = t
                 /\ \A e \in Enabled \cap req[w].seen :
                      TierOf[e] = t => health'[e].limited > 0
         /\ Backed(t) /\ (syncing' => syncing) => Backed(t)']_vars

(* egress.go:13 "A tier that reports a rate limit is demoted for a while   *)
(* and then probes back automatically, so the gateway returns to direct    *)
(* egress on its own": once no exit is reported as failed or limited any   *)
(* more, all of them come back.  That Picks leave the clock a moment to    *)
(* move is a premise: in the model they hold it still.                     *)
AllBack == /\ \A t \in Tiers : tierLimit[t] = 0
           /\ \A e \in Exits : Available(e)

ReturnsToDirect ==
    /\ []<>Unhurried
    /\ <>[][\A w \in Workers, o \in Outcomes \ {"ok"} : ~Answer(w, o)]_vars
    => []<>AllBack

(* egress.go:280 "Disabled exits stay visible in the status panel but are  *)
(* never selected".                                                        *)
DisabledNeverSelected ==
    [][\A w \in Workers : PickChoose(w) => req'[w].exit \notin conf.disabled]_vars
=============================================================================
