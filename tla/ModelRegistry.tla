--------------------------- MODULE ModelRegistry ---------------------------
(***************************************************************************)
(* The registry of provider instances and of the models they list          *)
(* (internal/providers), with everything that writes it while the gateway  *)
(* serves: the asynchronous first refresh, the background refresh loop and *)
(* the administrator, whose runtime refresh replaces every instance before *)
(* it lists the models again.                                              *)
(*                                                                         *)
(* The registry has two locks that protect different things.  r.mu makes   *)
(* each read or write of the maps atomic; the one-slot refresh semaphore   *)
(* keeps two sweeps over the providers apart.  ReplaceProviders resets the *)
(* maps under r.mu alone, so a sweep that copied the provider set before   *)
(* the reset goes on with instances that are no longer registered.         *)
(*                                                                         *)
(* Provider names are numbers: n is the n-th configured name in sorted     *)
(* order, which is the order of registration and decides who owns an       *)
(* unqualified model id.  An instance is a name and the generation that    *)
(* created it.  Left out: what the model list downloaded beside the sweeps *)
(* says of a model (its turns at the semaphore and the saves after it are  *)
(* here, the one download at start-up is not), availability probes, the    *)
(* flag initialized, pools that switch discovery on, which is the default, *)
(* autofetch filters and allowlist mode.                                   *)
(***************************************************************************)
EXTENDS Naturals, FiniteSets

CONSTANTS
  NumProviders,   \* how many provider names there are
  Models,         \* model ids
  Catalog,        \* what a name's upstream lists when it answers
  Configured,     \* the models a provider's own configuration lists
  PoolOff,        \* names for which a pool switches auto_fetch_models off
  OwnOff,         \* names that switch it off themselves
  None,           \* nobody, nothing
  MaxGen,         \* bound: instances are created this many times
  MaxFaults       \* bound: failed calls, timeouts and lost answers

Names == 1..NumProviders

ASSUME RegistryAssumption ==
  /\ NumProviders \in Nat \ {0}
  /\ Catalog \in [Names -> SUBSET Models]
  /\ Configured \in [Names -> SUBSET Models]
  /\ PoolOff \subseteq Names /\ OwnOff \subseteq Names
  /\ MaxGen \in Nat \ {0} /\ MaxFaults \in Nat
  /\ None \notin {"boot", "loop", "admin"}
  /\ None \notin [name : Names, gen : 0..MaxGen]

VARIABLES
  registered,   \* providers: the generation registered under a name, 0 if none
  inventory,    \* modelsByProvider: the instance and the models of a name
  bare,         \* models: the instance that owns an unqualified id
  autoOff,      \* providerAutoFetchModels: names with discovery switched off
  lists,        \* configuredProviderModels: names with a configured list
  sem,          \* who holds the refresh semaphore
  sweep,        \* what each goroutine's sweep has copied and fetched
  pc,           \* where each goroutine is
  job,          \* what the administrator's goroutine is doing
  todo,         \* names the replacement under way has yet to register
  snap,         \* captureSnapshot of the replacement under way
  copied,       \* what each goroutine is about to write to the cache
  disk,         \* the model cache on disk, None before the first save: it
                \* survives the process
  gen,          \* generation of the newest instances
  faults,       \* faults left to happen
  settled       \* history: since the last reset an inventory has landed that
                \* came from the instances registered at that moment

memory == <<registered, inventory, bare, autoOff, lists>>
replacing == <<job, todo, snap>>
vars == <<memory, sem, sweep, pc, replacing, copied, disk, gen, faults, settled>>

-----------------------------------------------------------------------------
Procs == {"boot", "loop", "admin"}
Gens == 0..MaxGen

Absent == [gen |-> 0, ids |-> {}]
Shelf == [gen : Gens, ids : SUBSET Models]        \* one provider's models
Owner == [name : Names, gen : Gens]               \* one unqualified entry

NoModels == [n \in Names |-> Absent]
Ownerless == \A m \in Models : bare[m] = None          \* ModelCount() is 0
Unowned == [m \in Models |-> None]
NoSweep == [copy |-> [n \in Names |-> 0], auto |-> {}, named |-> {}, out |-> NoModels]
NoSweeps == [p \in Procs |-> NoSweep]
NoSnapshot == [registered |-> [n \in Names |-> 0], inventory |-> NoModels,
               bare |-> Unowned]

Listed(inv) == {n \in Names : inv[n].ids # {}}
IdsOf(inv) == [n \in Names |-> inv[n].ids]

\* The shelf of name n holding these models of instance g.
ShelfOf(g, ids) == IF ids = {} THEN Absent ELSE [gen |-> g, ids |-> ids]

\* First provider wins: the owner of an unqualified id is the first name, in
\* the order of registration, that lists it.
First(S) == CHOOSE n \in S : \A k \in S : n <= k
BareOf(inv) ==
  [m \in Models |->
     LET holders == {n \in Names : m \in inv[n].ids}
     IN  IF holders = {} THEN None
         ELSE [name |-> First(holders), gen |-> inv[First(holders)].gen]]

TypeOK ==
  /\ registered \in [Names -> Gens]
  /\ inventory \in [Names -> Shelf]
  /\ bare \in [Models -> Owner \cup {None}]
  /\ autoOff \subseteq Names /\ lists \subseteq Names
  /\ sem \in Procs \cup {None}
  /\ sweep \in [Procs -> [copy : [Names -> Gens], auto : SUBSET Names,
                          named : SUBSET Names, out : [Names -> Shelf]]]
  /\ pc \in [Procs -> {"load", "idle", "done", "startup", "capture", "reset", "register",
                       "configure", "switch", "wait", "settings", "switches", "previous",
                       "apply", "restore", "save", "write", "list", "enrich", "resave", "rewrite"}]
  /\ job \in {"startup", "rebuild", "refresh"}
  /\ todo \subseteq Names
  /\ snap \in [registered : [Names -> Gens], inventory : [Names -> Shelf],
               bare : [Models -> Owner \cup {None}]]
  /\ copied \in [Procs -> [Names -> SUBSET Models]]
  /\ disk \in [Names -> SUBSET Models] \cup {None}
  /\ gen \in Gens \ {0}
  /\ faults \in 0..MaxFaults
  /\ settled \in BOOLEAN

Goto(p, there) == pc' = [pc EXCEPT ![p] = there]
Fault == faults > 0 /\ faults' = faults - 1

-----------------------------------------------------------------------------
(* The process starts: Init has registered the first instances with the    *)
(* pools' settings in force, and the goroutines of InitializeAsync and     *)
(* StartBackgroundRefresh are about to run.                                *)

\* What the registry holds when initializeProviders has registered
\* generation g at start-up, after the pools' overrides were set; the
\* providers' own switches come on top.
Fresh(g) ==
  [registered |-> [n \in Names |-> g], inventory |-> NoModels, bare |-> Unowned,
   autoOff |-> PoolOff \cup OwnOff, lists |-> {n \in Names : Configured[n] # {}}]

Init ==
  /\ registered = Fresh(1).registered
  /\ inventory = Fresh(1).inventory /\ bare = Fresh(1).bare
  /\ autoOff = Fresh(1).autoOff /\ lists = Fresh(1).lists
  /\ sem = None /\ sweep = NoSweeps
  /\ pc = [p \in Procs |-> IF p = "admin" THEN "load" ELSE "done"]
  /\ job = "startup" /\ todo = {} /\ snap = NoSnapshot
  /\ copied = [p \in Procs |-> IdsOf(NoModels)]
  /\ disk \in {Catalog, None}
  /\ gen = 1 /\ faults = MaxFaults
  /\ settled = TRUE

\* LoadFromCache of a cache that is there: every registered name gets its
\* cached models, or its configured list when it has none cached.
Load ==
  LET ids(n) == IF disk[n] = {} /\ n \in lists THEN Configured[n] ELSE disk[n]
  IN  inventory' = [n \in Names |->
                      IF registered[n] = 0 THEN Absent ELSE ShelfOf(registered[n], ids(n))]

\* InitializeAsync: the cache is loaded before the first refresh and the loop
\* start; the startup rebuild follows in app.New.  A cache that is missing or
\* cannot be read leaves the registry as it is.
LoadFromCache ==
  /\ pc["admin"] = "load"
  /\ \/ disk # None /\ Load /\ bare' = BareOf(inventory') /\ UNCHANGED faults
     \/ disk = None /\ UNCHANGED <<inventory, bare, faults>>
     \/ Fault /\ UNCHANGED <<inventory, bare>>
  /\ pc' = [p \in Procs |-> IF p = "admin" THEN "startup" ELSE "wait"]
  /\ UNCHANGED <<registered, autoOff, lists, sem, sweep, replacing,
                 copied, disk, gen, settled>>

\* The process ends, at any moment, and starts again: only the cache is left.
Restart ==
  /\ gen < MaxGen
  /\ gen' = gen + 1
  /\ registered' = Fresh(gen').registered
  /\ inventory' = Fresh(gen').inventory /\ bare' = Fresh(gen').bare
  /\ autoOff' = Fresh(gen').autoOff /\ lists' = Fresh(gen').lists
  /\ sem' = None /\ sweep' = NoSweeps
  /\ pc' = [p \in Procs |-> IF p = "admin" THEN "load" ELSE "done"]
  /\ job' = "startup" /\ todo' = {} /\ snap' = NoSnapshot
  /\ settled' = TRUE
  /\ copied' = [p \in Procs |-> IdsOf(NoModels)]
  /\ UNCHANGED <<disk, faults>>

-----------------------------------------------------------------------------
(* Initialize: one sweep over the providers, under the refresh semaphore    *)

\* Where a goroutine goes when its Initialize returns: the loop downloads the
\* model list after its sweep, whether that landed or failed, and the runtime
\* refresh does so before its second sweep.
OnOkUnsaved(p) ==          \* the loop's refreshes are not saved
  CASE p = "admin" /\ job = "startup" -> "idle"
    [] (p = "admin" /\ job = "rebuild") \/ p = "loop" -> "list"
    [] OTHER -> "save"

OnOk(p) ==
  CASE p = "admin" /\ job = "startup" -> "idle"
    [] p = "admin" /\ job = "rebuild" -> "list"
    [] OTHER -> "save"

OnErrorKept(p) ==          \* a failed replacement leaves the registry reset
  CASE p = "boot" -> {"done"}
    [] p = "loop" -> {"list"}
    [] p = "admin" /\ job = "refresh" -> {"save", "idle"}
    [] OTHER -> {"idle"}

OnError(p) ==
  CASE p = "boot" -> {"done"}
    [] p = "loop" -> {"list"}
    [] p = "admin" /\ job = "refresh" -> {"save", "idle"}
    [] OTHER -> {"restore"}

\* RefreshRuntime lists the models once more after a rebuild that succeeded.
NextJob(p) == IF p = "admin" /\ job = "rebuild" THEN "refresh" ELSE job

\* Initialize returns: the semaphore goes back and the caller goes on.
Return(p, there) ==
  sem' = None /\ sweep' = [sweep EXCEPT ![p] = NoSweep] /\ Goto(p, there)

\* acquireRefresh and, once it has the slot, snapshotProviders.
AcquireUnguarded(p) ==     \* nobody waits for the slot
  /\ pc[p] = "wait"
  /\ sem' = p
  /\ sweep' = [sweep EXCEPT ![p].copy = registered]
  /\ Goto(p, "settings")
  /\ UNCHANGED <<memory, replacing, copied, disk, gen, faults, settled>>

Acquire(p) ==
  /\ pc[p] = "wait" /\ sem = None
  /\ sem' = p
  /\ sweep' = [sweep EXCEPT ![p].copy = registered]
  /\ Goto(p, "settings")
  /\ UNCHANGED <<memory, replacing, copied, disk, gen, faults, settled>>

\* acquireRefresh gives up: the caller's context ends before the slot is free.
GiveUp(p) ==
  /\ pc[p] = "wait" /\ Fault
  /\ \E there \in OnError(p) : Goto(p, there)
  /\ UNCHANGED <<memory, sem, sweep, replacing, copied, disk, gen, settled>>

\* snapshotConfiguredProviderModels and snapshotProviderAutoFetchModels, each
\* under a lock of its own.
CopyLists(p) ==
  /\ pc[p] = "settings"
  /\ sweep' = [sweep EXCEPT ![p].named = lists]
  /\ Goto(p, "switches")
  /\ UNCHANGED <<memory, sem, replacing, copied, disk, gen, faults, settled>>

CopySwitches(p) ==
  /\ pc[p] = "switches"
  /\ sweep' = [sweep EXCEPT ![p].auto = autoOff]
  /\ Goto(p, "previous")
  /\ UNCHANGED <<memory, sem, replacing, copied, disk, gen, faults, settled>>

\* The names of the sweep whose upstream is asked for its models.
Asked(p) == {n \in Names : sweep[p].copy[n] # 0 /\ n \notin sweep[p].auto}

\* fetchProviderInventory and retainPreviousModels for one name: what its
\* upstream lists; when it is not asked, fails or lists nothing, its configured
\* list; without one, the models listed before, bound to the copied instance.
Fetched(p, n, failed, previous) ==
  LET ids == CASE n \in Asked(p) \ failed /\ Catalog[n] # {} -> Catalog[n]
               [] ~(n \in Asked(p) \ failed /\ Catalog[n] # {}) /\ n \in sweep[p].named -> Configured[n]
               [] OTHER -> previous[n].ids
  IN  IF sweep[p].copy[n] = 0 THEN Absent ELSE ShelfOf(sweep[p].copy[n], ids)

\* fetchAllProviderModels: the previous inventory is read first, then every
\* provider is asked.  A call fails, or answers with an empty list, as often
\* as the faults last.  Nothing shared is read between that and the swap.
FetchAll(p) ==
  /\ pc[p] = "previous"
  /\ \E failed \in SUBSET Asked(p) :
       /\ Cardinality(failed) <= faults
       /\ faults' = faults - Cardinality(failed)
       /\ sweep' = [sweep EXCEPT ![p] = [copy |-> @.copy, auto |-> {}, named |-> {},
                       out |-> [n \in Names |-> Fetched(p, n, failed, inventory)]]]
  /\ Goto(p, "apply")
  /\ UNCHANGED <<memory, sem, replacing, copied, disk, gen, settled>>

\* applyFetchedInventory: both maps are swapped in one critical section,
\* whatever the providers registered by now.
Apply(p) ==
  /\ pc[p] = "apply" /\ Listed(sweep[p].out) # {}
  /\ inventory' = sweep[p].out /\ bare' = BareOf(sweep[p].out)
  /\ settled' = (settled \/ sweep[p].copy = registered)
  /\ Return(p, OnOk(p))
  /\ job' = NextJob(p)
  /\ snap' = IF p = "admin" THEN NoSnapshot ELSE snap
  /\ UNCHANGED <<registered, autoOff, lists, todo, copied, disk, gen, faults>>

\* initialize ends with an error when no provider listed anything.
NothingFetched(p) ==
  /\ pc[p] = "apply" /\ Listed(sweep[p].out) = {}
  /\ \E there \in OnError(p) : Return(p, there)
  /\ UNCHANGED <<memory, replacing, copied, disk, gen, faults, settled>>

\* SaveToCache copies the inventory under the lock; the runtime refresh saves
\* no empty registry.
CopyForCache(p) ==
  /\ pc[p] \in {"save", "resave"}
  /\ IF p = "admin" /\ Ownerless
     THEN Goto(p, "idle") /\ UNCHANGED copied
     ELSE /\ Goto(p, IF pc[p] = "save" THEN "write" ELSE "rewrite")
          /\ copied' = [copied EXCEPT ![p] = IdsOf(inventory)]
  /\ UNCHANGED <<memory, sem, sweep, replacing, disk, gen, faults, settled>>

\* The loop saves a sweep before it downloads the model list, and once more
\* after the download.
AfterSave(p) ==
  CASE p = "boot" -> "done"
    [] p = "loop" -> IF pc[p] = "write" THEN "list" ELSE "wait"
    [] p = "admin" -> "idle"

\* The copy is written without the lock, while the inventory may go on.
WriteCache(p) ==
  /\ pc[p] \in {"write", "rewrite"}
  /\ \/ disk' = copied[p] /\ UNCHANGED faults
     \/ Fault /\ UNCHANGED disk
  /\ copied' = [copied EXCEPT ![p] = IdsOf(NoModels)]
  /\ Goto(p, AfterSave(p))
  /\ UNCHANGED <<memory, sem, sweep, replacing, gen, settled>>

-----------------------------------------------------------------------------
(* The model list: it describes the models and adds none, but its download  *)
(* takes the refresh semaphore, and the loop saves the registry after it.   *)

\* Without a list, the loop sleeps until its timer fires and the runtime refresh
\* goes on to its second sweep, or returns if its own context has ended.
AfterList(p) == IF p = "loop" THEN {"wait"} ELSE {"wait", "idle"}

\* No model list is configured, or acquireRefresh gives up.
SkipList(p) ==
  /\ pc[p] = "list"
  /\ \E there \in AfterList(p) : Goto(p, there)
  /\ UNCHANGED <<memory, sem, sweep, replacing, copied, disk, gen, faults, settled>>

AcquireForList(p) ==
  /\ pc[p] = "list" /\ sem = None
  /\ sem' = p
  /\ Goto(p, "enrich")
  /\ UNCHANGED <<memory, sweep, replacing, copied, disk, gen, faults, settled>>

\* The models are enriched where they are, and the slot is free again; the loop
\* saves if the list had any models.
Enrich(p) ==
  /\ pc[p] = "enrich"
  /\ sem' = None
  /\ \E there \in AfterList(p) \cup {h \in {"resave"} : p = "loop"} : Goto(p, there)
  /\ UNCHANGED <<memory, sweep, replacing, copied, disk, gen, faults, settled>>

-----------------------------------------------------------------------------
(* ReplaceProviders: the administrator's rebuild and the one at start-up    *)

\* RefreshRuntime, one at a time, and the rebuild of app.New.  W are the names
\* configured by now; Rebuild first applies the pools' settings to the registry
\* it is about to reset.  (With every provider disabled the rebuild is skipped;
\* the listing that then follows is one the loop makes as well.)
Rebuild(W) ==
  /\ W # {} /\ gen < MaxGen
  /\ \/ pc["admin"] = "startup" /\ W = Names /\ UNCHANGED job
     \/ pc["admin"] = "idle" /\ job' = "rebuild"
  /\ todo' = W
  /\ autoOff' = autoOff \cup PoolOff
  /\ Goto("admin", "capture")
  /\ UNCHANGED <<registered, inventory, bare, lists, sem, sweep, snap,
                 copied, disk, gen, faults, settled>>

CaptureSnapshot ==
  /\ pc["admin"] = "capture"
  /\ snap' = [registered |-> registered, inventory |-> inventory, bare |-> bare]
  /\ Goto("admin", "reset")
  /\ UNCHANGED <<memory, sem, sweep, job, todo, copied, disk, gen, faults, settled>>

\* Everything goes, the settings of providers and pools with it; the refresh
\* semaphore is not asked for.
Reset ==
  /\ pc["admin"] = "reset" /\ gen < MaxGen
  /\ gen' = gen + 1
  /\ registered' = [n \in Names |-> 0]
  /\ inventory' = NoModels /\ bare' = Unowned
  /\ autoOff' = {} /\ lists' = {}
  /\ settled' = FALSE
  /\ Goto("admin", "register")
  /\ UNCHANGED <<sem, sweep, replacing, copied, disk, faults>>

\* The instance is numbered after the next rebuild.
RegisterEarly ==
  /\ pc["admin"] = "register" /\ todo # {}
  /\ registered' = [registered EXCEPT ![First(todo)] = gen + 1]
  /\ Goto("admin", "configure")
  /\ UNCHANGED <<inventory, bare, autoOff, lists, sem, sweep, replacing, copied,
                 disk, gen, faults, settled>>

\* initializeProviders creates and registers the next name, or skips a name
\* whose instance cannot be created ...
Register ==
  /\ pc["admin"] = "register" /\ todo # {}
  /\ \/ /\ registered' = [registered EXCEPT ![First(todo)] = gen]
        /\ Goto("admin", "configure")
        /\ UNCHANGED <<todo, faults>>
     \/ /\ Fault /\ todo' = todo \ {First(todo)}
        /\ UNCHANGED <<registered, pc>>
  /\ UNCHANGED <<inventory, bare, autoOff, lists, sem, sweep, job, snap, copied,
                 disk, gen, settled>>

\* ... and then, under the lock again, gives it its configured list ...
Configure ==
  /\ pc["admin"] = "configure"
  /\ lists' = IF Configured[First(todo)] = {} THEN lists ELSE lists \cup {First(todo)}
  /\ Goto("admin", "switch")
  /\ UNCHANGED <<registered, inventory, bare, autoOff, sem, sweep, replacing,
                 copied, disk, gen, faults, settled>>

\* ... and under the lock once more its own auto_fetch_models switch.
SwitchOff ==
  /\ pc["admin"] = "switch"
  /\ autoOff' = autoOff \cup ({First(todo)} \cap OwnOff)
  /\ todo' = todo \ {First(todo)}
  /\ Goto("admin", "register")
  /\ UNCHANGED <<registered, inventory, bare, lists, sem, sweep, job, snap,
                 copied, disk, gen, faults, settled>>

\* With at least one instance registered the models are listed.
AllRegistered ==
  /\ pc["admin"] = "register" /\ todo = {}
  /\ \E n \in Names : registered[n] # 0
  /\ Goto("admin", "wait")
  /\ UNCHANGED <<memory, sem, sweep, replacing, copied, disk, gen, faults, settled>>

\* A rebuild has failed: at start-up that is all; a runtime refresh returns
\* when its own context has ended and otherwise goes on to the model list.
RebuildFailed ==
  \/ Goto("admin", "idle") /\ UNCHANGED job
  \/ job # "startup" /\ Goto("admin", "list") /\ job' = "refresh"

\* restoreSnapshot: no instance could be registered, so all that was captured
\* goes back.  The settings were not captured.
RestoreSnapshot ==
  /\ pc["admin"] = "register" /\ todo = {}
  /\ \A n \in Names : registered[n] = 0
  /\ registered' = snap.registered
  /\ inventory' = snap.inventory /\ bare' = snap.bare
  /\ snap' = NoSnapshot
  /\ RebuildFailed
  /\ UNCHANGED <<autoOff, lists, sem, sweep, todo, copied, disk, gen, faults, settled>>

\* restoreModels: the new instances stay, and what was listed before the reset
\* goes back to those names that are still registered, bound to the instances
\* registered now.
Rebound(n) == IF registered[n] = 0 THEN Absent ELSE ShelfOf(registered[n], snap.inventory[n].ids)
ReboundOwnerAsItWas(m) == snap.bare[m]      \* and so is the owner
ReboundOwner(m) ==
  IF snap.bare[m] = None THEN None
  ELSE LET n == snap.bare[m].name
       IN  IF registered[n] = 0 THEN None ELSE [name |-> n, gen |-> registered[n]]

RestoreModels ==
  /\ pc["admin"] = "restore"
  /\ IF snap.inventory = NoModels /\ snap.bare = Unowned
     THEN UNCHANGED <<inventory, bare>>
     ELSE /\ inventory' = [n \in Names |-> Rebound(n)]
          /\ bare' = [m \in Models |-> ReboundOwner(m)]
  /\ snap' = NoSnapshot
  /\ RebuildFailed
  /\ UNCHANGED <<registered, autoOff, lists, sem, sweep, todo, copied, disk, gen,
                 faults, settled>>

-----------------------------------------------------------------------------
Refresh(p) ==
  \/ Acquire(p) \/ GiveUp(p) \/ CopyLists(p) \/ CopySwitches(p) \/ FetchAll(p)
  \/ Apply(p) \/ NothingFetched(p)
  \/ CopyForCache(p) \/ WriteCache(p)
  \/ SkipList(p) \/ AcquireForList(p) \/ Enrich(p)

Replace ==
  \/ CaptureSnapshot \/ Reset \/ Register \/ Configure \/ SwitchOff
  \/ AllRegistered \/ RestoreSnapshot \/ RestoreModels

Next ==
  \/ LoadFromCache \/ Restart
  \/ \E p \in Procs : Refresh(p)
  \/ \E W \in SUBSET Names : Rebuild(W)
  \/ Replace

\* The runtime schedules every goroutine, the loop's timer fires again and again,
\* and a rebuild that has started runs on; nobody has to ask for one.
Fairness ==
  /\ WF_vars(LoadFromCache) /\ WF_vars(Replace)
  /\ \A p \in Procs : WF_vars(Refresh(p))

RegistrySpec == Init /\ [][Next]_vars /\ Fairness

-----------------------------------------------------------------------------
(* Properties *)

\* A model is listed under an instance that is registered.
Bound(inv) == \A n \in Listed(inv) : inv[n].gen = registered[n]

\* Once a sweep over the registered instances has landed, and until the next
\* reset, no listed model belongs to an instance that a rebuild has thrown away,
\* whatever sweep that began earlier or later lands after it, whatever restored
\* snapshot comes back (registry_init.go:62, registry_reconfigure.go:144).
SettledBound == settled => Bound(inventory)

\* An unqualified id leads where its provider is: its owner lists the id, and
\* the entry is bound to the same instance as the owner's own models
\* (registry_init.go:346, registry_reconfigure.go:155).  It says nothing of an id
\* without an owner: restoreModels leaves an id without one when its owner is gone,
\* though another provider may list it.
IndexAgrees ==
  \A m \in Models : bare[m] # None =>
    /\ m \in inventory[bare[m].name].ids
    /\ inventory[bare[m].name].gen = bare[m].gen

\* A replacement of the providers does not take the gateway out of service: if
\* a provider that is still registered had models when it began, some model is
\* listed when it has ended, refreshed or not (registry_reconfigure.go:71).
HadService == \E n \in Listed(snap.inventory) : registered'[n] # 0
Replacing ==
  \/ pc["admin"] \in {"register", "configure", "switch", "restore"}
  \/ job # "refresh" /\ pc["admin"] \in {"wait", "settings", "switches", "previous", "apply"}

ReplacementKeepsService ==
  [][gen' = gen /\ Replacing /\ ~Replacing' /\ HadService => Listed(inventory') # {}]_vars

\* Rebuilds come and go, calls fail, refreshes time out and land late, the
\* process restarts; once that is over the background loop leaves the
\* gateway with models of the registered instances, and with a cache that says
\* the same, and it stays so (registry_init.go:578).
SettlesOnLive == <>[](settled /\ Listed(inventory) # {} /\ disk = IdsOf(inventory))

\* What Rebuild says of the pools' settings: they are applied first "so HTTP
\* clients and model fetching use the pool's values" (rebuild.go:32).  A sweep
\* over the instances registered now does not ask the upstream of a provider
\* whose pool has switched discovery off.
PoolSwitchHonoured ==
  \A p \in Procs :
    pc[p] = "previous" /\ sweep[p].copy = registered => Asked(p) \cap PoolOff = {}

=============================================================================
