------------------------ MODULE ModelRegistryProofs ------------------------
(***************************************************************************)
(* What holds of the model registry for any number of providers and        *)
(* models, whatever rebuilds, refreshes and restarts interleave: the shape *)
(* of the state, that an unqualified id leads to a provider that lists it, *)
(* that once a sweep over the registered instances has landed no sweep,    *)
(* older or newer, lists a model under an instance that is gone, and that  *)
(* a replacement never ends with nothing listed where something was.       *)
(***************************************************************************)
EXTENDS ModelRegistry, FiniteSetTheorems, TLAPS

-----------------------------------------------------------------------------
(* Constants, and the shape of the state with a name for each set *)

Regs == [Names -> Gens]
Invs == [Names -> Shelf]
Bares == [Models -> Owner \cup {None}]
Sweeps == [copy : Regs, auto : SUBSET Names, named : SUBSET Names, out : Invs]
Snaps == [registered : Regs, inventory : Invs, bare : Bares]
Caches == [Names -> SUBSET Models]
Sweeping == {"settings", "switches", "previous", "apply"}
Holding == Sweeping \cup {"enrich"}               \* with the refresh semaphore
Registering == {"register", "configure", "switch"}
States == {"load", "idle", "done", "startup", "capture", "reset", "register", "configure",
           "switch", "wait", "settings", "switches", "previous", "apply", "restore", "save",
           "write", "list", "enrich", "resave", "rewrite"}
Pcs == [Procs -> States]
Jobs == {"startup", "rebuild", "refresh"}

Types ==
  /\ registered \in Regs /\ inventory \in Invs /\ bare \in Bares
  /\ autoOff \in SUBSET Names /\ lists \in SUBSET Names
  /\ sem \in Procs \cup {None} /\ sweep \in [Procs -> Sweeps]
  /\ pc \in Pcs /\ job \in Jobs /\ todo \in SUBSET Names /\ snap \in Snaps
  /\ copied \in [Procs -> Caches] /\ disk \in Caches \cup {None}
  /\ gen \in Gens \ {0} /\ faults \in 0..MaxFaults /\ settled \in BOOLEAN

LEMMA TypesAreType == Types => TypeOK
BY DEF Types, TypeOK, Regs, Invs, Bares, Sweeps, Snaps, Caches, States, Pcs, Jobs

LEMMA ConstantTypes ==
  /\ NumProviders \in Nat /\ NumProviders > 0
  /\ MaxGen \in Nat /\ MaxGen > 0 /\ MaxFaults \in Nat
  /\ 0 \in Gens /\ 1 \in Gens /\ None \notin Procs
  /\ Names \subseteq Nat /\ None \notin Owner
  /\ Catalog \in Caches /\ Configured \in Caches
  /\ PoolOff \in SUBSET Names /\ OwnOff \in SUBSET Names
BY RegistryAssumption DEF Gens, Procs, Names, Owner, Caches

\* A set of names has a least element: the intervals up to its elements are
\* finite sets, and inclusion is well founded among those.
LEMMA LeastName ==
  ASSUME NEW S \in SUBSET Names, S # {} PROVE \E m \in S : \A k \in S : m <= k
<1> DEFINE up == {1..k : k \in S}
<1> DEFINE R == StrictSubsetOrdering(Nat)
<1>1. S \in SUBSET Nat /\ \A k \in S : k >= 1
  BY ConstantTypes DEF Names
<1>2. up \subseteq FiniteSubsetsOf(Nat) /\ up # {}
  <2>1. \A k \in S : IsFiniteSet(1..k) /\ 1..k \in SUBSET Nat
    BY <1>1, FS_Interval
  <2>2. QED
    BY <2>1 DEF FiniteSubsetsOf
<1>3. IsWellFoundedOn(R, FiniteSubsetsOf(Nat))
  BY FS_StrictSubsetOrderingWellFounded, Zenon
<1>4. PICK x \in up : \A y \in up : ~(<<y, x>> \in R)
  <2> HIDE DEF up, R
  <2>1. QED
    BY <1>2, <1>3, WFMin, Zenon
<1>5. PICK m \in S : x = 1..m
  OBVIOUS
<1>6. ASSUME NEW k \in S, k < m PROVE FALSE
  <2>1. k \in Nat /\ m \in Nat
    BY <1>1
  <2>2. 1..k \in SUBSET Nat /\ 1..m \in SUBSET Nat
    BY <2>1
  <2>3. 1..k \subseteq 1..m /\ m \notin 1..k /\ m \in 1..m
    BY <2>1, <1>1, <1>6
  <2>4. <<1..k, 1..m>> \in R
    BY <2>2, <2>3 DEF StrictSubsetOrdering
  <2>5. 1..k \in up
    OBVIOUS
  <2>6. QED
    BY <1>4, <1>5, <2>4, <2>5
<1>7. \A k \in S : m <= k
  BY <1>1, <1>6
<1>8. QED
  BY <1>7

\* The first name of a set of names is one of them.
LEMMA FirstIn == ASSUME NEW S \in SUBSET Names, S # {} PROVE First(S) \in S
BY LeastName, Zenon DEF First

LEMMA ShelfOfType ==
  ASSUME NEW g \in Gens, NEW ids \in SUBSET Models
  PROVE /\ ShelfOf(g, ids) \in Shelf
        /\ ShelfOf(g, ids).ids = ids
        /\ ids # {} => ShelfOf(g, ids).gen = g
BY ConstantTypes DEF ShelfOf, Shelf, Absent

\* Of an index and an inventory: the owner of an id lists it, in the same
\* instance.
Agrees(b, inv) ==
  \A m \in Models : b[m] # None =>
    /\ m \in inv[b[m].name].ids
    /\ inv[b[m].name].gen = b[m].gen

LEMMA BareOfAgrees ==
  ASSUME NEW inv \in Invs
  PROVE BareOf(inv) \in Bares /\ Agrees(BareOf(inv), inv)
<1> DEFINE H(m) == {n \in Names : m \in inv[n].ids}
<1>1. BareOf(inv) = [m \in Models |-> IF H(m) = {} THEN None
                       ELSE [name |-> First(H(m)), gen |-> inv[First(H(m))].gen]]
  BY DEF BareOf
<1>2. \A m \in Models : H(m) \in SUBSET Names
  OBVIOUS
<1>3. ASSUME NEW m \in Models, H(m) # {}
      PROVE /\ First(H(m)) \in Names /\ m \in inv[First(H(m))].ids
            /\ inv[First(H(m))].gen \in Gens
  <2>1. First(H(m)) \in H(m)
    BY <1>2, <1>3, FirstIn
  <2>2. First(H(m)) \in Names /\ m \in inv[First(H(m))].ids
    BY <2>1
  <2>3. \A n \in Names : inv[n].gen \in Gens
    BY DEF Invs, Shelf
  <2>4. QED
    BY <2>2, <2>3, Zenon
<1> HIDE DEF H
<1>4. BareOf(inv) \in Bares
  BY <1>1, <1>3 DEF Bares, Owner
<1>5. Agrees(BareOf(inv), inv)
  BY <1>1, <1>3 DEF Agrees
<1>6. QED
  BY <1>4, <1>5

-----------------------------------------------------------------------------
(* The invariant *)

\* The refresh semaphore: a goroutine that sweeps, or has the model list
\* downloaded, holds it.
OneSweep == \A p \in Procs : pc[p] \in Holding => sem = p

\* What has been fetched is bound to the instances that were copied.
FetchedBound ==
  \A p \in Procs : pc[p] = "apply" =>
    \A n \in Names : sweep[p].out[n].ids # {} =>
      sweep[p].out[n].gen = sweep[p].copy[n] /\ sweep[p].copy[n] # 0

\* The names that a replacement has yet to register have no instance.
Unregistered ==
  /\ pc["admin"] = "register" => \A n \in todo : registered[n] = 0
  /\ pc["admin"] \in {"configure", "switch"} =>
       todo # {} /\ \A n \in todo \ {First(todo)} : registered[n] = 0

\* Settled, the models are those of the registered instances; a sweep that is
\* still under way, however early it began, copied no instance but one of
\* those; and a sweep that has landed in the middle of a replacement found an
\* instance to ask.
BoundSettled ==
  settled => \A n \in Names : inventory[n].ids # {} =>
    inventory[n].gen = registered[n] /\ registered[n] # 0

SettledSweep ==
  settled => \A p \in Procs : pc[p] \in Sweeping =>
    \A n \in Names : sweep[p].copy[n] \in {0, registered[n]}

SettledEarly ==
  settled /\ pc["admin"] \in Registering => \E n \in Names : registered[n] # 0

Order == OneSweep /\ FetchedBound /\ Unregistered
Maps == Agrees(bare, inventory) /\ Agrees(snap.bare, snap.inventory)

RegInv == Types /\ Order /\ Maps /\ BoundSettled /\ SettledSweep /\ SettledEarly

LEMMA EmptyTypes ==
  /\ NoModels \in Invs /\ \A n \in Names : NoModels[n].ids = {}
  /\ Unowned \in Bares /\ \A m \in Models : Unowned[m] = None
  /\ [n \in Names |-> 0] \in Regs
  /\ NoSweep \in Sweeps /\ NoSweeps \in [Procs -> Sweeps] /\ NoSnapshot \in Snaps
  /\ NoSnapshot.bare = Unowned /\ NoSnapshot.inventory = NoModels
  /\ Agrees(Unowned, NoModels) /\ Agrees(NoSnapshot.bare, NoSnapshot.inventory)
<1>1. NoModels \in Invs /\ \A n \in Names : NoModels[n].ids = {}
  BY ConstantTypes DEF NoModels, Absent, Invs, Shelf
<1>2. Unowned \in Bares /\ \A m \in Models : Unowned[m] = None
  BY DEF Unowned, Bares
<1>3. [n \in Names |-> 0] \in Regs
  BY ConstantTypes DEF Regs
<1>4. NoSweep \in Sweeps /\ NoSweeps \in [Procs -> Sweeps]
  BY <1>1, <1>3 DEF NoSweep, NoSweeps, Sweeps
<1>5. /\ NoSnapshot \in Snaps
      /\ NoSnapshot.bare = Unowned /\ NoSnapshot.inventory = NoModels
  BY <1>1, <1>2, <1>3 DEF NoSnapshot, Snaps
<1>6. Agrees(Unowned, NoModels)
  BY <1>2 DEF Agrees
<1>7. QED
  BY <1>1, <1>2, <1>3, <1>4, <1>5, <1>6

\* What the registry holds when the process starts.
LEMMA FreshTypes ==
  ASSUME NEW g \in Gens
  PROVE /\ Fresh(g).registered \in Regs /\ Fresh(g).inventory = NoModels
        /\ Fresh(g).bare = Unowned /\ Fresh(g).lists \in SUBSET Names
        /\ Fresh(g).autoOff \in SUBSET Names
BY ConstantTypes DEF Fresh, Regs

LEMMA StartPcs ==
  LET start == [p \in Procs |-> IF p = "admin" THEN "load" ELSE "done"]
  IN  start \in Pcs /\ \A p \in Procs : start[p] \in {"load", "done"}
BY DEF Pcs, States

LEMMA AtStart ==
  ASSUME registered \in Regs, inventory = NoModels, bare = Unowned,
         autoOff \in SUBSET Names, lists \in SUBSET Names,
         sem = None, sweep = NoSweeps,
         pc = [p \in Procs |-> IF p = "admin" THEN "load" ELSE "done"],
         job = "startup", todo = {}, snap = NoSnapshot,
         copied = [p \in Procs |-> IdsOf(NoModels)],
         disk \in Caches \cup {None}, gen \in Gens \ {0}, faults \in 0..MaxFaults,
         settled = TRUE
  PROVE RegInv
<1>1. IdsOf(NoModels) \in Caches
  BY EmptyTypes DEF IdsOf, Caches
<1>2. pc \in Pcs /\ \A p \in Procs : pc[p] \in {"load", "done"}
  BY StartPcs
<1>3. copied \in [Procs -> Caches]
  BY <1>1
<1>4. job \in Jobs /\ sem \in Procs \cup {None} /\ settled \in BOOLEAN
  BY Zenon DEF Jobs
<1>5. Types
  BY <1>2, <1>3, <1>4, EmptyTypes, ConstantTypes DEF Types
<1>6. Order
  BY <1>2 DEF Order, OneSweep, FetchedBound, Unregistered, Holding, Sweeping, Procs
<1>7. Maps
  BY EmptyTypes DEF Maps
<1>8. BoundSettled /\ SettledSweep /\ SettledEarly
  BY <1>2, EmptyTypes DEF BoundSettled, SettledSweep, SettledEarly, Sweeping, Registering, Procs
<1>9. QED
  BY <1>5, <1>6, <1>7, <1>8 DEF RegInv

LEMMA RegInvInit == Init => RegInv
<1> SUFFICES ASSUME Init PROVE RegInv
  OBVIOUS
<1>1. /\ Fresh(1).registered \in Regs /\ Fresh(1).inventory = NoModels
      /\ Fresh(1).bare = Unowned /\ Fresh(1).lists \in SUBSET Names
      /\ Fresh(1).autoOff \in SUBSET Names
  BY FreshTypes, ConstantTypes
<1>2. disk \in Caches \cup {None}
  BY ConstantTypes DEF Init
<1>3. gen \in Gens \ {0} /\ faults \in 0..MaxFaults
  BY ConstantTypes DEF Init
<1>4. QED
  BY <1>1, <1>2, <1>3, AtStart, Zenon DEF Init

-----------------------------------------------------------------------------
(* Steps, by what they leave alone *)

LEMMA GotoPc ==
  ASSUME Types, NEW p \in Procs, NEW there \in States, Goto(p, there)
  PROVE pc' \in Pcs /\ pc'[p] = there /\ \A q \in Procs \ {p} : pc'[q] = pc[q]
BY DEF Types, Pcs, Goto

\* Where a goroutine goes when it neither sweeps nor registers.
Resting == States \ (Holding \cup Registering)

Rest == <<registered, inventory, bare, sem, sweep, settled>>

\* A goroutine goes elsewhere; the maps, the sweep and the instances stay.
LEMMA QuietMove ==
  ASSUME RegInv, UNCHANGED Rest,
         NEW p \in Procs, NEW there \in Resting, Goto(p, there),
         p = "admin" \/ todo' = todo,
         autoOff' \in SUBSET Names, lists' \in SUBSET Names, todo' \in SUBSET Names,
         snap' \in Snaps, Agrees(snap.bare, snap.inventory)',
         job' \in Jobs, copied' \in [Procs -> Caches], disk' \in Caches \cup {None},
         gen' \in Gens \ {0}, faults' \in 0..MaxFaults
  PROVE RegInv'
<1>1. pc' \in Pcs /\ pc'[p] = there /\ \A q \in Procs \ {p} : pc'[q] = pc[q]
  BY GotoPc DEF RegInv, Resting
<1>2. /\ registered' = registered /\ inventory' = inventory /\ bare' = bare
      /\ sem' = sem /\ sweep' = sweep /\ settled' = settled
  BY Zenon DEF Rest
<1>3. Types'
  BY <1>1, <1>2, Zenon DEF RegInv, Types
<1>4. OneSweep' /\ FetchedBound'
  BY <1>1, <1>2 DEF RegInv, Order, OneSweep, FetchedBound, Resting, Holding, Sweeping
<1>5. Unregistered'
  BY <1>1, <1>2 DEF RegInv, Order, Unregistered, Resting, Registering, Procs
<1>6. Maps'
  BY <1>2 DEF RegInv, Maps, Agrees
<1>7. BoundSettled' /\ SettledSweep' /\ SettledEarly'
  BY <1>1, <1>2 DEF RegInv, BoundSettled, SettledSweep, SettledEarly, Resting, Holding, Procs
<1>8. QED
  BY <1>3, <1>4, <1>5, <1>6, <1>7 DEF RegInv, Order

\* A goroutine with the semaphore goes on: there is no other that has it.
LEMMA SweepMove ==
  ASSUME RegInv, UNCHANGED <<memory, replacing, copied, disk, gen, settled>>,
         NEW p \in Procs, NEW there \in Holding, Goto(p, there),
         sem \in {None, p}, sem' = p, sweep' \in [Procs -> Sweeps], faults' \in 0..MaxFaults,
         there \in Sweeping /\ settled =>
           \A n \in Names : sweep'[p].copy[n] \in {0, registered[n]},
         there = "apply" =>
           \A n \in Names : sweep'[p].out[n].ids # {} =>
             sweep'[p].out[n].gen = sweep'[p].copy[n] /\ sweep'[p].copy[n] # 0
  PROVE RegInv'
<1>1. pc' \in Pcs /\ pc'[p] = there /\ \A q \in Procs \ {p} : pc'[q] = pc[q]
  BY GotoPc DEF RegInv, Holding, Sweeping, States
<1>2. /\ registered' = registered /\ inventory' = inventory /\ bare' = bare
      /\ autoOff' = autoOff /\ lists' = lists /\ job' = job /\ todo' = todo /\ snap' = snap
      /\ copied' = copied /\ disk' = disk /\ gen' = gen /\ settled' = settled
  BY Zenon DEF memory, replacing
<1>3. sem' \in Procs \cup {None}
  OBVIOUS
<1>4. Types'
  BY <1>1, <1>2, <1>3, Zenon DEF RegInv, Types
<1>5. \A q \in Procs \ {p} : pc[q] \notin Holding
  BY ConstantTypes DEF RegInv, Order, OneSweep
<1>6. OneSweep'
  BY <1>1, <1>5 DEF OneSweep
<1>7. FetchedBound'
  BY <1>1, <1>5 DEF FetchedBound, Holding, Sweeping
<1>8. Unregistered'
  BY <1>1, <1>2 DEF RegInv, Order, Unregistered, Holding, Sweeping, Procs
<1>9. Maps'
  BY <1>2 DEF RegInv, Maps, Agrees
<1>10. SettledSweep'
  BY <1>1, <1>2, <1>5 DEF SettledSweep, Holding
<1>11. BoundSettled' /\ SettledEarly'
  BY <1>1, <1>2 DEF RegInv, BoundSettled, SettledEarly, Registering, Holding, Sweeping, Procs
<1>12. QED
  BY <1>4, <1>6, <1>7, <1>8, <1>9, <1>10, <1>11 DEF RegInv, Order

\* The administrator's goroutine writes the registry while the sweep stays.
LEMMA AdminMove ==
  ASSUME RegInv, UNCHANGED <<sem, sweep, copied, disk>>,
         NEW there \in States \ Holding, Goto("admin", there),
         registered' \in Regs, inventory' \in Invs, bare' \in Bares,
         autoOff' \in SUBSET Names, lists' \in SUBSET Names,
         job' \in Jobs, todo' \in SUBSET Names, snap' \in Snaps,
         gen' \in Gens \ {0}, faults' \in 0..MaxFaults, settled' \in BOOLEAN,
         there = "register" => \A n \in todo' : registered'[n] = 0,
         there \in {"configure", "switch"} =>
           todo' # {} /\ \A n \in todo' \ {First(todo')} : registered'[n] = 0,
         settled' => \A q \in Procs : pc[q] \in Sweeping =>
           \A n \in Names : sweep[q].copy[n] \in {0, registered'[n]},
         Maps', BoundSettled', SettledEarly'
  PROVE RegInv'
<1>1. "admin" \in Procs /\ there \in States
  BY DEF Procs
<1>2. pc' \in Pcs /\ pc'["admin"] = there /\ \A q \in Procs \ {"admin"} : pc'[q] = pc[q]
  BY <1>1, GotoPc DEF RegInv
<1>3. sem' = sem /\ sweep' = sweep /\ copied' = copied /\ disk' = disk
  OBVIOUS
<1>4. Types'
  BY <1>2, <1>3, Zenon DEF RegInv, Types
<1>5. OneSweep'
  BY <1>2, <1>3 DEF RegInv, Order, OneSweep
<1>6. FetchedBound'
  BY <1>2, <1>3 DEF RegInv, Order, FetchedBound, Holding, Sweeping
<1>7. Unregistered' /\ SettledSweep'
  BY <1>2, <1>3 DEF Unregistered, SettledSweep, Holding
<1>8. QED
  BY <1>4, <1>5, <1>6, <1>7 DEF RegInv, Order

\* While the instances and the history stay, so does what a sweep has copied.
LEMMA SweepsStay ==
  ASSUME RegInv, registered' = registered, settled' = settled
  PROVE settled' => \A q \in Procs : pc[q] \in Sweeping =>
          \A n \in Names : sweep[q].copy[n] \in {0, registered'[n]}
BY DEF RegInv, SettledSweep

-----------------------------------------------------------------------------
(* The refresh *)

\* What a goroutine reads and where it goes, in sets.
LEMMA Kept ==
  ASSUME RegInv
  PROVE /\ registered \in Regs /\ inventory \in Invs /\ bare \in Bares
        /\ autoOff \in SUBSET Names /\ lists \in SUBSET Names
        /\ sweep \in [Procs -> Sweeps] /\ pc \in Pcs /\ job \in Jobs /\ todo \in SUBSET Names
        /\ snap \in Snaps /\ copied \in [Procs -> Caches] /\ disk \in Caches \cup {None}
        /\ gen \in Gens \ {0} /\ faults \in 0..MaxFaults /\ settled \in BOOLEAN
        /\ Agrees(snap.bare, snap.inventory)
BY DEF RegInv, Types, Maps

LEMMA FaultType == ASSUME RegInv, Fault PROVE faults' \in 0..MaxFaults
BY Kept, ConstantTypes DEF Fault

LEMMA Returns ==
  ASSUME NEW p \in Procs
  PROVE OnOk(p) \in Resting /\ OnError(p) \subseteq Resting /\ AfterSave(p) \in Resting
        /\ AfterList(p) \cup {"resave"} \subseteq Resting
        /\ NextJob(p) \in {"refresh", job}
BY DEF OnOk, OnError, AfterSave, AfterList, NextJob, Resting, States, Holding, Registering,
       Sweeping, Procs

LEMMA AcquireKeeps == ASSUME RegInv, NEW p \in Procs, Acquire(p) PROVE RegInv'
<1> DEFINE w == [sweep EXCEPT ![p].copy = registered]
<1>1. registered \in Regs
  BY Kept
<1>2. w \in [Procs -> Sweeps] /\ w[p].copy = registered
  BY <1>1, Kept DEF Sweeps
<1>3. sweep' = w /\ sem = None /\ sem' = p /\ Goto(p, "settings") /\ faults' = faults
      /\ UNCHANGED <<memory, replacing, copied, disk, gen, settled>>
  BY Zenon DEF Acquire
<1>4. faults' \in 0..MaxFaults
  BY <1>3, Kept
<1> HIDE DEF w
<1>5. QED
  BY <1>2, <1>3, <1>4, SweepMove DEF Holding, Sweeping

LEMMA HoldsSem == ASSUME RegInv, NEW p \in Procs, pc[p] \in Holding PROVE sem = p
BY DEF RegInv, Order, OneSweep

\* What a sweep under way copied is registered, once settled.
LEMMA CopyStays ==
  ASSUME RegInv, NEW p \in Procs, pc[p] \in Sweeping, settled
  PROVE \A n \in Names : sweep[p].copy[n] \in {0, registered[n]}
BY DEF RegInv, SettledSweep

LEMMA CopyListsKeeps == ASSUME RegInv, NEW p \in Procs, CopyLists(p) PROVE RegInv'
<1> DEFINE w == [sweep EXCEPT ![p].named = lists]
<1>1. w \in [Procs -> Sweeps] /\ w[p].copy = sweep[p].copy
  BY Kept DEF Sweeps
<1>2. sweep' = w /\ sem' = sem /\ Goto(p, "switches") /\ faults' = faults
      /\ UNCHANGED <<memory, replacing, copied, disk, gen, settled>> /\ pc[p] = "settings"
  BY Zenon DEF CopyLists
<1>3. sem = p
  BY <1>2, HoldsSem DEF Holding, Sweeping
<1>4. settled => \A n \in Names : sweep[p].copy[n] \in {0, registered[n]}
  BY <1>2, CopyStays DEF Sweeping
<1>5. faults' \in 0..MaxFaults
  BY <1>2, Kept
<1> HIDE DEF w
<1>6. QED
  BY <1>1, <1>2, <1>3, <1>4, <1>5, SweepMove DEF Holding, Sweeping

LEMMA CopySwitchesKeeps == ASSUME RegInv, NEW p \in Procs, CopySwitches(p) PROVE RegInv'
<1> DEFINE w == [sweep EXCEPT ![p].auto = autoOff]
<1>1. w \in [Procs -> Sweeps] /\ w[p].copy = sweep[p].copy
  BY Kept DEF Sweeps
<1>2. sweep' = w /\ sem' = sem /\ Goto(p, "previous") /\ faults' = faults
      /\ UNCHANGED <<memory, replacing, copied, disk, gen, settled>> /\ pc[p] = "switches"
  BY Zenon DEF CopySwitches
<1>3. sem = p
  BY <1>2, HoldsSem DEF Holding, Sweeping
<1>4. settled => \A n \in Names : sweep[p].copy[n] \in {0, registered[n]}
  BY <1>2, CopyStays DEF Sweeping
<1>5. faults' \in 0..MaxFaults
  BY <1>2, Kept
<1> HIDE DEF w
<1>6. QED
  BY <1>1, <1>2, <1>3, <1>4, <1>5, SweepMove DEF Holding, Sweeping

\* A provider's models as fetched: under the instance that was copied, if any.
LEMMA FetchedType ==
  ASSUME RegInv, NEW p \in Procs, NEW n \in Names, NEW failed \in SUBSET Names
  PROVE /\ Fetched(p, n, failed, inventory) \in Shelf
        /\ Fetched(p, n, failed, inventory).ids # {} =>
             /\ Fetched(p, n, failed, inventory).gen = sweep[p].copy[n]
             /\ sweep[p].copy[n] # 0
<1> DEFINE answers == n \in Asked(p) \ failed /\ Catalog[n] # {}
<1> DEFINE ids == CASE answers -> Catalog[n]
                    [] ~answers /\ n \in sweep[p].named -> Configured[n]
                    [] OTHER -> inventory[n].ids
<1>1. Catalog[n] \in SUBSET Models /\ Configured[n] \in SUBSET Models
  BY ConstantTypes DEF Caches
<1>2. inventory[n].ids \in SUBSET Models /\ sweep[p].copy[n] \in Gens
  BY Kept DEF Invs, Shelf, Sweeps, Regs
<1>3. ids \in SUBSET Models
  <2> HIDE DEF answers
  <2>1. QED
    BY <1>1, <1>2
<1>4. Fetched(p, n, failed, inventory) =
        IF sweep[p].copy[n] = 0 THEN Absent ELSE ShelfOf(sweep[p].copy[n], ids)
  BY Zenon DEF Fetched
<1>5. Absent \in Shelf /\ Absent.ids = {}
  BY ConstantTypes DEF Absent, Shelf
<1> HIDE DEF ids
<1>6. CASE sweep[p].copy[n] = 0
  BY <1>4, <1>5, <1>6
<1>7. CASE sweep[p].copy[n] # 0
  BY <1>2, <1>3, <1>4, <1>7, ShelfOfType
<1>8. QED
  BY <1>6, <1>7

LEMMA FetchAllKeeps == ASSUME RegInv, NEW p \in Procs, FetchAll(p) PROVE RegInv'
<1>1. PICK failed \in SUBSET Asked(p) :
        /\ Cardinality(failed) <= faults
        /\ faults' = faults - Cardinality(failed)
        /\ sweep' = [sweep EXCEPT ![p] = [copy |-> @.copy, auto |-> {}, named |-> {},
                        out |-> [n \in Names |-> Fetched(p, n, failed, inventory)]]]
  BY DEF FetchAll
<1>2. /\ sem' = sem /\ Goto(p, "apply") /\ pc[p] = "previous"
      /\ UNCHANGED <<memory, replacing, copied, disk, gen, settled>>
  BY Zenon DEF FetchAll
<1>3. sem = p
  BY <1>2, HoldsSem DEF Holding, Sweeping
<1>4. failed \in SUBSET Names
  BY DEF Asked
<1>5. faults' \in 0..MaxFaults
  <2>1. IsFiniteSet(Names)
    BY ConstantTypes, FS_Interval DEF Names
  <2>2. Cardinality(failed) \in Nat
    BY <1>4, <2>1, FS_Subset, FS_CardinalityType
  <2>3. faults \in 0..MaxFaults /\ MaxFaults \in Nat
    BY Kept, ConstantTypes
  <2>4. QED
    BY <1>1, <2>2, <2>3
<1> DEFINE o == [n \in Names |-> Fetched(p, n, failed, inventory)]
<1>6. /\ o \in Invs
      /\ \A n \in Names : o[n].ids # {} =>
           o[n].gen = sweep[p].copy[n] /\ sweep[p].copy[n] # 0
  BY <1>4, FetchedType DEF Invs
<1> DEFINE w == [copy |-> sweep[p].copy, auto |-> {}, named |-> {}, out |-> o]
<1>7. sweep' = [sweep EXCEPT ![p] = w]
  BY <1>1, Zenon
<1> HIDE DEF o
<1>8. w \in Sweeps /\ w.out = o /\ w.copy = sweep[p].copy
  BY <1>6, Kept DEF Sweeps
<1> HIDE DEF w
<1>9. sweep' \in [Procs -> Sweeps] /\ sweep'[p] = w
  BY <1>7, <1>8, Kept
<1>10. \A n \in Names : sweep'[p].out[n].ids # {} =>
         sweep'[p].out[n].gen = sweep'[p].copy[n] /\ sweep'[p].copy[n] # 0
  BY <1>6, <1>8, <1>9
<1>11. settled => \A n \in Names : sweep'[p].copy[n] \in {0, registered[n]}
  BY <1>2, <1>8, <1>9, CopyStays DEF Sweeping
<1>12. QED
  BY <1>2, <1>3, <1>5, <1>9, <1>10, <1>11, SweepMove DEF Holding, Sweeping

\* The model list is downloaded with the semaphore, and not without.
LEMMA AcquireForListKeeps == ASSUME RegInv, NEW p \in Procs, AcquireForList(p) PROVE RegInv'
<1>1. /\ sem = None /\ sem' = p /\ sweep' = sweep /\ faults' = faults /\ Goto(p, "enrich")
      /\ UNCHANGED <<memory, replacing, copied, disk, gen, settled>>
  BY Zenon DEF AcquireForList
<1>2. QED
  BY <1>1, Kept, SweepMove DEF Holding, Sweeping

LEMMA SkipListKeeps == ASSUME RegInv, NEW p \in Procs, SkipList(p) PROVE RegInv'
<1>1. PICK there \in AfterList(p) : Goto(p, there)
  BY DEF SkipList
<1>2. there \in Resting
  BY Returns
<1>3. /\ UNCHANGED Rest /\ autoOff' = autoOff /\ lists' = lists /\ todo' = todo
      /\ snap' = snap /\ job' = job /\ copied' = copied /\ disk' = disk /\ gen' = gen
      /\ faults' = faults
  BY Zenon DEF SkipList, Rest, memory, replacing
<1>4. Agrees(snap.bare, snap.inventory)'
  BY <1>3, Kept DEF Agrees
<1>5. QED
  BY <1>1, <1>2, <1>3, <1>4, Kept, QuietMove

LEMMA GiveUpKeeps == ASSUME RegInv, NEW p \in Procs, GiveUp(p) PROVE RegInv'
<1>1. PICK there \in OnError(p) : Goto(p, there)
  BY DEF GiveUp
<1>2. there \in Resting
  BY Returns
<1>3. /\ UNCHANGED Rest /\ autoOff' = autoOff /\ lists' = lists /\ todo' = todo
      /\ snap' = snap /\ job' = job /\ copied' = copied /\ disk' = disk /\ gen' = gen
  BY Zenon DEF GiveUp, Rest, memory, replacing
<1>4. faults' \in 0..MaxFaults
  BY FaultType DEF GiveUp
<1>5. Agrees(snap.bare, snap.inventory)'
  BY <1>3, Kept DEF Agrees
<1>6. QED
  BY <1>1, <1>2, <1>3, <1>4, <1>5, Kept, QuietMove

LEMMA CopyForCacheKeeps == ASSUME RegInv, NEW p \in Procs, CopyForCache(p) PROVE RegInv'
<1>1. /\ UNCHANGED Rest /\ autoOff' = autoOff /\ lists' = lists /\ todo' = todo
      /\ snap' = snap /\ job' = job /\ disk' = disk /\ gen' = gen /\ faults' = faults
  BY Zenon DEF CopyForCache, Rest, memory, replacing
<1>2. PICK there \in {"idle", "write", "rewrite"} : Goto(p, there)
  BY Zenon DEF CopyForCache
<1>3. there \in Resting
  BY DEF Resting, States, Holding, Registering, Sweeping
<1>4. IdsOf(inventory) \in Caches
  BY Kept DEF IdsOf, Caches, Invs, Shelf
<1>5. copied' \in [Procs -> Caches]
  <2>1. copied' = copied \/ copied' = [copied EXCEPT ![p] = IdsOf(inventory)]
    BY DEF CopyForCache
  <2>2. QED
    BY <2>1, <1>4, Kept
<1>6. Agrees(snap.bare, snap.inventory)'
  BY <1>1, Kept DEF Agrees
<1>7. QED
  BY <1>1, <1>2, <1>3, <1>5, <1>6, Kept, QuietMove

LEMMA WriteCacheKeeps == ASSUME RegInv, NEW p \in Procs, WriteCache(p) PROVE RegInv'
<1>1. /\ UNCHANGED Rest /\ autoOff' = autoOff /\ lists' = lists /\ todo' = todo
      /\ snap' = snap /\ job' = job /\ gen' = gen
  BY Zenon DEF WriteCache, Rest, memory, replacing
<1>2. Goto(p, AfterSave(p)) /\ AfterSave(p) \in Resting
  BY Returns DEF WriteCache
<1>3. copied[p] \in Caches /\ IdsOf(NoModels) \in Caches
  BY Kept, EmptyTypes DEF IdsOf, Caches
<1>4. copied' \in [Procs -> Caches]
  BY <1>3, Kept DEF WriteCache
<1>5. disk' \in Caches \cup {None}
  BY <1>3, Kept DEF WriteCache
<1>6. faults' \in 0..MaxFaults
  BY FaultType, Kept DEF WriteCache
<1>7. Agrees(snap.bare, snap.inventory)'
  BY <1>1, Kept DEF Agrees
<1> DEFINE there == AfterSave(p)
<1>8. there \in Resting /\ Goto(p, there)
  BY <1>2
<1> HIDE DEF there
<1>9. QED
  BY <1>1, <1>4, <1>5, <1>6, <1>7, <1>8, Kept, QuietMove

\* The semaphore goes back: its holder was the only one that swept.
LEMMA ReturnKeeps ==
  ASSUME RegInv, NEW p \in Procs, pc[p] \in Holding,
         NEW there \in Resting, Goto(p, there), sem' = None
  PROVE /\ pc' \in Pcs /\ sem' \in Procs \cup {None}
        /\ OneSweep' /\ FetchedBound' /\ SettledSweep'
        /\ pc'["admin"] \in Registering =>
             pc'["admin"] = pc["admin"] /\ p # "admin"
<1>1. pc' \in Pcs /\ pc'[p] = there /\ \A q \in Procs \ {p} : pc'[q] = pc[q]
  BY GotoPc DEF RegInv, Resting
<1>2. sem = p
  BY HoldsSem
<1>3. \A q \in Procs : pc'[q] \notin Holding
  BY <1>1, <1>2 DEF RegInv, Order, OneSweep, Resting
<1>4. sem' \in Procs \cup {None}
  OBVIOUS
<1>5. OneSweep' /\ FetchedBound' /\ SettledSweep'
  BY <1>3 DEF OneSweep, FetchedBound, SettledSweep, Holding, Sweeping
<1>6. pc'["admin"] \in Registering => pc'["admin"] = pc["admin"] /\ p # "admin"
  BY <1>1 DEF Resting, Procs
<1>7. QED
  BY <1>1, <1>4, <1>5, <1>6

LEMMA ApplyKeeps == ASSUME RegInv, NEW p \in Procs, Apply(p) PROVE RegInv'
<1> DEFINE there == OnOk(p)
<1> DEFINE w == sweep[p]
<1>1. /\ there \in Resting /\ Goto(p, there) /\ pc[p] = "apply"
      /\ sem' = None /\ sweep' = [sweep EXCEPT ![p] = NoSweep]
  BY Returns DEF Apply, Return
<1> HIDE DEF there
<1>2. /\ pc' \in Pcs /\ sem' \in Procs \cup {None}
      /\ OneSweep' /\ FetchedBound' /\ SettledSweep'
      /\ pc'["admin"] \in Registering =>
           pc'["admin"] = pc["admin"] /\ p # "admin"
  BY <1>1, ReturnKeeps DEF Holding, Sweeping
<1>3. /\ registered' = registered /\ autoOff' = autoOff /\ lists' = lists /\ todo' = todo
      /\ copied' = copied /\ disk' = disk /\ gen' = gen /\ faults' = faults
  BY Zenon DEF Apply
<1>4. inventory' = w.out /\ bare' = BareOf(w.out) /\ w.out \in Invs
  BY Kept DEF Apply, Sweeps
<1>5. inventory' \in Invs /\ bare' \in Bares /\ Agrees(bare, inventory)'
  <2>1. BareOf(w.out) \in Bares /\ Agrees(BareOf(w.out), w.out)
    BY <1>4, BareOfAgrees
  <2>2. QED
    BY <1>4, <2>1 DEF Agrees
<1>6. /\ settled' = (settled \/ w.copy = registered) /\ settled' \in BOOLEAN
      /\ sweep' \in [Procs -> Sweeps]
  <2>1. settled' = (settled \/ w.copy = registered)
    BY Zenon DEF Apply
  <2>2. sweep' \in [Procs -> Sweeps]
    BY <1>1, Kept, EmptyTypes
  <2>3. QED
    BY <2>1, <2>2, Zenon
<1>7. job' \in Jobs
  BY Returns, Kept DEF Apply, Jobs
<1>8. snap' \in Snaps /\ Agrees(snap.bare, snap.inventory)'
  <2>1. snap' = NoSnapshot \/ snap' = snap
    BY DEF Apply
  <2>2. QED
    BY <2>1, Kept, EmptyTypes DEF Agrees
<1>9. Types'
  BY <1>2, <1>3, <1>5, <1>6, <1>7, <1>8, Kept, Zenon DEF Types
<1>10. Unregistered'
  BY <1>2, <1>3 DEF RegInv, Order, Unregistered, Registering
\* Whether the history was settled before or is now, what this sweep has
\* fetched is bound to the instances that are registered.
<1>11. ASSUME settled', NEW n \in Names, w.out[n].ids # {}
       PROVE w.out[n].gen = registered[n] /\ registered[n] # 0
  <2>1. w.out[n].gen = w.copy[n] /\ w.copy[n] # 0
    BY <1>1, <1>11 DEF RegInv, Order, FetchedBound
  <2>2. CASE settled
    BY <1>1, <2>1, <2>2, CopyStays DEF Sweeping
  <2>3. CASE w.copy = registered
    BY <2>1, <2>3
  <2>4. QED
    BY <1>6, <1>11, <2>2, <2>3
<1>12. BoundSettled'
  BY <1>3, <1>4, <1>11 DEF BoundSettled
<1>13. SettledEarly'
  <2>1. PICK n \in Names : w.out[n].ids # {}
    BY DEF Apply, Listed
  <2>2. QED
    BY <2>1, <1>3, <1>11 DEF SettledEarly
<1>14. Maps'
  BY <1>5, <1>8 DEF Maps
<1>15. QED
  BY <1>2, <1>9, <1>10, <1>12, <1>13, <1>14 DEF RegInv, Order

\* The semaphore goes back and nothing that is modelled has changed.
LEMMA GivenBack ==
  ASSUME RegInv, NEW p \in Procs, pc[p] \in Holding,
         NEW there \in Resting, Goto(p, there), sem' = None, sweep' \in [Procs -> Sweeps],
         UNCHANGED <<memory, replacing, copied, disk, gen, faults, settled>>
  PROVE RegInv'
<1>1. /\ pc' \in Pcs /\ sem' \in Procs \cup {None}
      /\ OneSweep' /\ FetchedBound' /\ SettledSweep'
      /\ pc'["admin"] \in Registering =>
           pc'["admin"] = pc["admin"] /\ p # "admin"
  BY ReturnKeeps
<1>2. /\ registered' = registered /\ inventory' = inventory /\ bare' = bare
      /\ autoOff' = autoOff /\ lists' = lists /\ job' = job /\ todo' = todo /\ snap' = snap
      /\ copied' = copied /\ disk' = disk /\ gen' = gen /\ faults' = faults
      /\ settled' = settled
  BY Zenon DEF memory, replacing
<1>3. Types'
  BY <1>1, <1>2, Zenon DEF RegInv, Types
<1>4. Unregistered' /\ SettledEarly'
  BY <1>1, <1>2 DEF RegInv, Order, Unregistered, SettledEarly, Registering
<1>5. Maps' /\ BoundSettled'
  BY <1>2 DEF RegInv, Maps, Agrees, BoundSettled
<1>6. QED
  BY <1>1, <1>3, <1>4, <1>5 DEF RegInv, Order

LEMMA NothingFetchedKeeps == ASSUME RegInv, NEW p \in Procs, NothingFetched(p) PROVE RegInv'
<1>1. PICK there \in OnError(p) : Return(p, there)
  BY DEF NothingFetched
<1>2. /\ there \in Resting /\ pc[p] \in Holding /\ Goto(p, there) /\ sem' = None
      /\ sweep' = [sweep EXCEPT ![p] = NoSweep]
  BY <1>1, Returns DEF NothingFetched, Return, Holding, Sweeping
<1>3. sweep' \in [Procs -> Sweeps]
  BY <1>2, Kept, EmptyTypes
<1>4. UNCHANGED <<memory, replacing, copied, disk, gen, faults, settled>>
  BY Zenon DEF NothingFetched
<1>5. QED
  BY <1>2, <1>3, <1>4, GivenBack

LEMMA EnrichKeeps == ASSUME RegInv, NEW p \in Procs, Enrich(p) PROVE RegInv'
<1>1. PICK there \in AfterList(p) \cup {"resave"} : Goto(p, there)
  BY DEF Enrich
<1>2. there \in Resting /\ pc[p] \in Holding /\ sem' = None /\ sweep' \in [Procs -> Sweeps]
  BY Returns, Kept DEF Enrich, Holding
<1>3. UNCHANGED <<memory, replacing, copied, disk, gen, faults, settled>>
  BY Zenon DEF Enrich
<1>4. QED
  BY <1>1, <1>2, <1>3, GivenBack

-----------------------------------------------------------------------------
(* Start, restart and the replacement *)

LEMMA LoadKeeps == ASSUME RegInv, LoadFromCache PROVE RegInv'
<1>1. /\ registered' = registered /\ autoOff' = autoOff /\ lists' = lists /\ todo' = todo
      /\ sem' = sem /\ sweep' = sweep /\ snap' = snap /\ job' = job
      /\ copied' = copied /\ disk' = disk /\ gen' = gen /\ settled' = settled
  BY Zenon DEF LoadFromCache, replacing
<1>2. pc' = [p \in Procs |-> IF p = "admin" THEN "startup" ELSE "wait"]
  BY DEF LoadFromCache
<1>3. pc' \in Pcs /\ \A p \in Procs : pc'[p] \in {"startup", "wait"}
  BY <1>2 DEF Pcs, States
<1>4. faults' \in 0..MaxFaults
  BY FaultType, Kept DEF LoadFromCache
<1> DEFINE ids(n) == IF disk[n] = {} /\ n \in lists THEN Configured[n] ELSE disk[n]
<1> DEFINE new == [n \in Names |->
                     IF registered[n] = 0 THEN Absent ELSE ShelfOf(registered[n], ids(n))]
<1>5. ASSUME disk # None
      PROVE /\ new \in Invs
            /\ \A n \in Names : new[n].ids # {} =>
                 new[n].gen = registered[n] /\ registered[n] # 0
  <2>1. ASSUME NEW n \in Names
        PROVE ids(n) \in SUBSET Models /\ registered[n] \in Gens
    BY <1>5, Kept, ConstantTypes DEF Caches, Regs
  <2>2. Absent \in Shelf /\ Absent.ids = {}
    BY ConstantTypes DEF Absent, Shelf
  <2> HIDE DEF ids
  <2>3. ASSUME NEW n \in Names
        PROVE new[n] \in Shelf
              /\ (new[n].ids # {} => new[n].gen = registered[n] /\ registered[n] # 0)
    BY <2>1, <2>2, ShelfOfType
  <2>4. QED
    BY <2>3 DEF Invs
<1>6. ASSUME disk # None, inventory' = new, bare' = BareOf(new)
      PROVE inventory' \in Invs /\ bare' \in Bares /\ Agrees(bare, inventory)' /\ BoundSettled'
  <2> HIDE DEF new
  <2>1. Agrees(BareOf(new), new) /\ BareOf(new) \in Bares
    BY <1>5, <1>6, BareOfAgrees
  <2>2. inventory' \in Invs /\ bare' \in Bares /\ Agrees(bare, inventory)'
    BY <1>5, <1>6, <2>1 DEF Agrees
  <2>3. BoundSettled'
    BY <1>1, <1>5, <1>6 DEF BoundSettled
  <2>4. QED
    BY <2>2, <2>3
<1>7. ASSUME inventory' = inventory, bare' = bare
      PROVE inventory' \in Invs /\ bare' \in Bares /\ Agrees(bare, inventory)' /\ BoundSettled'
  BY <1>1, <1>7, Kept DEF RegInv, Maps, Agrees, BoundSettled
<1>8. inventory' \in Invs /\ bare' \in Bares /\ Agrees(bare, inventory)' /\ BoundSettled'
  <2>1. \/ disk # None /\ inventory' = new /\ bare' = BareOf(new)
        \/ inventory' = inventory /\ bare' = bare
    BY Zenon DEF LoadFromCache, Load
  <2> HIDE DEF new
  <2>2. QED
    BY <2>1, <1>6, <1>7
<1>9. Types'
  BY <1>1, <1>3, <1>4, <1>8, Zenon DEF RegInv, Types
<1>10. Order' /\ SettledSweep' /\ SettledEarly'
  BY <1>3 DEF Order, OneSweep, FetchedBound, Unregistered, SettledSweep, SettledEarly, Holding,
     Registering, Sweeping, Procs
<1>11. Maps'
  BY <1>1, <1>8, Kept DEF Maps, Agrees
<1>12. QED
  BY <1>8, <1>9, <1>10, <1>11 DEF RegInv

LEMMA RestartKeeps == ASSUME RegInv, Restart PROVE RegInv'
<1>1. gen' \in Gens \ {0}
  BY Kept, ConstantTypes DEF Restart, Gens
<1>2. /\ registered' \in Regs /\ inventory' = NoModels /\ bare' = Unowned
      /\ lists' \in SUBSET Names /\ autoOff' \in SUBSET Names
  <2> DEFINE g == gen'
  <2>1. g \in Gens
    BY <1>1
  <2>2. /\ registered' = Fresh(g).registered /\ inventory' = Fresh(g).inventory
        /\ bare' = Fresh(g).bare /\ lists' = Fresh(g).lists /\ autoOff' = Fresh(g).autoOff
    BY Zenon DEF Restart
  <2> HIDE DEF g
  <2>3. QED
    BY <2>1, <2>2, FreshTypes
<1>3. /\ sem' = None /\ sweep' = NoSweeps
      /\ pc' = [p \in Procs |-> IF p = "admin" THEN "load" ELSE "done"]
      /\ job' = "startup" /\ todo' = {} /\ snap' = NoSnapshot
      /\ copied' = [p \in Procs |-> IdsOf(NoModels)]
      /\ disk' = disk /\ faults' = faults
  BY Zenon DEF Restart
<1>4. settled' = TRUE
  BY Zenon DEF Restart
<1>5. disk' \in Caches \cup {None} /\ faults' \in 0..MaxFaults
  BY <1>3, Kept
<1>6. IdsOf(NoModels) \in Caches
  BY EmptyTypes DEF IdsOf, Caches
<1>7. pc' \in Pcs /\ \A p \in Procs : pc'[p] \in {"load", "done"}
  BY <1>3, StartPcs
<1>8. copied' \in [Procs -> Caches]
  BY <1>3, <1>6
<1>9. job' \in Jobs /\ sem' \in Procs \cup {None} /\ settled' \in BOOLEAN
  BY <1>3, <1>4, Zenon DEF Jobs
<1>10. Types'
  BY <1>1, <1>2, <1>3, <1>5, <1>7, <1>8, <1>9, EmptyTypes, ConstantTypes DEF Types
<1>11. Order'
  BY <1>7 DEF Order, OneSweep, FetchedBound, Unregistered, Holding, Sweeping, Procs
<1>12. Maps'
  BY <1>2, <1>3, EmptyTypes DEF Maps, Agrees
<1>13. BoundSettled' /\ SettledSweep' /\ SettledEarly'
  BY <1>2, <1>7, EmptyTypes DEF BoundSettled, SettledSweep, SettledEarly, Registering, Sweeping,
     Procs
<1>14. QED
  BY <1>10, <1>11, <1>12, <1>13 DEF RegInv

LEMMA RebuildKeeps == ASSUME RegInv, NEW W \in SUBSET Names, Rebuild(W) PROVE RegInv'
<1>1. /\ UNCHANGED Rest /\ lists' = lists /\ snap' = snap /\ copied' = copied
      /\ disk' = disk /\ gen' = gen /\ faults' = faults /\ todo' = W
      /\ Goto("admin", "capture")
  BY Zenon DEF Rebuild, Rest
<1>2. autoOff' \in SUBSET Names
  BY Kept, ConstantTypes DEF Rebuild
<1>3. job' \in Jobs
  BY Kept DEF Rebuild, Jobs
<1>4. "capture" \in Resting /\ "admin" \in Procs
  BY DEF Resting, States, Holding, Registering, Sweeping, Procs
<1>5. Agrees(snap.bare, snap.inventory)'
  BY <1>1, Kept DEF Agrees
<1>6. QED
  BY <1>1, <1>2, <1>3, <1>4, <1>5, Kept, QuietMove

LEMMA CaptureKeeps == ASSUME RegInv, CaptureSnapshot PROVE RegInv'
<1>1. /\ UNCHANGED Rest /\ autoOff' = autoOff /\ lists' = lists /\ copied' = copied
      /\ disk' = disk /\ gen' = gen /\ faults' = faults /\ todo' = todo /\ job' = job
      /\ Goto("admin", "reset")
  BY Zenon DEF CaptureSnapshot, Rest, memory
<1>2. snap' = [registered |-> registered, inventory |-> inventory, bare |-> bare]
  BY DEF CaptureSnapshot
<1>3. snap' \in Snaps
  BY <1>2, Kept DEF Snaps
<1>4. Agrees(snap.bare, snap.inventory)'
  <2>1. snap'.bare = bare /\ snap'.inventory = inventory
    BY <1>2
  <2>2. QED
    BY <2>1 DEF RegInv, Maps, Agrees
<1>5. "reset" \in Resting /\ "admin" \in Procs
  BY DEF Resting, States, Holding, Registering, Sweeping, Procs
<1>6. QED
  BY <1>1, <1>3, <1>4, <1>5, Kept, QuietMove

LEMMA AllRegisteredKeeps == ASSUME RegInv, AllRegistered PROVE RegInv'
<1>1. /\ UNCHANGED Rest /\ autoOff' = autoOff /\ lists' = lists /\ copied' = copied
      /\ disk' = disk /\ gen' = gen /\ faults' = faults /\ todo' = todo /\ job' = job
      /\ snap' = snap /\ Goto("admin", "wait")
  BY Zenon DEF AllRegistered, Rest, memory, replacing
<1>2. Agrees(snap.bare, snap.inventory)'
  BY <1>1, Kept DEF Agrees
<1>3. "wait" \in Resting /\ "admin" \in Procs
  BY DEF Resting, States, Holding, Registering, Sweeping, Procs
<1>4. QED
  BY <1>1, <1>2, <1>3, Kept, QuietMove

LEMMA ResetKeeps == ASSUME RegInv, Reset PROVE RegInv'
<1>1. /\ UNCHANGED <<sem, sweep, copied, disk>> /\ job' = job /\ todo' = todo
      /\ snap' = snap /\ faults' = faults /\ Goto("admin", "register")
  BY Zenon DEF Reset, replacing
<1>2. gen' \in Gens \ {0}
  BY Kept, ConstantTypes DEF Reset, Gens
<1>3. registered' \in Regs /\ \A n \in Names : registered'[n] = 0
  BY ConstantTypes DEF Reset, Regs
<1>4. inventory' = NoModels /\ bare' = Unowned /\ autoOff' = {} /\ lists' = {}
  BY Zenon DEF Reset
<1>5. settled' = FALSE
  BY Zenon DEF Reset
<1>6. inventory' \in Invs /\ bare' \in Bares /\ Maps'
  BY <1>1, <1>4, EmptyTypes, Kept DEF Maps, Agrees
<1>7. BoundSettled' /\ SettledEarly' /\ settled' \in BOOLEAN
  BY <1>5, Zenon DEF BoundSettled, SettledEarly
<1>8. "register" \in States \ Holding
  BY DEF States, Holding, Sweeping
<1>9. todo' \in SUBSET Names /\ \A n \in todo' : registered'[n] = 0
  BY <1>1, <1>3, Kept
<1>10. autoOff' \in SUBSET Names /\ lists' \in SUBSET Names
  BY <1>4
<1>11. job' \in Jobs /\ snap' \in Snaps /\ faults' \in 0..MaxFaults
  BY <1>1, Kept, Zenon
<1>12. QED
  BY <1>1, <1>2, <1>3, <1>5, <1>6, <1>7, <1>8, <1>9, <1>10, <1>11, AdminMove

\* A name whose instance cannot be created is skipped.
LEMMA SkipKeeps ==
  ASSUME RegInv, pc["admin"] = "register", todo # {}, Fault,
         todo' = todo \ {First(todo)}, pc' = pc,
         UNCHANGED <<memory, sem, sweep, job, snap, copied, disk, gen, settled>>
  PROVE RegInv'
<1>1. /\ registered' = registered /\ inventory' = inventory /\ bare' = bare
      /\ autoOff' = autoOff /\ lists' = lists /\ sem' = sem /\ sweep' = sweep
      /\ job' = job /\ snap' = snap /\ copied' = copied /\ disk' = disk
      /\ gen' = gen /\ settled' = settled
  BY Zenon DEF memory
<1>2. todo' \in SUBSET Names /\ todo' \subseteq todo
  BY Kept
<1>3. faults' \in 0..MaxFaults
  BY FaultType
<1>4. Types'
  BY <1>1, <1>2, <1>3, Zenon DEF RegInv, Types
<1>5. Order'
  BY <1>1, <1>2 DEF RegInv, Order, OneSweep, FetchedBound, Unregistered
<1>6. Maps' /\ BoundSettled' /\ SettledSweep' /\ SettledEarly'
  BY <1>1 DEF RegInv, Maps, Agrees, BoundSettled, SettledSweep, SettledEarly
<1>7. QED
  BY <1>4, <1>5, <1>6 DEF RegInv

LEMMA RegisterKeeps == ASSUME RegInv, Register PROVE RegInv'
<1>1. /\ pc["admin"] = "register" /\ todo # {}
      /\ UNCHANGED <<sem, sweep, copied, disk>> /\ job' = job /\ snap' = snap
      /\ gen' = gen /\ settled' = settled
      /\ inventory' = inventory /\ bare' = bare /\ autoOff' = autoOff /\ lists' = lists
  BY Zenon DEF Register
<1> DEFINE f == First(todo)
<1>2. CASE /\ registered' = [registered EXCEPT ![f] = gen]
           /\ Goto("admin", "configure") /\ todo' = todo /\ faults' = faults
  <2>1. f \in todo /\ f \in Names /\ registered \in Regs /\ gen \in Gens /\ gen # 0
    BY <1>1, Kept, FirstIn
  <2>2. \A n \in todo : registered[n] = 0
    BY <1>1 DEF RegInv, Order, Unregistered
  <2>3. Goto("admin", "configure") /\ todo' = todo /\ faults' = faults /\ f = First(todo')
    BY <1>2
  <2>4. registered' = [registered EXCEPT ![f] = gen]
    BY <1>2
  <2> HIDE DEF f
  <2>5. /\ registered' \in Regs /\ registered'[f] = gen
        /\ \A n \in Names : n # f => registered'[n] = registered[n]
    BY <2>1, <2>4 DEF Regs
  <2>6. registered[f] = 0
    BY <2>1, <2>2
  <2>7. BoundSettled'
    BY <1>1, <2>1, <2>5, <2>6 DEF RegInv, BoundSettled
  <2>8. SettledEarly'
    BY <2>1, <2>5 DEF SettledEarly
  <2>9. todo' # {} /\ \A n \in todo' \ {First(todo')} : registered'[n] = 0
    <3>1. \A n \in todo : n \in Names
      BY Kept
    <3>2. QED
      BY <3>1, <1>1, <2>2, <2>3, <2>5
  <2>10. Maps'
    BY <1>1 DEF RegInv, Maps, Agrees
  <2>11. "configure" \in States \ Holding
    BY DEF States, Holding, Sweeping
  <2>12. /\ inventory' \in Invs /\ bare' \in Bares /\ autoOff' \in SUBSET Names
         /\ lists' \in SUBSET Names /\ job' \in Jobs /\ todo' \in SUBSET Names
         /\ snap' \in Snaps /\ gen' \in Gens \ {0} /\ faults' \in 0..MaxFaults
         /\ settled' \in BOOLEAN
    BY <1>1, <2>3, Kept, Zenon
  <2>13. ASSUME settled', NEW q \in Procs, pc[q] \in Sweeping, NEW n \in Names
         PROVE sweep[q].copy[n] \in {0, registered'[n]}
    <3>1. sweep[q].copy[n] \in {0, registered[n]}
      BY <1>1, <2>13, CopyStays
    <3>2. QED
      BY <2>5, <2>6, <3>1
  <2>14. QED
    BY <1>1, <2>3, <2>5, <2>7, <2>8, <2>9, <2>10, <2>11, <2>12, <2>13, AdminMove
<1>3. CASE Fault /\ todo' = todo \ {f} /\ registered' = registered /\ pc' = pc
  <2>1. UNCHANGED <<memory, sem, sweep, job, snap, copied, disk, gen, settled>>
    BY <1>1, <1>3, Zenon DEF memory
  <2>2. QED
    BY <1>1, <1>3, <2>1, SkipKeeps
<1>4. QED
  BY <1>2, <1>3, Zenon DEF Register

LEMMA ConfigureKeeps == ASSUME RegInv, Configure PROVE RegInv'
<1> DEFINE f == First(todo)
<1>1. /\ pc["admin"] = "configure"
      /\ UNCHANGED <<sem, sweep, copied, disk>> /\ job' = job /\ snap' = snap
      /\ gen' = gen /\ settled' = settled /\ faults' = faults
      /\ registered' = registered /\ inventory' = inventory /\ bare' = bare
      /\ autoOff' = autoOff /\ Goto("admin", "switch") /\ todo' = todo
  BY Zenon DEF Configure, replacing
<1>2. todo # {} /\ \A n \in todo \ {f} : registered[n] = 0
  BY <1>1 DEF RegInv, Order, Unregistered
<1>3. f \in Names
  BY <1>2, Kept, FirstIn
<1>4. lists' \in SUBSET Names
  BY <1>3, Kept DEF Configure
<1>5. todo' # {} /\ \A n \in todo' \ {First(todo')} : registered'[n] = 0
  BY <1>1, <1>2
<1> HIDE DEF f
<1>6. Maps' /\ BoundSettled'
  BY <1>1 DEF RegInv, Maps, Agrees, BoundSettled
<1>7. SettledEarly'
  BY <1>1 DEF RegInv, SettledEarly, Registering
<1>8. "switch" \in States \ Holding
  BY DEF States, Holding, Sweeping
<1>9. /\ registered' \in Regs /\ inventory' \in Invs /\ bare' \in Bares
      /\ autoOff' \in SUBSET Names /\ todo' \in SUBSET Names
      /\ job' \in Jobs /\ snap' \in Snaps /\ gen' \in Gens \ {0}
      /\ faults' \in 0..MaxFaults /\ settled' \in BOOLEAN
  BY <1>1, Kept, Zenon
<1>10. QED
  BY <1>1, <1>4, <1>5, <1>6, <1>7, <1>8, <1>9, SweepsStay, AdminMove

LEMMA SwitchOffKeeps == ASSUME RegInv, SwitchOff PROVE RegInv'
<1> DEFINE f == First(todo)
<1>1. /\ pc["admin"] = "switch"
      /\ UNCHANGED <<sem, sweep, copied, disk>> /\ job' = job /\ snap' = snap
      /\ gen' = gen /\ settled' = settled /\ faults' = faults
      /\ registered' = registered /\ inventory' = inventory /\ bare' = bare
      /\ lists' = lists /\ Goto("admin", "register") /\ todo' = todo \ {f}
  BY Zenon DEF SwitchOff
<1>2. \A n \in todo \ {f} : registered[n] = 0
  BY <1>1 DEF RegInv, Order, Unregistered
<1>3. autoOff' \in SUBSET Names
  BY ConstantTypes, Kept DEF SwitchOff
<1> HIDE DEF f
<1>4. todo' \in SUBSET Names /\ \A n \in todo' : registered'[n] = 0
  BY <1>1, <1>2, Kept
<1>5. Maps' /\ BoundSettled'
  BY <1>1 DEF RegInv, Maps, Agrees, BoundSettled
<1>6. SettledEarly'
  BY <1>1 DEF RegInv, SettledEarly, Registering
<1>7. "register" \in States \ Holding
  BY DEF States, Holding, Sweeping
<1>8. /\ registered' \in Regs /\ inventory' \in Invs /\ bare' \in Bares
      /\ lists' \in SUBSET Names
      /\ job' \in Jobs /\ snap' \in Snaps /\ gen' \in Gens \ {0}
      /\ faults' \in 0..MaxFaults /\ settled' \in BOOLEAN
  BY <1>1, Kept, Zenon
<1>9. QED
  BY <1>1, <1>3, <1>4, <1>5, <1>6, <1>7, <1>8, SweepsStay, AdminMove

\* After a rebuild that failed the administrator's goroutine is at rest again.
LEMMA FailedGoes ==
  ASSUME RegInv, RebuildFailed
  PROVE \E there \in {"idle", "list"} : Goto("admin", there) /\ job' \in Jobs
<1>1. CASE Goto("admin", "idle") /\ job' = job
  BY <1>1, Kept
<1>2. CASE Goto("admin", "list") /\ job' = "refresh"
  BY <1>2 DEF Jobs
<1>3. QED
  BY <1>1, <1>2 DEF RebuildFailed

LEMMA RestoreSnapshotKeeps == ASSUME RegInv, RestoreSnapshot PROVE RegInv'
<1>1. /\ UNCHANGED <<sem, sweep, copied, disk>> /\ autoOff' = autoOff /\ lists' = lists
      /\ gen' = gen /\ settled' = settled /\ faults' = faults /\ todo' = todo
      /\ registered' = snap.registered /\ inventory' = snap.inventory /\ bare' = snap.bare
      /\ snap' = NoSnapshot
  BY Zenon DEF RestoreSnapshot
<1>2. PICK there \in {"idle", "list"} : Goto("admin", there) /\ job' \in Jobs
  BY FailedGoes DEF RestoreSnapshot
<1>3. ~settled
  BY DEF RestoreSnapshot, RegInv, SettledEarly, Registering
<1>4. BoundSettled' /\ SettledEarly'
  BY <1>1, <1>3 DEF BoundSettled, SettledEarly
<1>5. registered' \in Regs /\ inventory' \in Invs /\ bare' \in Bares
  BY <1>1, Kept DEF Snaps
<1>6. Maps' /\ snap' \in Snaps
  BY <1>1, Kept, EmptyTypes DEF Maps, Agrees
<1>7. there \in States \ Holding /\ there \notin Registering
  BY DEF States, Holding, Registering, Sweeping
<1>8. /\ autoOff' \in SUBSET Names /\ lists' \in SUBSET Names /\ todo' \in SUBSET Names
      /\ gen' \in Gens \ {0} /\ faults' \in 0..MaxFaults /\ settled' \in BOOLEAN
  BY <1>1, Kept, Zenon
<1>9. QED
  BY <1>1, <1>2, <1>3, <1>4, <1>5, <1>6, <1>7, <1>8, AdminMove DEF Registering

\* What was listed before the reset, bound to the instances registered now.
LEMMA ReboundKeeps ==
  ASSUME RegInv
  PROVE /\ [n \in Names |-> Rebound(n)] \in Invs
        /\ [m \in Models |-> ReboundOwner(m)] \in Bares
        /\ Agrees([m \in Models |-> ReboundOwner(m)], [n \in Names |-> Rebound(n)])
        /\ \A n \in Names : Rebound(n).ids # {} =>
             Rebound(n).gen = registered[n] /\ registered[n] # 0
<1>1. \A n \in Names : registered[n] \in Gens /\ snap.inventory[n].ids \in SUBSET Models
  BY Kept DEF Regs, Snaps, Invs, Shelf
<1>2. Absent \in Shelf /\ Absent.ids = {}
  BY ConstantTypes DEF Absent, Shelf
<1>3. ASSUME NEW n \in Names
      PROVE /\ Rebound(n) \in Shelf
            /\ Rebound(n).ids # {} => Rebound(n).gen = registered[n] /\ registered[n] # 0
            /\ registered[n] # 0 => Rebound(n).ids = snap.inventory[n].ids
  <2>1. CASE registered[n] = 0
    BY <1>2, <2>1 DEF Rebound
  <2>2. CASE registered[n] # 0
    BY <1>1, <2>2, ShelfOfType DEF Rebound
  <2>3. QED
    BY <2>1, <2>2
<1>4. ASSUME NEW m \in Models, ReboundOwner(m) # None
      PROVE /\ snap.bare[m].name \in Names /\ registered[snap.bare[m].name] # 0
            /\ ReboundOwner(m) =
                 [name |-> snap.bare[m].name, gen |-> registered[snap.bare[m].name]]
            /\ m \in snap.inventory[snap.bare[m].name].ids
  <2>1. snap.bare[m] # None
    BY <1>4 DEF ReboundOwner
  <2>2. snap.bare[m] \in Owner
    BY <2>1, Kept DEF Snaps, Bares
  <2>3. snap.bare[m].name \in Names
    BY <2>2 DEF Owner
  <2>4. m \in snap.inventory[snap.bare[m].name].ids
    BY <2>1, Kept DEF Agrees
  <2>5. QED
    BY <1>4, <2>1, <2>3, <2>4 DEF ReboundOwner
<1>5. [n \in Names |-> Rebound(n)] \in Invs
  BY <1>3 DEF Invs
<1>6. [m \in Models |-> ReboundOwner(m)] \in Bares
  <2>1. ASSUME NEW m \in Models PROVE ReboundOwner(m) \in Owner \cup {None}
    BY <1>1, <1>4 DEF Owner
  <2>2. QED
    BY <2>1 DEF Bares
<1>7. Agrees([m \in Models |-> ReboundOwner(m)], [n \in Names |-> Rebound(n)])
  <2> SUFFICES ASSUME NEW m \in Models, ReboundOwner(m) # None
               PROVE /\ m \in Rebound(snap.bare[m].name).ids
                     /\ Rebound(snap.bare[m].name).gen = ReboundOwner(m).gen
                     /\ ReboundOwner(m).name \in Names
                     /\ ReboundOwner(m).name = snap.bare[m].name
    BY DEF Agrees
  <2> DEFINE k == snap.bare[m].name
  <2>1. /\ k \in Names /\ registered[k] # 0 /\ m \in snap.inventory[k].ids
        /\ ReboundOwner(m).name = k /\ ReboundOwner(m).gen = registered[k]
    BY <1>4
  <2> HIDE DEF k
  <2>2. m \in Rebound(k).ids /\ Rebound(k).gen = registered[k]
    BY <1>3, <2>1
  <2>3. QED
    BY <2>1, <2>2 DEF k
<1>8. QED
  BY <1>3, <1>5, <1>6, <1>7

LEMMA RestoreModelsKeeps == ASSUME RegInv, RestoreModels PROVE RegInv'
<1>1. /\ UNCHANGED <<sem, sweep, copied, disk>> /\ autoOff' = autoOff /\ lists' = lists
      /\ gen' = gen /\ settled' = settled /\ faults' = faults /\ todo' = todo
      /\ registered' = registered /\ snap' = NoSnapshot
  BY Zenon DEF RestoreModels
<1>2. PICK there \in {"idle", "list"} : Goto("admin", there) /\ job' \in Jobs
  BY FailedGoes DEF RestoreModels
<1> DEFINE inv == [n \in Names |-> Rebound(n)]
<1> DEFINE own == [m \in Models |-> ReboundOwner(m)]
<1>3. /\ inv \in Invs /\ own \in Bares /\ Agrees(own, inv)
      /\ \A n \in Names : inv[n].ids # {} => inv[n].gen = registered[n] /\ registered[n] # 0
  BY ReboundKeeps
<1>4. \/ inventory' = inventory /\ bare' = bare
      \/ inventory' = inv /\ bare' = own
  <2>1. CASE snap.inventory = NoModels /\ snap.bare = Unowned
    <3>1. UNCHANGED <<inventory, bare>>
      BY <2>1, SMT DEF RestoreModels
    <3>2. QED
      BY <3>1, Zenon
  <2>2. CASE ~(snap.inventory = NoModels /\ snap.bare = Unowned)
    BY <2>2, Zenon DEF RestoreModels
  <2>3. QED
    BY <2>1, <2>2
<1> HIDE DEF inv, own
<1>5. inventory' \in Invs /\ bare' \in Bares /\ Agrees(bare, inventory)' /\ BoundSettled'
  <2>1. ASSUME inventory' = inventory, bare' = bare
        PROVE inventory' \in Invs /\ bare' \in Bares /\ Agrees(bare, inventory)' /\ BoundSettled'
    BY <1>1, <2>1, Kept DEF RegInv, Maps, Agrees, BoundSettled
  <2>2. ASSUME inventory' = inv, bare' = own
        PROVE inventory' \in Invs /\ bare' \in Bares /\ Agrees(bare, inventory)' /\ BoundSettled'
    BY <1>1, <1>3, <2>2 DEF Agrees, BoundSettled
  <2>3. QED
    BY <1>4, <2>1, <2>2
<1>6. Maps' /\ snap' \in Snaps
  BY <1>1, <1>5, EmptyTypes DEF Maps, Agrees
<1>7. there \in States \ Holding /\ there \notin Registering
  BY DEF States, Holding, Registering, Sweeping
<1>8. SettledEarly'
  <2>1. pc'["admin"] = there
    BY <1>2, Kept DEF Goto, Pcs, Procs
  <2>2. QED
    BY <1>7, <2>1 DEF SettledEarly
<1>9. /\ registered' \in Regs /\ autoOff' \in SUBSET Names /\ lists' \in SUBSET Names
      /\ todo' \in SUBSET Names /\ gen' \in Gens \ {0} /\ faults' \in 0..MaxFaults
      /\ settled' \in BOOLEAN
  BY <1>1, Kept, Zenon
<1>10. QED
  BY <1>1, <1>2, <1>5, <1>6, <1>7, <1>8, <1>9, SweepsStay, AdminMove DEF Registering

LEMMA RegInvStep == RegInv /\ [Next]_vars => RegInv'
<1> SUFFICES ASSUME RegInv, [Next]_vars PROVE RegInv'
  OBVIOUS
<1>1. ASSUME NEW p \in Procs, Refresh(p) PROVE RegInv'
  BY <1>1, AcquireKeeps, GiveUpKeeps, CopyListsKeeps, CopySwitchesKeeps, FetchAllKeeps,
     ApplyKeeps, NothingFetchedKeeps, CopyForCacheKeeps, WriteCacheKeeps, SkipListKeeps,
     AcquireForListKeeps, EnrichKeeps DEF Refresh
<1>2. CASE Replace
  BY <1>2, CaptureKeeps, ResetKeeps, RegisterKeeps, ConfigureKeeps, SwitchOffKeeps,
     AllRegisteredKeeps, RestoreSnapshotKeeps, RestoreModelsKeeps DEF Replace
<1>3. ASSUME NEW W \in SUBSET Names, Rebuild(W) PROVE RegInv'
  BY <1>3, RebuildKeeps
<1>4. CASE LoadFromCache \/ Restart
  BY <1>4, LoadKeeps, RestartKeeps
<1>5. CASE UNCHANGED vars
  <2>1. /\ registered' = registered /\ inventory' = inventory /\ bare' = bare
        /\ autoOff' = autoOff /\ lists' = lists /\ sem' = sem /\ sweep' = sweep
        /\ pc' = pc /\ job' = job /\ todo' = todo /\ snap' = snap /\ copied' = copied
        /\ disk' = disk /\ gen' = gen /\ faults' = faults /\ settled' = settled
    BY <1>5, Zenon DEF vars, memory, replacing
  <2>2. Types'
    BY <2>1, Zenon DEF RegInv, Types
  <2>3. Order'
    BY <2>1 DEF RegInv, Order, OneSweep, FetchedBound, Unregistered
  <2>4. Maps' /\ BoundSettled' /\ SettledSweep' /\ SettledEarly'
    BY <2>1 DEF RegInv, Maps, Agrees, BoundSettled, SettledSweep, SettledEarly
  <2>5. QED
    BY <2>2, <2>3, <2>4 DEF RegInv
<1>6. QED
  BY <1>1, <1>2, <1>3, <1>4, <1>5 DEF Next

-----------------------------------------------------------------------------
\* The invariant the theorems below are read off: the order of the sweep and
\* of the replacement is what makes the maps' properties inductive.
THEOREM RegistryInvariant == RegistrySpec => []RegInv
BY RegInvInit, RegInvStep, PTL DEF RegistrySpec

\* The registry and its goroutines keep their shape, whatever refreshes,
\* rebuilds and restarts interleave (registry.go:26).
THEOREM RegistryTypeCorrect == RegistrySpec => []TypeOK
<1>1. RegInv => TypeOK
  BY TypesAreType DEF RegInv
<1>2. QED
  BY <1>1, RegistryInvariant, PTL

\* Once a sweep over the registered instances has landed, and until the next
\* reset, no model is listed under an instance that a rebuild has thrown away:
\* for any number of providers, whatever sweeps land after it and whenever they
\* began (registry_init.go:62).
THEOREM RegistrySettledBound == RegistrySpec => []SettledBound
<1>1. RegInv => SettledBound
  BY DEF RegInv, BoundSettled, SettledBound, Bound, Listed
<1>2. QED
  BY <1>1, RegistryInvariant, PTL

\* An unqualified id that has an owner leads to a provider that lists it, and to
\* the instance that provider's own models are bound to (registry_init.go:346).
THEOREM RegistryIndexAgrees == RegistrySpec => []IndexAgrees
<1>1. RegInv => IndexAgrees
  BY DEF RegInv, Maps, Agrees, IndexAgrees
<1>2. QED
  BY <1>1, RegistryInvariant, PTL
-----------------------------------------------------------------------------
(* A replacement keeps the gateway in service *)

\* Before the start-up rebuild the job is that rebuild; and between the capture
\* of the old registry and the moment it is restored the job is a rebuild, not
\* the listing that follows one.  The second half is what a failed rebuild
\* rests on: only then does an error lead to the restore.
JobFits ==
  /\ pc["admin"] \in {"load", "startup"} => job = "startup"
  /\ pc["admin"] \in {"capture", "reset", "register", "configure", "switch", "restore"} =>
       job # "refresh"

\* What one step owes: the job fits again, and a replacement that ends in this
\* step, with service to keep, leaves something listed.
ServiceKept ==
  gen' = gen /\ Replacing /\ ~Replacing' /\ HadService => Listed(inventory') # {}
Serves == JobFits' /\ ServiceKept

\* The administrator's goroutine stands still: so does its replacement.
LEMMA OthersServe ==
  ASSUME JobFits, pc'["admin"] = pc["admin"], job' = job PROVE Serves
BY DEF Serves, ServiceKept, JobFits, Replacing

\* It moves on within the replacement, or was not in one.
LEMMA MovesServe ==
  ASSUME RegInv, JobFits, NEW there \in States, Goto("admin", there), job' = job,
         there \notin {"load", "startup"},
         there \in {"capture", "reset", "register", "configure", "switch", "restore"} =>
           job # "refresh",
         \/ ~Replacing
         \/ there \in {"register", "configure", "switch", "restore"}
         \/ job # "refresh" /\ there \in {"wait", "settings", "switches", "previous", "apply"}
  PROVE Serves
<1>1. pc'["admin"] = there
  BY GotoPc DEF RegInv, Procs
<1>2. JobFits'
  BY <1>1 DEF JobFits
<1>3. Replacing => Replacing'
  BY <1>1 DEF Replacing
<1>4. QED
  BY <1>2, <1>3 DEF Serves, ServiceKept

LEMMA RefreshServes ==
  ASSUME RegInv, JobFits, NEW p \in Procs, Refresh(p) PROVE Serves
<1>1. CASE p # "admin"
  <2>1. PICK there : Goto(p, there)
    BY Zenon DEF Refresh, Acquire, GiveUp, CopyLists, CopySwitches, FetchAll, Apply,
       NothingFetched, Return, CopyForCache, WriteCache, SkipList, AcquireForList, Enrich
  <2>2. pc'["admin"] = pc["admin"]
    BY <1>1, <2>1, Kept DEF Goto, Pcs
  <2>3. NextJob(p) = job
    BY <1>1 DEF NextJob
  <2>4. job' = job
    BY <2>3, Zenon DEF Refresh, Acquire, GiveUp, CopyLists, CopySwitches, FetchAll, Apply,
       NothingFetched, CopyForCache, WriteCache, SkipList, AcquireForList, Enrich, replacing
  <2>5. QED
    BY <2>2, <2>4, OthersServe
<1>2. CASE p = "admin"
  <2>1. CASE Apply(p)
    <3>1. Listed(inventory') # {}
      BY <2>1, Zenon DEF Apply, Listed
    <3>2. JobFits'
      <4>1. Goto("admin", OnOk("admin")) /\ OnOk("admin") \in {"idle", "list", "save"}
        BY <1>2, <2>1 DEF Apply, Return, OnOk
      <4>2. pc'["admin"] \in {"idle", "list", "save"}
        BY <4>1, Kept DEF Goto, Pcs, Procs
      <4>3. QED
        BY <4>2 DEF JobFits
    <3>3. QED
      BY <3>1, <3>2 DEF Serves, ServiceKept
  <2>2. ASSUME GiveUp(p) \/ NothingFetched(p) PROVE Serves
    <3>1. /\ job' = job /\ pc["admin"] \in {"wait", "apply"}
          /\ \E there \in OnError("admin") : Goto("admin", there)
      BY <1>2, <2>2, SMT DEF GiveUp, NothingFetched, Return, replacing
    <3>2. CASE job = "refresh"
      <4>1. PICK there \in {"save", "idle"} : Goto("admin", there)
        BY <3>1, <3>2 DEF OnError
      <4>2. ~Replacing
        BY <3>1, <3>2 DEF Replacing
      <4>3. there \in States
        BY DEF States
      <4>4. QED
        BY <3>1, <4>1, <4>2, <4>3, MovesServe
    <3>3. CASE job # "refresh"
      <4>1. Goto("admin", "restore")
        BY <3>1, <3>3 DEF OnError
      <4>2. "restore" \in States /\ job' = job
        BY <3>1 DEF States
      <4>3. QED
        BY <3>3, <4>1, <4>2, MovesServe
    <3>4. QED
      BY <3>2, <3>3
  <2>3. ASSUME Acquire(p) \/ CopyLists(p) \/ CopySwitches(p) \/ FetchAll(p) PROVE Serves
    <3>1. /\ job' = job /\ pc["admin"] \in {"wait", "settings", "switches", "previous"}
          /\ \E there \in Sweeping : Goto("admin", there)
      <4>1. /\ job' = job
            /\ \/ pc[p] = "wait" /\ Goto(p, "settings")
               \/ pc[p] = "settings" /\ Goto(p, "switches")
               \/ pc[p] = "switches" /\ Goto(p, "previous")
               \/ pc[p] = "previous" /\ Goto(p, "apply")
        BY <2>3, Zenon DEF Acquire, CopyLists, CopySwitches, FetchAll, replacing
      <4>2. QED
        BY <1>2, <4>1 DEF Sweeping
    <3>2. Sweeping \subseteq States
      BY DEF Sweeping, States
    <3>3. PICK there \in States : there \in Sweeping /\ Goto("admin", there)
      BY <3>1, <3>2
    <3>4. ~Replacing \/ job # "refresh"
      BY <3>1 DEF Replacing
    <3>5. QED
      BY <3>1, <3>3, <3>4, MovesServe DEF Sweeping
  <2>4. ASSUME CopyForCache(p) \/ WriteCache(p) PROVE Serves
    <3>1. AfterSave("admin") = "idle"
      BY DEF AfterSave
    <3>2. /\ job' = job /\ pc["admin"] \in {"save", "resave", "write", "rewrite"}
          /\ \E there \in {"idle", "write", "rewrite"} : Goto("admin", there)
      BY <1>2, <2>4, <3>1, SMT DEF CopyForCache, WriteCache, replacing
    <3>3. ~Replacing
      BY <3>2 DEF Replacing
    <3>4. {"idle", "write", "rewrite"} \subseteq States
      BY DEF States
    <3>5. QED
      BY <3>2, <3>3, <3>4, MovesServe
  <2>5. ASSUME SkipList(p) \/ AcquireForList(p) \/ Enrich(p) PROVE Serves
    <3>1. AfterList("admin") = {"wait", "idle"}
      BY DEF AfterList
    <3>2. /\ job' = job /\ pc["admin"] \in {"list", "enrich"}
          /\ \E there \in {"wait", "idle", "enrich"} : Goto("admin", there)
      BY <1>2, <2>5, <3>1, SMT DEF SkipList, AcquireForList, Enrich, replacing
    <3>3. ~Replacing
      BY <3>2 DEF Replacing
    <3>4. {"wait", "idle", "enrich"} \subseteq States
      BY DEF States
    <3>5. QED
      BY <3>2, <3>3, <3>4, MovesServe
  <2>6. QED
    BY <2>1, <2>2, <2>3, <2>4, <2>5, Zenon DEF Refresh
<1>3. QED
  BY <1>1, <1>2

\* No instance could be registered: what was captured is back as it was.
LEMMA RestoreSnapshotServes ==
  ASSUME RegInv, JobFits, RestoreSnapshot PROVE Serves
<1>1. PICK there \in {"idle", "list"} : Goto("admin", there) /\ job' \in Jobs
  BY FailedGoes DEF RestoreSnapshot
<1>2. pc'["admin"] \in {"idle", "list"}
  BY <1>1, Kept DEF Goto, Pcs, Procs
<1>3. inventory' = snap.inventory
  BY Zenon DEF RestoreSnapshot
<1>4. HadService => Listed(inventory') # {}
  BY <1>3 DEF HadService
<1>5. JobFits'
  BY <1>2 DEF JobFits
<1>6. QED
  BY <1>4, <1>5 DEF Serves, ServiceKept

\* The new instances stay and nothing could be listed: a name that is still
\* registered has its old models again.
LEMMA RestoreModelsServes ==
  ASSUME RegInv, JobFits, RestoreModels PROVE Serves
<1>1. PICK there \in {"idle", "list"} : Goto("admin", there) /\ job' \in Jobs
  BY FailedGoes DEF RestoreModels
<1>2. pc'["admin"] \in {"idle", "list"}
  BY <1>1, Kept DEF Goto, Pcs, Procs
<1>3. ASSUME NEW n \in Listed(snap.inventory), registered'[n] # 0
      PROVE n \in Listed(inventory')
  <2>1. n \in Names /\ snap.inventory[n].ids # {}
    BY DEF Listed
  <2>2. snap.inventory # NoModels
    BY <2>1, EmptyTypes
  <2>3. inventory' = [k \in Names |-> Rebound(k)] /\ registered' = registered
    BY <2>2, Zenon DEF RestoreModels
  <2>4. registered[n] \in Gens /\ registered[n] # 0 /\ snap.inventory[n].ids \in SUBSET Models
    BY <1>3, <2>1, <2>3, Kept DEF Regs, Snaps, Invs, Shelf
  <2>5. Rebound(n).ids = snap.inventory[n].ids
    BY <2>4, ShelfOfType DEF Rebound
  <2>6. QED
    BY <2>1, <2>3, <2>5 DEF Listed
<1>4. HadService => Listed(inventory') # {}
  BY <1>3 DEF HadService
<1>5. JobFits'
  BY <1>2 DEF JobFits
<1>6. QED
  BY <1>4, <1>5 DEF Serves, ServiceKept

LEMMA ReplaceServes ==
  ASSUME RegInv, JobFits, Replace PROVE Serves
<1>1. {"reset", "register", "configure", "switch", "wait"} \subseteq States
  BY DEF States
<1>2. CASE CaptureSnapshot
  <2>1. pc["admin"] = "capture" /\ Goto("admin", "reset") /\ job' = job
    BY <1>2, Zenon DEF CaptureSnapshot
  <2>2. ~Replacing /\ job # "refresh"
    BY <2>1 DEF Replacing, JobFits
  <2>3. QED
    BY <1>1, <2>1, <2>2, MovesServe
<1>3. CASE Reset
  <2>1. pc["admin"] = "reset" /\ Goto("admin", "register") /\ job' = job
    BY <1>3, Zenon DEF Reset, replacing
  <2>2. job # "refresh"
    BY <2>1 DEF JobFits
  <2>3. QED
    BY <1>1, <2>1, <2>2, MovesServe
<1>4. CASE Register
  <2>1. pc["admin"] = "register" /\ job' = job /\ (Goto("admin", "configure") \/ pc' = pc)
    BY <1>4, Zenon DEF Register
  <2>2. job # "refresh"
    BY <2>1 DEF JobFits
  <2>3. QED
    BY <1>1, <2>1, <2>2, MovesServe, OthersServe
<1>5. CASE Configure
  <2>1. pc["admin"] = "configure" /\ Goto("admin", "switch") /\ job' = job
    BY <1>5, Zenon DEF Configure, replacing
  <2>2. job # "refresh"
    BY <2>1 DEF JobFits
  <2>3. QED
    BY <1>1, <2>1, <2>2, MovesServe
<1>6. CASE SwitchOff
  <2>1. pc["admin"] = "switch" /\ Goto("admin", "register") /\ job' = job
    BY <1>6, Zenon DEF SwitchOff
  <2>2. job # "refresh"
    BY <2>1 DEF JobFits
  <2>3. QED
    BY <1>1, <2>1, <2>2, MovesServe
<1>7. CASE AllRegistered
  <2>1. pc["admin"] = "register" /\ Goto("admin", "wait") /\ job' = job
    BY <1>7, Zenon DEF AllRegistered, replacing
  <2>2. job # "refresh"
    BY <2>1 DEF JobFits
  <2>3. QED
    BY <1>1, <2>1, <2>2, MovesServe
<1>8. QED
  BY <1>2, <1>3, <1>4, <1>5, <1>6, <1>7, RestoreSnapshotServes, RestoreModelsServes, Zenon
     DEF Replace

LEMMA StepServes == RegInv /\ JobFits /\ [Next]_vars => Serves
<1> SUFFICES ASSUME RegInv, JobFits, [Next]_vars PROVE Serves
  OBVIOUS
<1>1. ASSUME NEW W \in SUBSET Names, Rebuild(W) PROVE Serves
  <2>1. /\ pc["admin"] \in {"startup", "idle"} /\ Goto("admin", "capture")
        /\ \/ pc["admin"] = "startup" /\ job' = job
           \/ job' = "rebuild"
    BY <1>1, SMT DEF Rebuild
  <2>2. ~Replacing
    BY <2>1 DEF Replacing
  <2>3. pc'["admin"] = "capture"
    BY <2>1, Kept DEF Goto, Pcs, Procs
  <2>4. job' # "refresh"
    BY <2>1 DEF JobFits
  <2>5. QED
    BY <2>2, <2>3, <2>4 DEF Serves, ServiceKept, JobFits
<1>2. CASE LoadFromCache
  <2>1. /\ pc["admin"] = "load" /\ job' = job
        /\ pc' = [p \in Procs |-> IF p = "admin" THEN "startup" ELSE "wait"]
    BY <1>2, Zenon DEF LoadFromCache, replacing
  <2>2. job = "startup" /\ ~Replacing
    BY <2>1 DEF JobFits, Replacing
  <2>3. pc'["admin"] = "startup"
    BY <2>1 DEF Procs
  <2>4. QED
    BY <2>1, <2>2, <2>3 DEF Serves, ServiceKept, JobFits
<1>3. CASE Restart
  <2>1. /\ gen' = gen + 1 /\ job' = "startup"
        /\ pc' = [p \in Procs |-> IF p = "admin" THEN "load" ELSE "done"]
    BY <1>3, Zenon DEF Restart
  <2>2. gen' # gen
    BY <2>1, Kept, ConstantTypes DEF Gens
  <2>3. pc'["admin"] = "load"
    BY <2>1 DEF Procs
  <2>4. QED
    BY <2>1, <2>2, <2>3 DEF Serves, ServiceKept, JobFits
<1>4. CASE UNCHANGED vars
  BY <1>4, OthersServe DEF vars, replacing
<1>5. QED
  BY <1>1, <1>2, <1>3, <1>4, RefreshServes, ReplaceServes, Zenon DEF Next

\* A replacement of the providers, the runtime's or the one at start-up, does
\* not take the gateway out of service: whichever way it ends, refreshed,
\* failed or timed out, some model is listed if a provider that is still
\* registered had any when it began, for any number of providers and whatever
\* sweeps land in between (registry_reconfigure.go:71).
THEOREM RegistryKeepsService == RegistrySpec => ReplacementKeepsService
<1>1. Init => JobFits
  BY DEF Init, JobFits, Procs
<1>2. RegInv /\ JobFits /\ [Next]_vars => JobFits'
  BY StepServes DEF Serves
<1>3. RegInv /\ JobFits /\ [Next]_vars =>
        [gen' = gen /\ Replacing /\ ~Replacing' /\ HadService => Listed(inventory') # {}]_vars
  BY StepServes DEF Serves, ServiceKept
<1>4. QED
  BY <1>1, <1>2, <1>3, RegistryInvariant, PTL DEF RegistrySpec, ReplacementKeepsService
=============================================================================
