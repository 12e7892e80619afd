------------------------------ MODULE MCEgress ------------------------------
(* The instances of Egress that TLC explores: two source addresses and an  *)
(* extension exit in the fallback tier.  A behaviour keeps to one scene:   *)
(* a worker alone under reloads, an operator's switch and an extension     *)
(* that comes and goes; two workers on a tier of two; or two workers under *)
(* whom a reload removes the source address above the fallback exit.  The  *)
(* last scene is a provider whose only exit is turned off.                 *)
EXTENDS Egress, TLC

CONSTANTS a1, a2, vpn, w1, w2

VARIABLE scene

MCTierOf == a1 :> 0 @@ a2 :> 0 @@ vpn :> 1

Both    == [core |-> {a1, a2}, disabled |-> {}]
A2Off   == [core |-> {a1, a2}, disabled |-> {a2}]
A1Only  == [core |-> {a1}, disabled |-> {}]
VpnOnly == [core |-> {}, disabled |-> {}]
AllOff  == [core |-> {}, disabled |-> {vpn}]

Reloads    == {Both, A2Off, A1Only, VpnOnly}
ExtOnlyOff == {AllOff}

Always == {{vpn}}
Comes  == {{}, {vpn}}

\* Who acts, which reloads there are, and what the extension offers.
Scenes == {
    [workers |-> {w1},     reloads |-> {A2Off, VpnOnly} \X {A2Off, VpnOnly}, exts |-> Comes],
    [workers |-> {w1, w2}, reloads |-> {<<Both, Both>>},                     exts |-> {{}}],
    [workers |-> {w1, w2}, reloads |-> {<<A1Only, VpnOnly>>},                exts |-> Always],
    [workers |-> {w1},     reloads |-> {<<AllOff, AllOff>>},                 exts |-> Always]}

Before(s) == {r[1] : r \in s.reloads}

MCInit ==
    /\ Init
    /\ scene \in {s \in Scenes : Before(s) \subseteq Confs}
    /\ conf \in Before(scene) /\ ext \in scene.exts

MCNext ==
    /\ Next
    /\ ~syncing /\ syncing' => <<conf, conf'>> \in scene.reloads
    /\ ext' \in scene.exts
    /\ \A w \in Workers \ scene.workers : req'[w] = req[w]
    /\ UNCHANGED scene

MCSpec == MCInit /\ [][MCNext]_<<vars, scene>> /\ Fairness
=============================================================================
