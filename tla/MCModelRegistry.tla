-------------------------- MODULE MCModelRegistry --------------------------
(* Two providers that share a model; the second has a configured list and   *)
(* is a member of a pool that switches discovery off, which it does itself   *)
(* as well in the larger of the two instances.                               *)
EXTENDS ModelRegistry

CONSTANTS m1, m2

MCModels == {m1, m2}
MCCatalog == <<{m1}, {m1, m2}>>
MCConfigured == <<{}, {m2}>>
MCPoolOff == {2}
NoOwnOff == {}

\* One model that both providers list.
OneModel == {m1}
OneCatalog == <<{m1}, {m1}>>
OneConfigured == <<{}, {m1}>>
MCOwnOff == {2}
=============================================================================
