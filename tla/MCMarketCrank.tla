---- MODULE MCMarketCrank ----
(* Instances of MarketCrank for TLC. *)
EXTENDS MarketCrank, TLC

CONSTANTS alice, bob

MCTraders == {alice, bob}
MCTriggerPairs == {<<0, 2>>, <<1, 3>>}
WideTriggers == {<<0, 9>>}
LongTriggers == {<<1, 3>>}
MCOrderTriggers == {<<"long", 1>>}
NoOrderTriggers == {}
Symmetry == Permutations(MCTraders)
====
