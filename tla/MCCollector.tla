----------------------------- MODULE MCCollector -----------------------------
(***************************************************************************)
(* An instance of Collector for TLC: d1 and d2 are two slaves behind the   *)
(* gateway k1, d3 is alone behind k2.  d1's group takes two requests, d2   *)
(* has a second group with an address that does not parse.                 *)
(***************************************************************************)
EXTENDS Collector

CONSTANTS d1, d2, d3, k1, k2

MCEndpoint == [d \in Devices |-> IF d = d3 THEN k2 ELSE k1]
MCSlave == [d \in Devices |-> CASE d = d1 -> 1 [] d = d2 -> 2 [] d = d3 -> 3]
MCGroups == [d \in Devices |-> IF d = d2 THEN 2 ELSE 1]
MCBatches == [d \in Devices |-> IF d = d1 THEN 2 ELSE 1]
MCBad == {<<d2, 2>>}
=============================================================================
