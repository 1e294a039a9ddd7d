----------------------------- MODULE MCEdgeRules -----------------------------
(***************************************************************************)
(* An instance of EdgeRules for TLC: d1 has two function groups, with its  *)
(* point in the second, so that the rules also run without the point, and  *)
(* two cycles, so that the order of its samples shows.  Both devices start *)
(* with a window of 1 and no alarm rule; a SIGHUP gives d1 two rules over  *)
(* one point, drops d2's and gives both an alarm rule.  In one             *)
(* configuration both have the point "b.c" and different ids; in the other *)
(* the id "a" with the point "b.c" and the id "a.b" with the point "c"     *)
(* spell one key.                                                          *)
(***************************************************************************)
EXTENDS EdgeRules

CONSTANTS d1, d2

MCNamings ==
  {[x \in Devices |-> IF x = d1 THEN [id |-> <<"a">>, point |-> <<"b", "c">>] ELSE other] :
     other \in {[id |-> <<"a", "b">>, point |-> <<"c">>], [id |-> <<"e">>, point |-> <<"b", "c">>]}}
MCCycles == [d \in Devices |-> IF d = d1 THEN 2 ELSE 1]
MCPointGroup == [d \in Devices |-> IF d = d1 THEN 2 ELSE 1]
MCGroups == [d \in Devices |-> IF d = d1 THEN 2 ELSE 1]
MCWindows == [v \in Versions \cup {First} |-> [d \in Devices |->
  IF v = First THEN <<1>> ELSE IF d = d1 THEN <<2, 1>> ELSE <<>>]]
MCHasAlarm == [v \in Versions \cup {First} |-> IF v = First THEN {} ELSE Devices]
=============================================================================
