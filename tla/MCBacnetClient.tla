---------------------------- MODULE MCBacnetClient ----------------------------
(***************************************************************************)
(* BacnetClient for TLC: lists of one or two points, in which a name, an   *)
(* address or an id may be given twice and an address or an id may be the  *)
(* other point's name, with typed, untyped, read-only and OBJECTID points. *)
(***************************************************************************)
EXTENDS BacnetClient

CONSTANTS a, b, c, d, real, bool, one, two

MCFalse == <<bool, two>>
MCFortyTwo == <<real, two>>

MCPoints == {[kind |-> real, bool |-> FALSE, transform |-> {<<real, one>>},
              writable |-> TRUE, init |-> <<real, one>>],
             [kind |-> Any, bool |-> FALSE, transform |-> {<<real, one>>, <<real, two>>},
              writable |-> TRUE, init |-> GoNil],
             [kind |-> bool, bool |-> TRUE, transform |-> {},
              writable |-> FALSE, init |-> GoNil],
             [kind |-> ObjectID, bool |-> TRUE, transform |-> {},
              writable |-> TRUE, init |-> GoNil]}
Entries(names, ids, addresses, kinds) ==
  {[name |-> n, id |-> i, address |-> ad, kind |-> p.kind, bool |-> p.bool,
    transform |-> p.transform, writable |-> p.writable, init |-> p.init] :
    n \in names, i \in ids, ad \in addresses, p \in kinds}
First == Entries({a}, {b, d}, {c, Nil}, MCPoints)
Second == Entries({a, b}, {b, d}, {a, c}, {p \in MCPoints : p.init = GoNil /\ p.kind # ObjectID})
MCConfigs == {<<e>> : e \in First} \cup (First \X Second)
=============================================================================
