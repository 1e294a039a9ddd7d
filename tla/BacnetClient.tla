----------------------------- MODULE BacnetClient -----------------------------
(***************************************************************************)
(* protocols/bacnet/bacnet.go: the (simulated) BACnet client's table of    *)
(* points and its aliases.  Every method holds c.lock throughout, so each  *)
(* is one step; reads change nothing and are operators.  A nil handed to   *)
(* Write for a point with a property type ends the process.                *)
(*                                                                         *)
(* Names, ids and addresses are strings of one set, Keys: a caller's key   *)
(* is tried as a name, then as an address, then as an id.  A value is      *)
(* <<kind, tag>>, where the kind is the Go kind Write compares with the    *)
(* point's property_value_type.  Of a transform we keep for which values   *)
(* it evaluates without an error.                                          *)
(***************************************************************************)
EXTENDS Naturals, Sequences, FiniteSetsExt

CONSTANTS
  Keys,
  Kinds,     \* Go kinds of values
  Any,       \* property type without a check
  ObjectID,  \* the kind of OBJECTID, which is compared without a call on the type
  Tags,      \* tells values of one kind apart
  False, FortyTwo,   \* what a point without a value reads as, by its type
  Configs,   \* config["points"] lists Init may be given
  GoNil,     \* the Go value nil
  Nil        \* no such key, point or value

Value == Kinds \X Tags
Held == Value \cup {GoNil}

\* A point as the file gives it: its property type, whether its type is "bool",
\* and the values its transform evaluates for (none when there is no transform).
\* An id that is missing is made of the device and the name; an address may be
\* missing.
Entry == [name : Keys, id : Keys, address : Keys \cup {Nil}, kind : Kinds \cup {Any},
          bool : BOOLEAN, transform : SUBSET Value, writable : BOOLEAN, init : Held]

\* A BacnetPoint in the client's table: what the file gives, and Value.
Point == [def : Entry, value : Held]

ASSUME BacnetAssumption ==
  /\ Nil \notin Keys \cup Held \cup Entry \cup Point
  /\ GoNil \notin Value /\ Any \notin Kinds /\ ObjectID \in Kinds
  /\ {False, FortyTwo} \subseteq Value
  /\ \A cfg \in Configs : cfg \in Seq(Entry)

VARIABLES
  connected,
  points,         \* [Keys -> the point of that name, or Nil]
  addressToName, idToName,
  config,         \* history: the list of the last Init
  accepted,       \* history: the last value Write accepted for a name
  panicked        \* the process has ended

vars == <<connected, points, addressToName, idToName, config, accepted, panicked>>

Empty == [k \in Keys |-> Nil]

Init ==
  /\ connected = FALSE
  /\ points = Empty /\ addressToName = Empty /\ idToName = Empty
  /\ config = <<>> /\ accepted = Empty /\ panicked = FALSE

(***************************************************************************)
(* Init                                                                    *)
(***************************************************************************)

\* The entry the loop over the list leaves under a key of the maps: a later one
\* with the same key replaces an earlier one.
LastWith(cfg, field, k) ==
  LET at == {n \in 1..Len(cfg) : cfg[n][field] = k}
  IN  IF at = {} THEN Nil ELSE cfg[Max(at)]

PointsOf(cfg) ==
  [k \in Keys |->
     LET e == LastWith(cfg, "name", k)
     IN  IF e = Nil THEN Nil
         ELSE [def |-> e, value |-> e.init]]

\* addressToName and idToName.
NamesBy(cfg, field) ==
  [k \in Keys |->
     LET e == LastWith(cfg, field, k) IN IF e = Nil THEN Nil ELSE e.name]

\* Mutant of InitClient: the maps are not made anew.
InitMerges(cfg) ==
  LET Merge(old, new) == [k \in Keys |-> IF new[k] = Nil THEN old[k] ELSE new[k]] IN
  /\ connected' = TRUE
  /\ points' = Merge(points, PointsOf(cfg))
  /\ addressToName' = Merge(addressToName, NamesBy(cfg, "address"))
  /\ idToName' = Merge(idToName, NamesBy(cfg, "id"))
  /\ config' = cfg
  /\ accepted' = Empty
  /\ UNCHANGED panicked

\* Mutant of InitClient: the aliases of the last configuration stay.
InitKeepsAliases(cfg) ==
  LET Merge(old, new) == [k \in Keys |-> IF new[k] = Nil THEN old[k] ELSE new[k]] IN
  /\ connected' = TRUE
  /\ points' = PointsOf(cfg)
  /\ addressToName' = Merge(addressToName, NamesBy(cfg, "address"))
  /\ idToName' = Merge(idToName, NamesBy(cfg, "id"))
  /\ config' = cfg
  /\ accepted' = Empty
  /\ UNCHANGED panicked

InitClient(cfg) ==
  /\ connected' = TRUE
  /\ points' = PointsOf(cfg)
  /\ addressToName' = NamesBy(cfg, "address")
  /\ idToName' = NamesBy(cfg, "id")
  /\ config' = cfg
  /\ accepted' = Empty
  /\ UNCHANGED panicked

(***************************************************************************)
(* Reads and writes                                                        *)
(***************************************************************************)

\* The name a key stands for, in Write and ReadBatch alike.
Resolve(k) ==
  IF points[k] # Nil THEN k
  ELSE IF addressToName[k] # Nil THEN addressToName[k]
  ELSE idToName[k]

\* A point without a value reads as the default of its type.
Shown(pt) ==
  IF pt.value # GoNil THEN pt.value ELSE IF pt.def.bool THEN False ELSE FortyTwo

\* Read returns every point by its name, as it is.
Read(name) ==
  IF ~connected \/ points[name] = Nil THEN Nil ELSE Shown(points[name])

\* What ReadBatch makes of a value: the transform's, if there is one and it
\* evaluates, or the value itself.
Transformed(pt, v) == [of |-> v, transformed |-> v \in pt.def.transform]

\* ReadBatch of one key: Nil is the error of a closed client or quality "bad".
ReadBatch(k) ==
  IF ~connected \/ Resolve(k) = Nil THEN Nil
  ELSE Transformed(points[Resolve(k)], Shown(points[Resolve(k)]))

\* Write's comparison of the value with the property type.
TypeCheck(pt, v) == pt.def.kind = Any \/ (v # GoNil /\ v[1] = pt.def.kind)

\* reflect.TypeOf(nil) is nil, and a method call on it panics.
CheckPanics(pt, v) == v = GoNil /\ pt.def.kind \notin {Any, ObjectID}

\* Mutant of Write: the point is stored under the key the caller used.
WriteUnderAlias(k, v) ==
  /\ connected /\ Resolve(k) # Nil
  /\ points[Resolve(k)].def.writable /\ TypeCheck(points[Resolve(k)], v)
  /\ points' = [points EXCEPT ![k] = [points[Resolve(k)] EXCEPT !.value = v]]
  /\ accepted' = [accepted EXCEPT ![Resolve(k)] = v]
  /\ UNCHANGED <<connected, addressToName, idToName, config, panicked>>

\* Mutant of Write: no check of Writable.
WriteAnyway(k, v) ==
  /\ connected /\ Resolve(k) # Nil /\ TypeCheck(points[Resolve(k)], v)
  /\ points' = [points EXCEPT ![Resolve(k)].value = v]
  /\ accepted' = [accepted EXCEPT ![Resolve(k)] = v]
  /\ UNCHANGED <<connected, addressToName, idToName, config, panicked>>

\* A write that is accepted; the others return an error and change nothing, or
\* panic.
Write(k, v) ==
  /\ connected /\ Resolve(k) # Nil
  /\ points[Resolve(k)].def.writable /\ TypeCheck(points[Resolve(k)], v)
  /\ points' = [points EXCEPT ![Resolve(k)].value = v]
  /\ accepted' = [accepted EXCEPT ![Resolve(k)] = v]
  /\ UNCHANGED <<connected, addressToName, idToName, config, panicked>>

WritePanics(k, v) ==
  /\ connected /\ Resolve(k) # Nil
  /\ points[Resolve(k)].def.writable /\ CheckPanics(points[Resolve(k)], v)
  /\ panicked' = TRUE
  /\ UNCHANGED <<connected, points, addressToName, idToName, config, accepted>>

Close ==
  /\ connected' = FALSE
  /\ UNCHANGED <<points, addressToName, idToName, config, accepted, panicked>>

Reconnect ==
  /\ connected' = TRUE
  /\ UNCHANGED <<points, addressToName, idToName, config, accepted, panicked>>

Next ==
  /\ ~panicked
  /\ \/ \E cfg \in Configs : InitClient(cfg)
     \/ \E k \in Keys, v \in Held : Write(k, v) \/ WritePanics(k, v)
     \/ Close \/ Reconnect

Spec == Init /\ [][Next]_vars

(***************************************************************************)
(* Properties                                                              *)
(***************************************************************************)

\* init_value of the configuration's point of a name.
Configured(name) ==
  LET e == LastWith(config, "name", name) IN IF e = Nil THEN Nil ELSE e.init

\* What a read of a point should give: the value last accepted for it or else the
\* configuration's, or the default of its type when that is nil.
Expected(name) ==
  LET e == LastWith(config, "name", name)
      v == IF accepted[name] # Nil THEN accepted[name] ELSE e.init
  IN  IF v # GoNil THEN v ELSE IF e.bool THEN False ELSE FortyTwo

\* A write under any key of a point is what Read of the point, and ReadBatch under
\* any of its keys, give from then on, also over Close and Reconnect; ReadBatch
\* gives it through the point's own transform, once.
ReadsBack ==
  \A k \in Keys : connected /\ Resolve(k) # Nil =>
    /\ LastWith(config, "name", Resolve(k)) # Nil
    /\ Read(Resolve(k)) = Expected(Resolve(k))
    /\ ReadBatch(k) =
         [of |-> Expected(Resolve(k)),
          transformed |-> Expected(Resolve(k)) \in LastWith(config, "name", Resolve(k)).transform]

\* An alias always leads to a point that exists, so that neither ReadBatch nor
\* Write works on the zero point a missing name gives.
AliasClosed ==
  \A k \in Keys : /\ addressToName[k] # Nil => points[addressToName[k]] # Nil
                  /\ idToName[k] # Nil => points[idToName[k]] # Nil

\* A point that is not writable keeps the value of the configuration, and one
\* with a property type never takes a value of another kind.
ValuesAllowed ==
  \A k \in Keys : points[k] # Nil =>
    \/ points[k].value = Configured(k)
    \/ points[k].def.writable /\ TypeCheck(points[k], points[k].value)

\* In a list whose names, addresses and ids are all different, main.go's reads
\* by address, and reads by name and id, get the entry's own point.
Distinct ==
  \A m, n \in 1..Len(config) :
    LET keys(e) == {e.name, e.address, e.id} \ {Nil}
    IN  m # n => keys(config[m]) \cap keys(config[n]) = {}
OwnPoint ==
  Distinct => \A n \in 1..Len(config) :
    \A k \in {config[n].name, config[n].address, config[n].id} \ {Nil} :
      Resolve(k) = config[n].name

(***************************************************************************)
(* The inductive invariant: the whole table is a function of the list of   *)
(* the last Init and of the values accepted since.                         *)
(***************************************************************************)

\* The list is one Init may be given, or there was no Init yet.
ConfigInv == config \in Configs \cup {<<>>}

\* A point is the list's last entry of its name, with the value last accepted.
PointInv ==
  points = [k \in Keys |->
    IF LastWith(config, "name", k) = Nil THEN Nil
    ELSE [def |-> LastWith(config, "name", k),
          value |-> IF accepted[k] # Nil THEN accepted[k]
                    ELSE LastWith(config, "name", k).init]]

\* The aliases are those of the last entries of their address and id.
AliasInv ==
  /\ addressToName = NamesBy(config, "address")
  /\ idToName = NamesBy(config, "id")

\* A value is accepted only for a writable point of the list and of its type.
AcceptedInv ==
  /\ accepted \in [Keys -> Held \cup {Nil}]
  /\ \A k \in Keys : accepted[k] # Nil =>
       /\ points[k] # Nil /\ points[k].def.writable
       /\ TypeCheck(points[k], accepted[k])

IInv == connected \in BOOLEAN /\ ConfigInv /\ PointInv /\ AliasInv /\ AcceptedInv
=============================================================================
