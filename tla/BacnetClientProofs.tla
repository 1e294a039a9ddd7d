-------------------------- MODULE BacnetClientProofs --------------------------
(***************************************************************************)
(* BacnetClient's safety properties, for any lists of points, of any       *)
(* length and with any clashes of names, addresses and ids.  IInv says     *)
(* that the client's table is a function of the last list and of the       *)
(* values accepted since; the lemmas show that Init and Write keep it so.  *)
(***************************************************************************)
EXTENDS BacnetClient, WellFoundedInduction, TLAPS

(***************************************************************************)
(* Facts about the operators                                               *)
(***************************************************************************)

\* A nonempty set of indices has a greatest one, so Max returns it.
LEMMA MaxFacts ==
  ASSUME NEW n \in Nat, NEW S \in SUBSET (1..n), S # {}
  PROVE  Max(S) \in S
  <1> DEFINE T == {n - x : x \in S}
             R == OpToRel(<, Nat)
  <1>1. IsWellFoundedOn(R, Nat)
    BY NatLessThanWellFounded
  <1>2. T \subseteq Nat /\ T # {}
    <2>1. T \subseteq Nat
      OBVIOUS
    <2>2. PICK x \in S : TRUE
      OBVIOUS
    <2>3. n - x \in T
      BY <2>2
    <2> QED
      BY <2>1, <2>3
  <1> HIDE DEF T, R
  <1>3. PICK t \in T : \A u \in T : <<u, t>> \notin R
    BY <1>1, <1>2, WFMin
  <1>4. \A u \in T : ~(u < t)
    BY <1>2, <1>3 DEF R, OpToRel
  <1>5. PICK x \in S : t = n - x
    BY DEF T
  <1>6. \A y \in S : ~(n - y < n - x)
    BY <1>4, <1>5 DEF T
  <1>7. \A y \in S : x >= y
    BY <1>6
  <1> QED
    BY <1>5, <1>7 DEF Max

\* LastWith returns an entry of the list with that key, and Nil only where the
\* list has none.
LEMMA LastWithFacts ==
  ASSUME NEW cfg \in Seq(Entry), NEW field, NEW k
  PROVE  /\ LastWith(cfg, field, k) # Nil =>
              \E n \in 1..Len(cfg) : /\ LastWith(cfg, field, k) = cfg[n]
                                     /\ cfg[n] \in Entry /\ cfg[n][field] = k
         /\ \A n \in 1..Len(cfg) : cfg[n][field] = k => LastWith(cfg, field, k) # Nil
  <1> DEFINE at == {n \in 1..Len(cfg) : cfg[n][field] = k}
  <1>1. Len(cfg) \in Nat /\ \A n \in 1..Len(cfg) : cfg[n] \in Entry
    OBVIOUS
  <1>2. at \in SUBSET (1..Len(cfg)) /\ (at # {} => Max(at) \in at)
    BY <1>1, MaxFacts
  <1>3. LastWith(cfg, field, k) = IF at = {} THEN Nil ELSE cfg[Max(at)]
    BY DEF LastWith
  <1>4. at # {} => cfg[Max(at)] \in Entry /\ cfg[Max(at)][field] = k /\ Max(at) \in 1..Len(cfg)
    BY <1>1, <1>2
  <1>5. Nil \notin Entry
    BY BacnetAssumption
  <1>6. \A n \in 1..Len(cfg) : cfg[n][field] = k => at # {}
    OBVIOUS
  <1> HIDE DEF at
  <1> QED
    BY <1>3, <1>4, <1>5, <1>6

\* The fields of an entry.
LEMMA EntryFields ==
  ASSUME NEW e \in Entry
  PROVE  /\ e["name"] = e.name /\ e["id"] = e.id /\ e["address"] = e.address
         /\ e.name \in Keys /\ e.id \in Keys /\ e.address \in Keys \cup {Nil}
         /\ e.kind \in Kinds \cup {Any} /\ e.init \in Held
         /\ e.writable \in BOOLEAN /\ e.bool \in BOOLEAN
  BY DEF Entry

\* The list is a sequence of entries.
LEMMA ConfigFacts ==
  ASSUME ConfigInv
  PROVE  config \in Seq(Entry)
  <1>1. <<>> \in Seq(Entry)
    OBVIOUS
  <1> QED
    BY <1>1, BacnetAssumption DEF ConfigInv

\* What LastWith finds by name is an entry of that name.
LEMMA NamedEntry ==
  ASSUME NEW cfg \in Seq(Entry), NEW k, LastWith(cfg, "name", k) # Nil
  PROVE  LastWith(cfg, "name", k) \in Entry /\ LastWith(cfg, "name", k).name = k
  BY LastWithFacts, EntryFields

\* A point made of an entry and a value is a point, and not Nil.
LEMMA PointFacts ==
  ASSUME NEW e \in Entry, NEW v \in Held
  PROVE  /\ [def |-> e, value |-> v] \in Point
         /\ [def |-> e, value |-> v] # Nil
  <1>1. [def |-> e, value |-> v] \in Point
    BY DEF Point
  <1> QED
    BY <1>1, BacnetAssumption

\* A name of the aliases is a name of the points.
LEMMA AliasFacts ==
  ASSUME NEW cfg \in Seq(Entry), NEW field \in {"name", "address", "id"}, NEW k \in Keys,
         NamesBy(cfg, field)[k] # Nil
  PROVE  /\ NamesBy(cfg, field)[k] \in Keys
         /\ LastWith(cfg, "name", NamesBy(cfg, field)[k]) # Nil
  <1>1. NamesBy(cfg, field)[k] = IF LastWith(cfg, field, k) = Nil THEN Nil
                                 ELSE LastWith(cfg, field, k).name
    BY DEF NamesBy
  <1>2. LastWith(cfg, field, k) # Nil
    BY <1>1
  <1>3. PICK n \in 1..Len(cfg) : LastWith(cfg, field, k) = cfg[n] /\ cfg[n] \in Entry
    BY <1>2, LastWithFacts
  <1>4. NamesBy(cfg, field)[k] = cfg[n].name /\ cfg[n].name \in Keys
        /\ cfg[n]["name"] = cfg[n].name
    BY <1>1, <1>2, <1>3, EntryFields
  <1> QED
    BY <1>4, LastWithFacts

(***************************************************************************)
(* What the invariant says of one key                                      *)
(***************************************************************************)

\* The point of a name, and that a point is there iff the list has the name.
LEMMA PointAt ==
  ASSUME IInv, NEW k \in Keys
  PROVE  /\ points[k] # Nil <=> LastWith(config, "name", k) # Nil
         /\ points[k] # Nil =>
              /\ points[k] \in Point
              /\ points[k].def = LastWith(config, "name", k)
              /\ points[k].value = IF accepted[k] # Nil THEN accepted[k] ELSE Configured(k)
  <1> DEFINE e == LastWith(config, "name", k)
             v == IF accepted[k] # Nil THEN accepted[k] ELSE e.init
  <1>1. points[k] = IF e = Nil THEN Nil
                    ELSE [def |-> e, value |-> v]
    BY DEF IInv, PointInv
  <1>2. ASSUME e # Nil PROVE e \in Entry /\ v \in Held /\ v = IF accepted[k] # Nil THEN accepted[k] ELSE Configured(k)
    <2>1. e \in Entry
      BY <1>2, ConfigFacts, NamedEntry DEF IInv
    <2>2. e.init \in Held /\ accepted[k] \in Held \cup {Nil}
      BY <2>1, EntryFields DEF IInv, AcceptedInv
    <2> HIDE DEF e
    <2>3. Configured(k) = e.init
      BY <1>2 DEF Configured, e
    <2> QED
      BY <2>1, <2>2, <2>3
  <1> HIDE DEF e, v
  <1>3. CASE e = Nil
    BY <1>1, <1>3 DEF e
  <1>4. CASE e # Nil
    <2>1. points[k] = [def |-> e, value |-> v]
      BY <1>1, <1>4
    <2>2. points[k] \in Point /\ points[k] # Nil
      BY <1>2, <1>4, <2>1, PointFacts
    <2>3. points[k].def = e /\ points[k].value = v
      BY <2>1
    <2> QED
      BY <1>2, <1>4, <2>2, <2>3 DEF e
  <1> QED
    BY <1>3, <1>4

\* An alias leads to a point.
LEMMA ResolveFacts ==
  ASSUME IInv, NEW k \in Keys
  PROVE  /\ addressToName[k] # Nil => addressToName[k] \in Keys /\ points[addressToName[k]] # Nil
         /\ idToName[k] # Nil => idToName[k] \in Keys /\ points[idToName[k]] # Nil
         /\ Resolve(k) # Nil => Resolve(k) \in Keys /\ points[Resolve(k)] # Nil
  <1>1. config \in Seq(Entry)
    BY ConfigFacts DEF IInv
  <1>2. /\ addressToName[k] = NamesBy(config, "address")[k]
        /\ idToName[k] = NamesBy(config, "id")[k]
    BY DEF IInv, AliasInv
  <1>3. addressToName[k] # Nil => addressToName[k] \in Keys /\ points[addressToName[k]] # Nil
    BY <1>1, <1>2, AliasFacts, PointAt
  <1>4. idToName[k] # Nil => idToName[k] \in Keys /\ points[idToName[k]] # Nil
    BY <1>1, <1>2, AliasFacts, PointAt
  <1> QED
    BY <1>3, <1>4 DEF Resolve

(***************************************************************************)
(* Every step preserves the invariant                                      *)
(***************************************************************************)

\* Init replaces the whole table.
LEMMA InitClientInv ==
  ASSUME IInv, NEW cfg \in Configs, InitClient(cfg)
  PROVE  IInv'
  <1>1. /\ connected' = TRUE /\ config' = cfg /\ accepted' = Empty
        /\ points' = PointsOf(cfg)
        /\ addressToName' = NamesBy(cfg, "address") /\ idToName' = NamesBy(cfg, "id")
    BY DEF InitClient
  <1>2. \A k \in Keys : accepted'[k] = Nil
    BY <1>1 DEF Empty
  <1>3. accepted' \in [Keys -> Held \cup {Nil}]
    BY <1>1 DEF Empty
  <1>4. PointInv'
    BY <1>1, <1>2 DEF PointInv, PointsOf
  <1>5. AliasInv'
    BY <1>1 DEF AliasInv
  <1> QED
    BY <1>1, <1>2, <1>3, <1>4, <1>5 DEF IInv, ConfigInv, AcceptedInv

\* An accepted write changes one point and the value accepted for it, together.
LEMMA WriteInv ==
  ASSUME IInv, NEW k \in Keys, NEW v \in Held, Write(k, v)
  PROVE  IInv'
  <1> DEFINE q == Resolve(k)
             L(x) == LastWith(config, "name", x)
  <1>1. /\ q # Nil /\ points[q].def.writable /\ TypeCheck(points[q], v)
        /\ points' = [points EXCEPT ![q].value = v]
        /\ accepted' = [accepted EXCEPT ![q] = v]
        /\ UNCHANGED <<connected, addressToName, idToName, config>>
    BY DEF Write
  <1>2. q \in Keys /\ points[q] # Nil
    BY <1>1, ResolveFacts
  <1> HIDE DEF q
  <1>3. /\ accepted \in [Keys -> Held \cup {Nil}] /\ DOMAIN points = Keys
        /\ points = [x \in Keys |-> points[x]]
    BY DEF IInv, AcceptedInv, PointInv
  <1>4. accepted' \in [Keys -> Held \cup {Nil}]
    BY <1>1, <1>2, <1>3
  <1>5. \A x \in Keys : accepted'[x] = IF x = q THEN v ELSE accepted[x]
    BY <1>1, <1>2, <1>3
  <1>6. \A x \in Keys : points'[x] = IF x = q THEN [points[q] EXCEPT !.value = v] ELSE points[x]
    BY <1>1, <1>2, <1>3
  <1>7. points' = [x \in Keys |-> points'[x]]
    BY <1>1, <1>3
  <1>8. v # Nil
    BY BacnetAssumption
  <1>9. /\ L(q) # Nil
        /\ points[q] = [def |-> L(q), value |-> points[q].value]
    <2>1. L(q) # Nil
      BY <1>2, PointAt
    <2>2. points[q] = [def |-> L(q),
                       value |-> IF accepted[q] # Nil THEN accepted[q] ELSE L(q).init]
      BY <1>2, <2>1 DEF IInv, PointInv
    <2> HIDE DEF L
    <2> QED
      BY <2>1, <2>2
  <1>10. [points[q] EXCEPT !.value = v]
           = [def |-> L(q), value |-> v]
    <2> HIDE DEF L
    <2> QED
      BY <1>9
  <1>11. PointInv'
    <2>1. \A x \in Keys : points'[x] =
            IF L(x) = Nil THEN Nil
            ELSE [def |-> L(x),
                  value |-> IF accepted'[x] # Nil THEN accepted'[x] ELSE L(x).init]
      <3>1. \A x \in Keys : points[x] =
              IF L(x) = Nil THEN Nil
              ELSE [def |-> L(x),
                    value |-> IF accepted[x] # Nil THEN accepted[x] ELSE L(x).init]
        BY DEF IInv, PointInv
      <3> HIDE DEF L
      <3>2. TAKE x \in Keys
      <3>3. CASE x = q
        <4>1. points'[x] = [def |-> L(q), value |-> v]
          BY <1>2, <1>6, <1>10, <3>3
        <4>2. accepted'[x] = v
          BY <1>2, <1>5, <3>3
        <4> QED
          BY <1>8, <1>9, <3>3, <4>1, <4>2
      <3>4. CASE x # q
        <4>1. points'[x] = points[x] /\ accepted'[x] = accepted[x]
          BY <1>5, <1>6, <3>4
        <4> QED
          BY <3>1, <4>1
      <3> QED
        BY <3>3, <3>4
    <2>2. config' = config
      BY <1>1
    <2> QED
      BY <1>7, <2>1, <2>2 DEF PointInv
  <1>12. ASSUME NEW x \in Keys, accepted'[x] # Nil
         PROVE  /\ points'[x] # Nil /\ points'[x].def.writable
                /\ TypeCheck(points'[x], accepted'[x])
    <2>1. CASE x = q
      <3>1. points[q] \in Point /\ points[q].def.writable /\ TypeCheck(points[q], v)
        BY <1>1, <1>2, PointAt
      <3>2. points'[x] = [points[q] EXCEPT !.value = v] /\ accepted'[x] = v
        BY <1>2, <1>5, <1>6, <2>1
      <3>3. /\ [points[q] EXCEPT !.value = v] \in Point
            /\ [points[q] EXCEPT !.value = v].def = points[q].def
        BY <3>1 DEF Point
      <3>4. points'[x] # Nil
        BY <3>2, <3>3, BacnetAssumption
      <3> QED
        BY <3>1, <3>2, <3>3, <3>4 DEF TypeCheck
    <2>2. CASE x # q
      <3>1. points'[x] = points[x] /\ accepted'[x] = accepted[x]
        BY <1>5, <1>6, <2>2
      <3>2. points[x] # Nil /\ points[x].def.writable /\ TypeCheck(points[x], accepted[x])
        BY <1>12, <3>1 DEF IInv, AcceptedInv
      <3> QED
        BY <3>1, <3>2
    <2> QED
      BY <2>1, <2>2
  <1>13. AcceptedInv'
    BY <1>4, <1>12 DEF AcceptedInv
  <1>14. ConfigInv' /\ AliasInv' /\ connected' \in BOOLEAN
    BY <1>1 DEF IInv, ConfigInv, AliasInv
  <1> QED
    BY <1>11, <1>13, <1>14 DEF IInv

\* Before Init there is no point and no alias.
LEMMA InitInv ==
  ASSUME Init
  PROVE  IInv
  <1>1. config = <<>> /\ points = Empty /\ addressToName = Empty /\ idToName = Empty
        /\ accepted = Empty /\ connected = FALSE
    BY DEF Init
  <1>2. \A field, k : LastWith(<<>>, field, k) = Nil
    <2> TAKE field, k
    <2>1. {n \in 1..Len(<<>>) : <<>>[n][field] = k} = {}
      OBVIOUS
    <2> QED
      BY <2>1 DEF LastWith
  <1>3. PointInv
    BY <1>1, <1>2 DEF PointInv, Empty
  <1>4. AliasInv
    BY <1>1, <1>2 DEF AliasInv, NamesBy, Empty
  <1>5. AcceptedInv
    BY <1>1 DEF AcceptedInv, Empty
  <1> QED
    BY <1>1, <1>3, <1>4, <1>5 DEF IInv, ConfigInv

\* Close and Reconnect only change connected, and a panic ends the process.
LEMMA OtherInv ==
  ASSUME IInv,
         Close \/ Reconnect \/ UNCHANGED vars \/ (\E k \in Keys, v \in Held : WritePanics(k, v))
  PROVE  IInv'
  <1>1. UNCHANGED <<points, addressToName, idToName, config, accepted>> /\ connected' \in BOOLEAN
    BY DEF IInv, Close, Reconnect, WritePanics, vars
  <1> QED
    BY <1>1 DEF IInv, ConfigInv, PointInv, AliasInv, AcceptedInv

\* The table is a function of the last list and of the values accepted since.
THEOREM Invariance == Spec => []IInv
  <1>1. Init => IInv
    BY InitInv
  <1>2. IInv /\ [Next]_vars => IInv'
    <2> SUFFICES ASSUME IInv, [Next]_vars PROVE IInv'
      OBVIOUS
    <2>1. CASE Next
      BY <2>1, InitClientInv, WriteInv, OtherInv DEF Next
    <2>2. CASE UNCHANGED vars
      BY <2>2, OtherInv
    <2> QED
      BY <2>1, <2>2
  <1> QED
    BY <1>1, <1>2, PTL DEF Spec

(***************************************************************************)
(* The properties                                                          *)
(***************************************************************************)

\* An alias always leads to a point (bacnet.go's addressToName and idToName),
\* whatever names, addresses and ids the list repeats or mixes up.
THEOREM AliasesLead == Spec => []AliasClosed
  <1>1. IInv => AliasClosed
    BY ResolveFacts DEF AliasClosed
  <1> QED
    BY <1>1, Invariance, PTL

\* Read gives the value Write last accepted for the point, or else the
\* configuration's or the default of its type, and ReadBatch gives the same through
\* the point's own transform (ReadBatch and Write resolve keys alike).
THEOREM ReadsReturnWrites == Spec => []ReadsBack
  <1>1. IInv => ReadsBack
    <2> SUFFICES ASSUME IInv, NEW k \in Keys, connected, Resolve(k) # Nil
                 PROVE  LET q == Resolve(k) IN
                        /\ LastWith(config, "name", q) # Nil
                        /\ Read(q) = Expected(q)
                        /\ ReadBatch(k) =
                             [of |-> Expected(q),
                              transformed |-> Expected(q) \in LastWith(config, "name", q).transform]
      BY DEF ReadsBack
    <2> DEFINE q == Resolve(k)
               e == LastWith(config, "name", q)
    <2>1. q \in Keys /\ points[q] # Nil
      BY ResolveFacts
    <2>2. /\ points[q].def = e /\ e # Nil
          /\ points[q].value = IF accepted[q] # Nil THEN accepted[q] ELSE Configured(q)
      BY <2>1, PointAt
    <2>3. Configured(q) = e.init
      BY <2>2 DEF Configured
    <2>4. Shown(points[q]) = Expected(q)
      BY <2>2, <2>3 DEF Shown, Expected
    <2>5. Read(q) = Shown(points[q])
      BY <2>1 DEF Read
    <2>6. ReadBatch(k) = [of |-> Shown(points[q]), transformed |-> Shown(points[q]) \in points[q].def.transform]
      BY DEF ReadBatch, Transformed
    <2> QED
      BY <2>2, <2>4, <2>5, <2>6
  <1> QED
    BY <1>1, Invariance, PTL

\* Write's checks hold of every value in the table (Writable, property type).
THEOREM WritesChecked == Spec => []ValuesAllowed
  <1>1. IInv => ValuesAllowed
    <2> SUFFICES ASSUME IInv, NEW k \in Keys, points[k] # Nil
                 PROVE  \/ points[k].value = Configured(k)
                        \/ points[k].def.writable /\ TypeCheck(points[k], points[k].value)
      BY DEF ValuesAllowed
    <2>1. points[k].value = IF accepted[k] # Nil THEN accepted[k] ELSE Configured(k)
      BY PointAt
    <2> QED
      BY <2>1 DEF IInv, AcceptedInv
  <1> QED
    BY <1>1, Invariance, PTL

\* In a list without repeated keys, every key of an entry leads to its own point
\* (main.go reads by address).
THEOREM KeysLeadHome == Spec => []OwnPoint
  <1>1. IInv => OwnPoint
    <2> SUFFICES ASSUME IInv, Distinct, NEW n \in 1..Len(config),
                        NEW k \in {config[n].name, config[n].address, config[n].id} \ {Nil}
                 PROVE  Resolve(k) = config[n].name
      BY DEF OwnPoint
    <2> DEFINE keys(e) == {e.name, e.address, e.id} \ {Nil}
    <2>1. config \in Seq(Entry)
      BY ConfigFacts DEF IInv
    <2>2. \A m \in 1..Len(config) : config[m] \in Entry
      BY <2>1
    <2>3. k \in Keys /\ Nil \notin Keys
      BY <2>2, EntryFields, BacnetAssumption
    <2>4. \A m \in 1..Len(config) : k \in keys(config[m]) => m = n
      <3>1. \A m \in 1..Len(config) : m # n => keys(config[m]) \cap keys(config[n]) = {}
        BY DEF Distinct
      <3>2. k \in keys(config[n])
        OBVIOUS
      <3> HIDE DEF keys
      <3> QED
        BY <3>1, <3>2
    <2>5. ASSUME NEW field \in {"name", "address", "id"}
          PROVE  /\ LastWith(config, field, k) # Nil => LastWith(config, field, k) = config[n]
                 /\ config[n][field] = k => LastWith(config, field, k) # Nil
      <3>1. ASSUME NEW m \in 1..Len(config), config[m][field] = k PROVE m = n
        <4>1. config[m][field] \in {config[m].name, config[m].address, config[m].id}
          BY <2>2, EntryFields
        <4> QED
          BY <2>3, <2>4, <3>1, <4>1
      <3> QED
        BY <2>1, <3>1, LastWithFacts
    <2>6. config[n].name \in Keys /\ config[n].name # Nil
      BY <2>2, <2>3, EntryFields
    <2>7. /\ addressToName[k] = NamesBy(config, "address")[k]
          /\ idToName[k] = NamesBy(config, "id")[k]
      BY DEF IInv, AliasInv
    <2>8. /\ addressToName[k] # Nil => addressToName[k] = config[n].name
          /\ idToName[k] # Nil => idToName[k] = config[n].name
          /\ config[n].address = k => addressToName[k] # Nil
          /\ config[n].id = k => idToName[k] # Nil
      <3>1. \A field : NamesBy(config, field)[k]
              = IF LastWith(config, field, k) = Nil THEN Nil
                ELSE LastWith(config, field, k).name
        BY <2>3 DEF NamesBy
      <3>2. config[n]["address"] = config[n].address /\ config[n]["id"] = config[n].id
        BY <2>2, EntryFields
      <3> QED
        BY <2>5, <2>6, <2>7, <3>1, <3>2
    <2>9. /\ points[k] # Nil => k = config[n].name
          /\ config[n].name = k => points[k] # Nil
      <3>1. points[k] # Nil <=> LastWith(config, "name", k) # Nil
        BY <2>3, PointAt
      <3>2. config[n]["name"] = config[n].name
        BY <2>2, EntryFields
      <3>3. LastWith(config, "name", k) # Nil => LastWith(config, "name", k).name = k
        BY <2>1, NamedEntry
      <3> QED
        BY <2>5, <3>1, <3>2, <3>3
    <2>10. k = config[n].name \/ k = config[n].address \/ k = config[n].id
      OBVIOUS
    <2> QED
      BY <2>8, <2>9, <2>10 DEF Resolve
  <1> QED
    BY <1>1, Invariance, PTL
=============================================================================
