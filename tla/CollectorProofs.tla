--------------------------- MODULE CollectorProofs ---------------------------
(***************************************************************************)
(* Collector's safety properties, for any devices, endpoints, slave ids,   *)
(* groups, batches and retries.  IInv is the inductive invariant; the      *)
(* lemmas show that each action of main.go preserves it.                   *)
(***************************************************************************)
EXTENDS Collector, TLAPS

\* The slave ids behind an endpoint are slave ids, hold each device's own,
\* and are the same for the devices that share it.
LEMMA BehindFacts ==
  ASSUME NEW d \in Devices
  PROVE  /\ Slave[d] \in Behind(d)
         /\ Behind(d) \subseteq SlaveIds
         /\ Nil \notin Behind(d)
         /\ \A e \in Devices : Endpoint[e] = Endpoint[d] => Behind(e) = Behind(d)
  BY CollectorAssumption DEF Behind

\* The loop bounds are positive naturals, so every counter can start.
LEMMA BoundFacts ==
  ASSUME NEW d \in Devices
  PROVE  /\ Groups[d] \in Nat /\ 1 \in 1..Groups[d]
         /\ Batches[d] \in Nat /\ 0 < Batches[d]
         /\ MaxRetry \in Nat /\ 1 \in 1..MaxRetry
  BY CollectorAssumption

\* Where a goroutine is past "idle", its object is a device of its endpoint.
LEMMA ClientFacts ==
  ASSUME IInv, NEW d \in Devices, client[d] # Nil
  PROVE  client[d] \in Devices /\ Endpoint[client[d]] = Endpoint[d]
  BY CollectorAssumption DEF IInv, TypeOK, ObjTypeOK, PoolInv

\* The state main() starts in satisfies the invariant.
LEMMA InitIInv == Init => IInv
  <1> SUFFICES ASSUME Init PROVE IInv
    OBVIOUS
  <1> USE CollectorAssumption DEF Init
  <1>1. ObjTypeOK /\ DataTypeOK
    BY DEF ObjTypeOK, DataTypeOK
  <1>4. CountersOK
    BY BoundFacts DEF CountersOK, PCs
  <1>2. PoolInv /\ LockInv
    BY DEF PoolInv, LockInv, Started
  <1>3. SlaveInv
    BY DEF SlaveInv
  <1> QED
    BY <1>1, <1>2, <1>3, <1>4 DEF IInv, TypeOK

\* main() reuses the pooled client.
LEMMA ReuseClientInv ==
  ASSUME IInv, NEW d \in Devices, ReuseClient(d), UNCHANGED <<loopVars, report, panicked>>
  PROVE  IInv'
  <1> USE CollectorAssumption, BehindFacts, ClientFacts
      DEF ReuseClient, objVars, loopVars
  <1>1. TypeOK'
    <2>1. ObjTypeOK'
      BY DEF IInv, TypeOK, ObjTypeOK, PoolInv, Started
    <2>2. CountersOK'
      BY DEF IInv, TypeOK, CountersOK, PCs
    <2>3. DataTypeOK'
      BY DEF IInv, TypeOK, ObjTypeOK, DataTypeOK, PoolInv, SlaveInv, Started
    <2> QED
      BY <2>1, <2>2, <2>3 DEF TypeOK
  <1>2. PoolInv'
    BY DEF IInv, TypeOK, ObjTypeOK, CountersOK, PoolInv, Started
  <1>3. SlaveInv'
    BY DEF IInv, TypeOK, ObjTypeOK, CountersOK, DataTypeOK, PoolInv, SlaveInv, Started
  <1>4. LockInv'
    BY DEF IInv, TypeOK, ObjTypeOK, CountersOK, PoolInv, LockInv, Started
  <1> QED
    BY <1>1, <1>2, <1>3, <1>4 DEF IInv

\* main() creates and pools a client.
LEMMA CreateClientInv ==
  ASSUME IInv, NEW d \in Devices, CreateClient(d), UNCHANGED <<loopVars, report, panicked>>
  PROVE  IInv'
  <1> USE CollectorAssumption, BehindFacts, ClientFacts
      DEF CreateClient, objVars, loopVars
  <1>1. TypeOK'
    <2>1. ObjTypeOK'
      BY DEF IInv, TypeOK, ObjTypeOK, PoolInv, Started
    <2>2. CountersOK'
      BY DEF IInv, TypeOK, CountersOK, PCs
    <2>3. DataTypeOK'
      BY DEF IInv, TypeOK, ObjTypeOK, DataTypeOK, PoolInv, SlaveInv, Started
    <2> QED
      BY <2>1, <2>2, <2>3 DEF TypeOK
  <1>2. PoolInv'
    BY DEF IInv, TypeOK, ObjTypeOK, CountersOK, PoolInv, Started
  <1>3. SlaveInv'
    BY DEF IInv, TypeOK, ObjTypeOK, CountersOK, DataTypeOK, PoolInv, SlaveInv, Started
  <1>4. LockInv'
    BY DEF IInv, TypeOK, ObjTypeOK, CountersOK, PoolInv, LockInv, Started
  <1> QED
    BY <1>1, <1>2, <1>3, <1>4 DEF IInv

\* main() skips a device it cannot connect.
LEMMA CreateFailsInv ==
  ASSUME IInv, NEW d \in Devices, CreateFails(d), UNCHANGED <<loopVars, report, panicked>>
  PROVE  IInv'
  <1> USE CollectorAssumption, BehindFacts, ClientFacts
      DEF CreateFails, objVars, loopVars
  <1>1. TypeOK'
    <2>1. ObjTypeOK'
      BY DEF IInv, TypeOK, ObjTypeOK, PoolInv, Started
    <2>2. CountersOK'
      BY DEF IInv, TypeOK, CountersOK, PCs
    <2>3. DataTypeOK'
      BY DEF IInv, TypeOK, ObjTypeOK, DataTypeOK, PoolInv, SlaveInv, Started
    <2> QED
      BY <2>1, <2>2, <2>3 DEF TypeOK
  <1>2. PoolInv'
    BY DEF IInv, TypeOK, ObjTypeOK, CountersOK, PoolInv, Started
  <1>3. SlaveInv'
    BY DEF IInv, TypeOK, ObjTypeOK, CountersOK, DataTypeOK, PoolInv, SlaveInv, Started
  <1>4. LockInv'
    BY DEF IInv, TypeOK, ObjTypeOK, CountersOK, PoolInv, LockInv, Started
  <1> QED
    BY <1>1, <1>2, <1>3, <1>4 DEF IInv

\* main() starts a goroutine.
LEMMA StartDeviceInv ==
  ASSUME IInv, NEW d \in Devices, StartDevice(d)
  PROVE  IInv'
  <1> USE CollectorAssumption, BehindFacts, ClientFacts
      DEF StartDevice, SetSlave, objVars, loopVars
  <1>1. TypeOK'
    <2>1. ObjTypeOK'
      BY DEF IInv, TypeOK, ObjTypeOK, PoolInv, Started
    <2>2. CountersOK'
      BY DEF IInv, TypeOK, CountersOK, PCs
    <2>3. DataTypeOK'
      BY DEF IInv, TypeOK, ObjTypeOK, DataTypeOK, PoolInv, SlaveInv, Started
    <2> QED
      BY <2>1, <2>2, <2>3 DEF TypeOK
  <1>2. PoolInv'
    BY DEF IInv, TypeOK, ObjTypeOK, CountersOK, PoolInv, Started
  <1>3. SlaveInv'
    BY DEF IInv, TypeOK, ObjTypeOK, CountersOK, DataTypeOK, PoolInv, SlaveInv, Started
  <1>4. LockInv'
    BY DEF IInv, TypeOK, ObjTypeOK, CountersOK, PoolInv, LockInv, Started
  <1> QED
    BY <1>1, <1>2, <1>3, <1>4 DEF IInv

\* A cycle starts.
LEMMA BeginCycleInv ==
  ASSUME IInv, NEW d \in Devices, BeginCycle(d)
  PROVE  IInv'
  <1> USE CollectorAssumption, BehindFacts, ClientFacts
      DEF BeginCycle, SetSlave, objVars, loopVars
  <1>1. TypeOK'
    <2>1. ObjTypeOK'
      BY DEF IInv, TypeOK, ObjTypeOK, PoolInv, Started
    <2>2. CountersOK'
      <3>1. pc' \in [Devices -> PCs]
        BY DEF IInv, TypeOK, CountersOK, PCs
      <3>2. grp' \in [Devices -> Nat] /\ \A e \in Devices : grp'[e] \in 1..Groups[e]
        BY BoundFacts DEF IInv, TypeOK, CountersOK
      <3>3. retry' \in [Devices -> 1..MaxRetry]
        BY BoundFacts DEF IInv, TypeOK, CountersOK
      <3>4. bat' \in [Devices -> Nat] /\ \A e \in Devices : bat'[e] < Batches[e]
        BY BoundFacts DEF IInv, TypeOK, CountersOK
      <3> QED
        BY <3>1, <3>2, <3>3, <3>4 DEF CountersOK
    <2>3. DataTypeOK'
      BY DEF IInv, TypeOK, ObjTypeOK, DataTypeOK, PoolInv, SlaveInv, Started
    <2> QED
      BY <2>1, <2>2, <2>3 DEF TypeOK
  <1>2. PoolInv'
    BY DEF IInv, TypeOK, ObjTypeOK, CountersOK, PoolInv, Started
  <1>3. SlaveInv'
    BY DEF IInv, TypeOK, ObjTypeOK, CountersOK, DataTypeOK, PoolInv, SlaveInv, Started
  <1>4. LockInv'
    BY DEF IInv, TypeOK, ObjTypeOK, CountersOK, PoolInv, LockInv, Started
  <1> QED
    BY <1>1, <1>2, <1>3, <1>4 DEF IInv

\* A request is encoded and sent.
LEMMA ReadCallInv ==
  ASSUME IInv, NEW d \in Devices, ReadCall(d)
  PROVE  IInv'
  <1> USE CollectorAssumption, BehindFacts, ClientFacts
      DEF ReadCall, objVars, loopVars
  <1>1. TypeOK'
    <2>1. ObjTypeOK'
      BY DEF IInv, TypeOK, ObjTypeOK, PoolInv, Started
    <2>2. CountersOK'
      BY DEF IInv, TypeOK, CountersOK, PCs
    <2>3. DataTypeOK'
      BY DEF IInv, TypeOK, ObjTypeOK, DataTypeOK, PoolInv, SlaveInv, Started
    <2> QED
      BY <2>1, <2>2, <2>3 DEF TypeOK
  <1>2. PoolInv'
    BY DEF IInv, TypeOK, ObjTypeOK, CountersOK, PoolInv, Started
  <1>3. SlaveInv'
    BY DEF IInv, TypeOK, ObjTypeOK, CountersOK, DataTypeOK, PoolInv, SlaveInv, Started
  <1>4. LockInv'
    BY DEF IInv, TypeOK, ObjTypeOK, CountersOK, PoolInv, LockInv, Started
  <1> QED
    BY <1>1, <1>2, <1>3, <1>4 DEF IInv

\* A nil client ends the process.
LEMMA ReadNilClientInv ==
  ASSUME IInv, NEW d \in Devices, ReadNilClient(d)
  PROVE  IInv'
  <1> USE CollectorAssumption, BehindFacts, ClientFacts
      DEF ReadNilClient, objVars, loopVars
  <1>1. TypeOK'
    <2>1. ObjTypeOK'
      BY DEF IInv, TypeOK, ObjTypeOK, PoolInv, Started
    <2>2. CountersOK'
      BY DEF IInv, TypeOK, CountersOK, PCs
    <2>3. DataTypeOK'
      BY DEF IInv, TypeOK, ObjTypeOK, DataTypeOK, PoolInv, SlaveInv, Started
    <2> QED
      BY <2>1, <2>2, <2>3 DEF TypeOK
  <1>2. PoolInv'
    BY DEF IInv, TypeOK, ObjTypeOK, CountersOK, PoolInv, Started
  <1>3. SlaveInv'
    BY DEF IInv, TypeOK, ObjTypeOK, CountersOK, DataTypeOK, PoolInv, SlaveInv, Started
  <1>4. LockInv'
    BY DEF IInv, TypeOK, ObjTypeOK, CountersOK, PoolInv, LockInv, Started
  <1> QED
    BY <1>1, <1>2, <1>3, <1>4 DEF IInv

\* A request is answered.
LEMMA ReadReturnsInv ==
  ASSUME IInv, NEW d \in Devices, ReadReturns(d)
  PROVE  IInv'
  <1> USE CollectorAssumption, BehindFacts, ClientFacts
      DEF ReadReturns, NextGroup, objVars, loopVars
  <1>1. TypeOK'
    <2>1. ObjTypeOK'
      BY DEF IInv, TypeOK, ObjTypeOK, PoolInv, Started
    <2>2. CountersOK'
      <3>1. pc' \in [Devices -> PCs]
        BY DEF IInv, TypeOK, CountersOK, PCs
      <3>2. grp' \in [Devices -> Nat] /\ \A e \in Devices : grp'[e] \in 1..Groups[e]
        BY BoundFacts DEF IInv, TypeOK, CountersOK
      <3>3. retry' \in [Devices -> 1..MaxRetry]
        BY BoundFacts DEF IInv, TypeOK, CountersOK
      <3>4. bat' \in [Devices -> Nat] /\ \A e \in Devices : bat'[e] < Batches[e]
        BY BoundFacts DEF IInv, TypeOK, CountersOK
      <3> QED
        BY <3>1, <3>2, <3>3, <3>4 DEF CountersOK
    <2>3. DataTypeOK'
      <3>1. req[d] \in SlaveIds
        BY DEF IInv, SlaveInv
      <3>2. got' \in [Devices -> SUBSET SlaveIds]
        BY <3>1 DEF IInv, TypeOK, DataTypeOK
      <3>3. vals' \in [Devices -> SUBSET SlaveIds]
        BY <3>1 DEF IInv, TypeOK, DataTypeOK
      <3> QED
        BY <3>2, <3>3 DEF IInv, TypeOK, DataTypeOK
    <2> QED
      BY <2>1, <2>2, <2>3 DEF TypeOK
  <1>2. PoolInv'
    BY DEF IInv, TypeOK, ObjTypeOK, CountersOK, PoolInv, Started
  <1>3. SlaveInv'
    BY DEF IInv, TypeOK, ObjTypeOK, CountersOK, DataTypeOK, PoolInv, SlaveInv, Started
  <1>4. LockInv'
    BY DEF IInv, TypeOK, ObjTypeOK, CountersOK, PoolInv, LockInv, Started
  <1> QED
    BY <1>1, <1>2, <1>3, <1>4 DEF IInv

\* A ReadBatch fails.
LEMMA BatchFailsInv ==
  ASSUME IInv, NEW d \in Devices, pc[d] \in {"wait", "read"}, BatchFails(d)
  PROVE  IInv'
  <1> USE CollectorAssumption, BehindFacts, ClientFacts
      DEF BatchFails, objVars, loopVars
  <1>1. TypeOK'
    <2>1. ObjTypeOK'
      BY DEF IInv, TypeOK, ObjTypeOK, PoolInv, Started
    <2>2. CountersOK'
      <3>1. pc' \in [Devices -> PCs]
        BY DEF IInv, TypeOK, CountersOK, PCs
      <3>2. grp' \in [Devices -> Nat] /\ \A e \in Devices : grp'[e] \in 1..Groups[e]
        BY BoundFacts DEF IInv, TypeOK, CountersOK
      <3>3. retry' \in [Devices -> 1..MaxRetry]
        BY BoundFacts DEF IInv, TypeOK, CountersOK
      <3>4. bat' \in [Devices -> Nat] /\ \A e \in Devices : bat'[e] < Batches[e]
        BY BoundFacts DEF IInv, TypeOK, CountersOK
      <3> QED
        BY <3>1, <3>2, <3>3, <3>4 DEF CountersOK
    <2>3. DataTypeOK'
      BY DEF IInv, TypeOK, ObjTypeOK, DataTypeOK, PoolInv, SlaveInv, Started
    <2> QED
      BY <2>1, <2>2, <2>3 DEF TypeOK
  <1>2. PoolInv'
    <2>1. pc'[d] \in {"read", "lock"} /\ \A e \in Devices \ {d} : pc'[e] = pc[e]
      BY DEF IInv, TypeOK, CountersOK
    <2>2. Started(d) /\ setup # d
      BY DEF IInv, PoolInv, Started
    <2> QED
      BY <2>1, <2>2 DEF IInv, PoolInv, Started
  <1>3. SlaveInv'
    BY DEF IInv, TypeOK, ObjTypeOK, CountersOK, DataTypeOK, PoolInv, SlaveInv, Started
  <1>4. LockInv'
    BY DEF IInv, TypeOK, ObjTypeOK, CountersOK, PoolInv, LockInv, Started
  <1> QED
    BY <1>1, <1>2, <1>3, <1>4 DEF IInv

\* ForceReconnect closes.
LEMMA ReconnectCloseInv ==
  ASSUME IInv, NEW d \in Devices, ReconnectClose(d)
  PROVE  IInv'
  <1> USE CollectorAssumption, BehindFacts, ClientFacts
      DEF ReconnectClose, objVars, loopVars
  <1>1. TypeOK'
    <2>1. ObjTypeOK'
      BY DEF IInv, TypeOK, ObjTypeOK, PoolInv, Started
    <2>2. CountersOK'
      BY DEF IInv, TypeOK, CountersOK, PCs
    <2>3. DataTypeOK'
      BY DEF IInv, TypeOK, ObjTypeOK, DataTypeOK, PoolInv, SlaveInv, Started
    <2> QED
      BY <2>1, <2>2, <2>3 DEF TypeOK
  <1>2. PoolInv'
    BY DEF IInv, TypeOK, ObjTypeOK, CountersOK, PoolInv, Started
  <1>3. SlaveInv'
    BY DEF IInv, TypeOK, ObjTypeOK, CountersOK, DataTypeOK, PoolInv, SlaveInv, Started
  <1>4. LockInv'
    BY DEF IInv, TypeOK, ObjTypeOK, CountersOK, PoolInv, LockInv, Started
  <1> QED
    BY <1>1, <1>2, <1>3, <1>4 DEF IInv

\* ForceReconnect dials and unlocks.
LEMMA ReconnectDialInv ==
  ASSUME IInv, NEW d \in Devices, ReconnectDial(d)
  PROVE  IInv'
  <1> USE CollectorAssumption, BehindFacts, ClientFacts
      DEF ReconnectDial, NextGroup, objVars, loopVars
  <1>1. TypeOK'
    <2>1. ObjTypeOK'
      BY DEF IInv, TypeOK, ObjTypeOK, PoolInv, Started
    <2>2. CountersOK'
      <3>1. pc' \in [Devices -> PCs]
        BY DEF IInv, TypeOK, CountersOK, PCs
      <3>2. grp' \in [Devices -> Nat] /\ \A e \in Devices : grp'[e] \in 1..Groups[e]
        BY BoundFacts DEF IInv, TypeOK, CountersOK
      <3>3. retry' \in [Devices -> 1..MaxRetry]
        BY BoundFacts DEF IInv, TypeOK, CountersOK
      <3>4. bat' \in [Devices -> Nat] /\ \A e \in Devices : bat'[e] < Batches[e]
        BY BoundFacts DEF IInv, TypeOK, CountersOK
      <3> QED
        BY <3>1, <3>2, <3>3, <3>4 DEF CountersOK
    <2>3. DataTypeOK'
      BY DEF IInv, TypeOK, ObjTypeOK, DataTypeOK, PoolInv, SlaveInv, Started
    <2> QED
      BY <2>1, <2>2, <2>3 DEF TypeOK
  <1>2. PoolInv'
    BY DEF IInv, TypeOK, ObjTypeOK, CountersOK, PoolInv, Started
  <1>3. SlaveInv'
    BY DEF IInv, TypeOK, ObjTypeOK, CountersOK, DataTypeOK, PoolInv, SlaveInv, Started
  <1>4. LockInv'
    BY DEF IInv, TypeOK, ObjTypeOK, CountersOK, PoolInv, LockInv, Started
  <1> QED
    BY <1>1, <1>2, <1>3, <1>4 DEF IInv

\* A report is sent.
LEMMA SendInv ==
  ASSUME IInv, NEW d \in Devices, Send(d)
  PROVE  IInv'
  <1> USE CollectorAssumption, BehindFacts, ClientFacts
      DEF Send, objVars, loopVars
  <1>1. TypeOK'
    <2>1. ObjTypeOK'
      BY DEF IInv, TypeOK, ObjTypeOK, PoolInv, Started
    <2>2. CountersOK'
      BY DEF IInv, TypeOK, CountersOK, PCs
    <2>3. DataTypeOK'
      BY DEF IInv, TypeOK, ObjTypeOK, DataTypeOK, PoolInv, SlaveInv, Started
    <2> QED
      BY <2>1, <2>2, <2>3 DEF TypeOK
  <1>2. PoolInv'
    BY DEF IInv, TypeOK, ObjTypeOK, CountersOK, PoolInv, Started
  <1>3. SlaveInv'
    BY DEF IInv, TypeOK, ObjTypeOK, CountersOK, DataTypeOK, PoolInv, SlaveInv, Started
  <1>4. LockInv'
    BY DEF IInv, TypeOK, ObjTypeOK, CountersOK, PoolInv, LockInv, Started
  <1> QED
    BY <1>1, <1>2, <1>3, <1>4 DEF IInv

\* A ticker fires.
LEMMA TickInv ==
  ASSUME IInv, NEW d \in Devices, Tick(d)
  PROVE  IInv'
  <1> USE CollectorAssumption, BehindFacts, ClientFacts
      DEF Tick, objVars, loopVars
  <1>1. TypeOK'
    <2>1. ObjTypeOK'
      BY DEF IInv, TypeOK, ObjTypeOK, PoolInv, Started
    <2>2. CountersOK'
      BY DEF IInv, TypeOK, CountersOK, PCs
    <2>3. DataTypeOK'
      BY DEF IInv, TypeOK, ObjTypeOK, DataTypeOK, PoolInv, SlaveInv, Started
    <2> QED
      BY <2>1, <2>2, <2>3 DEF TypeOK
  <1>2. PoolInv'
    BY DEF IInv, TypeOK, ObjTypeOK, CountersOK, PoolInv, Started
  <1>3. SlaveInv'
    BY DEF IInv, TypeOK, ObjTypeOK, CountersOK, DataTypeOK, PoolInv, SlaveInv, Started
  <1>4. LockInv'
    BY DEF IInv, TypeOK, ObjTypeOK, CountersOK, PoolInv, LockInv, Started
  <1> QED
    BY <1>1, <1>2, <1>3, <1>4 DEF IInv

\* The process is dead, or nothing of the state changes.
LEMMA StutterInv == IInv /\ UNCHANGED vars => IInv'
  BY DEF vars, objVars, loopVars, IInv, TypeOK, ObjTypeOK, CountersOK, DataTypeOK,
         PoolInv, SlaveInv, LockInv, Started, Behind, PCs

\* IInv is an invariant of every behaviour of the collection loops.
THEOREM Inductive == Spec => []IInv
  <1>1. Init => IInv
    BY InitIInv
  <1>2. IInv /\ [Next]_vars => IInv'
    <2> SUFFICES ASSUME IInv, Next PROVE IInv'
      BY StutterInv
    <2>1. PICK d \in Devices : Main(d) \/ Loop(d) \/ ReconnectClose(d) \/ Send(d)
      BY DEF Next
    <2>2. CASE Main(d)
      BY <2>2, ReuseClientInv, CreateClientInv, CreateFailsInv, StartDeviceInv
      DEF Main, GetOrCreateClient
    <2>3. CASE Loop(d)
      BY <2>3, BeginCycleInv, ReadCallInv, ReadNilClientInv, ReadReturnsInv,
         BatchFailsInv, ReconnectDialInv, TickInv
      DEF Loop, ReadError, AddressError
    <2>4. CASE ReconnectClose(d)
      BY <2>4, ReconnectCloseInv
    <2>5. CASE Send(d)
      BY <2>5, SendInv
    <2> QED
      BY <2>1, <2>2, <2>3, <2>4, <2>5
  <1> QED
    BY <1>1, <1>2, PTL DEF Spec

\* Counters, references and slave ids stay in their ranges in every run of
\* main.go's loops, for any number of devices.
THEOREM TypeCorrect == Spec => []TypeOK
  <1>1. IInv => TypeOK
    BY DEF IInv
  <1> QED
    BY <1>1, Inductive, PTL

\* However the goroutines interleave and whatever reads and dials fail, a
\* report carries registers of slaves behind the device's own endpoint only.
THEOREM EndpointSafe == Spec => []EndpointIsolation
  <1>1. IInv => EndpointIsolation
    BY DEF IInv, SlaveInv, EndpointIsolation
  <1> QED
    BY <1>1, Inductive, PTL

\* Where devices that share an endpoint are point sets of the same slave, the
\* comment at main.go:360 holds: no report carries another slave's registers.
THEOREM SlaveSafe ==
  ASSUME \A d, e \in Devices : Endpoint[d] = Endpoint[e] => Slave[d] = Slave[e]
  PROVE  Spec => []SlaveIsolation
  <1>1. \A d \in Devices : Behind(d) \subseteq {Slave[d]}
    BY DEF Behind
  <1>2. IInv => SlaveIsolation
    BY <1>1 DEF IInv, SlaveInv, SlaveIsolation
  <1> QED
    BY <1>2, Inductive, PTL

\* getOrCreateClient opens at most one client per protocol, ip and port.
THEOREM PoolSafe == Spec => []OneClientPerEndpoint
  <1>1. IInv => OneClientPerEndpoint
    BY DEF IInv, PoolInv, OneClientPerEndpoint
  <1> QED
    BY <1>1, Inductive, PTL

\* ForceReconnect is exclusive per client object, and no goroutine installs a
\* handler while another one dials.
THEOREM ReconnectSafe == Spec => []ReconnectExclusive
  <1>1. IInv => ReconnectExclusive
    BY CollectorAssumption DEF IInv, LockInv, ReconnectExclusive
  <1> QED
    BY <1>1, Inductive, PTL
=============================================================================
