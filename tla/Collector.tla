------------------------------ MODULE Collector ------------------------------
(***************************************************************************)
(* The collection loops of main.go over pooled Modbus/TCP clients.         *)
(*                                                                         *)
(* main() sets the devices up one after the other: it takes the client of  *)
(* the device's endpoint from the pool (or creates it), sets the slave id  *)
(* on it and starts one goroutine per device.  Each goroutine then cycles: *)
(* set the slave id, read every function group with retries, report, wait  *)
(* for its ticker.  The goroutines of devices behind the same endpoint     *)
(* share one ModbusTCP object whose fields are read and written without    *)
(* the lock, except in ForceReconnect.                                     *)
(*                                                                         *)
(* A register value is abstracted to the slave id that was in the frame    *)
(* that fetched it; a report to the set of slave ids whose registers it    *)
(* carries (a point that could not be read is null and carries none).      *)
(***************************************************************************)
EXTENDS Naturals

CONSTANTS
  Devices,     \* the point sets of points.yaml that have a device and a protocol
  Endpoints,   \* ClientKey values: protocol, ip, port
  SlaveIds,    \* Modbus unit ids
  Endpoint,    \* [Devices -> Endpoints]
  Slave,       \* [Devices -> SlaveIds], config["slave_id"] of the device
  Groups,      \* [Devices -> Nat]: function groups of the point set
  Batches,     \* [Devices -> Nat]: Modbus requests one ReadBatch needs
  BadGroups,   \* <<device, group>> pairs with an address parseAddress rejects
  MaxRetry,    \* 3 in main.go
  Nil

ASSUME CollectorAssumption ==
  /\ Endpoint \in [Devices -> Endpoints]
  /\ Slave \in [Devices -> SlaveIds]
  /\ Groups \in [Devices -> Nat \ {0}]
  /\ Batches \in [Devices -> Nat \ {0}]
  /\ MaxRetry \in Nat \ {0}
  /\ BadGroups \subseteq Devices \X Nat
  /\ Nil \notin Devices \cup SlaveIds

VARIABLES
  clientCache, \* [Endpoints -> Devices \cup {Nil}]: the pooled object, named
               \* after the device whose set-up created it
  client,      \* [Devices -> Devices \cup {Nil}]: the object a goroutine uses
  handler,     \* [Devices -> SlaveIds \cup {Nil}]: handler.SlaveId of an
               \* object, Nil while m.handler and m.client are nil
  slaveId,     \* [Devices -> SlaveIds \cup {Nil}]: m.slaveId, set by Init
  lock,        \* [Devices -> Devices \cup {Nil}]: holder of m.lock
  setup,       \* device main() has a client for and has not yet started
  pc,          \* [Devices -> PCs]: where the goroutine is
  grp, retry, bat, \* loop counters of the goroutine
  req,         \* slave id in the frame on the wire
  got,         \* slave ids answered so far in this ReadBatch
  vals,        \* slave ids merged into allPointValues in this cycle
  report,      \* slave ids carried by the report of the cycle that waits for its tick
  panicked     \* the process died in a nil dereference

objVars  == <<clientCache, client, handler, slaveId, lock>>
loopVars == <<grp, retry, bat, req, got, vals>>
vars == <<objVars, loopVars, setup, pc, report, panicked>>

PCs == {"idle", "skipped", "slave", "read", "wait", "lock", "dial", "send", "tick"}

Started(d) == pc[d] \notin {"idle", "skipped"}

Init ==
  /\ clientCache = [k \in Endpoints |-> Nil]
  /\ client = [d \in Devices |-> Nil]
  /\ handler = [d \in Devices |-> Nil]
  /\ slaveId = [d \in Devices |-> Nil]
  /\ lock = [d \in Devices |-> Nil]
  /\ setup = Nil
  /\ pc = [d \in Devices |-> "idle"]
  /\ grp = [d \in Devices |-> 1]
  /\ retry = [d \in Devices |-> 1]
  /\ bat = [d \in Devices |-> 0]
  /\ req = [d \in Devices |-> Nil]
  /\ got = [d \in Devices |-> {}]
  /\ vals = [d \in Devices |-> {}]
  /\ report = [d \in Devices |-> {}]
  /\ panicked = FALSE

(***************************************************************************)
(* main(): set-up of one device                                            *)
(***************************************************************************)

\* Mutant of ReuseClient: the key leaves the address out.
ReuseAnyClient(d) ==
  /\ setup = Nil /\ pc[d] = "idle"
  /\ \E k \in Endpoints :
       clientCache[k] # Nil /\ client' = [client EXCEPT ![d] = clientCache[k]]
  /\ setup' = d
  /\ UNCHANGED <<clientCache, handler, slaveId, lock, pc>>

\* The endpoint's client is already pooled.
ReuseClient(d) ==
  /\ setup = Nil /\ pc[d] = "idle" /\ clientCache[Endpoint[d]] # Nil
  /\ client' = [client EXCEPT ![d] = clientCache[Endpoint[d]]]
  /\ setup' = d
  /\ UNCHANGED <<clientCache, handler, slaveId, lock, pc>>

\* Mutant of CreateClient: the new client is not pooled.
CreateUnpooled(d) ==
  /\ setup = Nil /\ pc[d] = "idle" /\ clientCache[Endpoint[d]] = Nil
  /\ handler' = [handler EXCEPT ![d] = Slave[d]]
  /\ slaveId' = [slaveId EXCEPT ![d] = Slave[d]]
  /\ client' = [client EXCEPT ![d] = d]
  /\ setup' = d
  /\ UNCHANGED <<clientCache, lock, pc>>

\* No client yet: Create and Init connect a new one, which is pooled.
CreateClient(d) ==
  /\ setup = Nil /\ pc[d] = "idle" /\ clientCache[Endpoint[d]] = Nil
  /\ handler' = [handler EXCEPT ![d] = Slave[d]]
  /\ slaveId' = [slaveId EXCEPT ![d] = Slave[d]]
  /\ clientCache' = [clientCache EXCEPT ![Endpoint[d]] = d]
  /\ client' = [client EXCEPT ![d] = d]
  /\ setup' = d
  /\ UNCHANGED <<lock, pc>>

\* Init could not connect: nothing is pooled and the device is skipped.
CreateFails(d) ==
  /\ setup = Nil /\ pc[d] = "idle" /\ clientCache[Endpoint[d]] = Nil
  /\ pc' = [pc EXCEPT ![d] = "skipped"]
  /\ UNCHANGED <<objVars, setup>>

GetOrCreateClient(d) ==
  /\ ReuseClient(d) \/ CreateClient(d) \/ CreateFails(d)
  /\ UNCHANGED <<loopVars, report, panicked>>

\* SetSlave writes the handler it finds and does nothing when there is none.
\* No store lies between the test of m.handler and the write through it, so the
\* compiled code loads it once: when ForceReconnect replaces the handler in between,
\* the write goes to the closed one, which no later request uses, as that of a
\* SetSlave that came before the reconnection.
SetSlave(o, s) ==
  handler' = IF handler[o] = Nil THEN handler ELSE [handler EXCEPT ![o] = s]

StartDevice(d) ==
  /\ setup = d
  /\ SetSlave(client[d], Slave[d])
  /\ setup' = Nil
  /\ pc' = [pc EXCEPT ![d] = "slave"]
  /\ UNCHANGED <<clientCache, client, slaveId, lock, loopVars, report, panicked>>

(***************************************************************************)
(* The goroutine of device d                                               *)
(***************************************************************************)

\* Top of the cycle: force the slave id, start from empty point values.
BeginCycle(d) ==
  /\ pc[d] = "slave"
  /\ SetSlave(client[d], Slave[d])
  /\ pc' = [pc EXCEPT ![d] = "read"]
  /\ grp' = [grp EXCEPT ![d] = 1]
  /\ retry' = [retry EXCEPT ![d] = 1]
  /\ bat' = [bat EXCEPT ![d] = 0]
  /\ got' = [got EXCEPT ![d] = {}]
  /\ vals' = [vals EXCEPT ![d] = {}]
  /\ UNCHANGED <<clientCache, client, slaveId, lock, req, setup, report, panicked>>

\* m.client.ReadXxx encodes the frame with the slave id the handler has now.
ReadCall(d) ==
  /\ pc[d] = "read"
  /\ <<d, grp[d]>> \notin BadGroups
  /\ handler[client[d]] # Nil
  /\ req' = [req EXCEPT ![d] = handler[client[d]]]
  /\ pc' = [pc EXCEPT ![d] = "wait"]
  /\ UNCHANGED <<objVars, grp, retry, bat, got, vals, setup, report, panicked>>

\* The same call on a nil client is a nil dereference that ends the process.
ReadNilClient(d) ==
  /\ pc[d] = "read"
  /\ <<d, grp[d]>> \notin BadGroups
  /\ handler[client[d]] = Nil
  /\ panicked' = TRUE
  /\ UNCHANGED <<objVars, loopVars, setup, pc, report>>

\* Mutant of NextGroup: one group too many.
NextGroupPastEnd(d) ==
  /\ pc' = [pc EXCEPT ![d] = IF grp[d] <= Groups[d] THEN "read" ELSE "send"]
  /\ grp' = [grp EXCEPT ![d] = IF grp[d] <= Groups[d] THEN grp[d] + 1 ELSE grp[d]]
  /\ retry' = [retry EXCEPT ![d] = 1]
  /\ bat' = [bat EXCEPT ![d] = 0]
  /\ got' = [got EXCEPT ![d] = {}]

\* readWithRetry is done with the group: the next group, or the report.
NextGroup(d) ==
  /\ pc' = [pc EXCEPT ![d] = IF grp[d] < Groups[d] THEN "read" ELSE "send"]
  /\ grp' = [grp EXCEPT ![d] = IF grp[d] < Groups[d] THEN grp[d] + 1 ELSE grp[d]]
  /\ retry' = [retry EXCEPT ![d] = 1]
  /\ bat' = [bat EXCEPT ![d] = 0]
  /\ got' = [got EXCEPT ![d] = {}]

\* A request of the batch is answered; the last one completes the group.
ReadReturns(d) ==
  /\ pc[d] = "wait"
  /\ req' = [req EXCEPT ![d] = Nil]
  /\ \/ /\ bat[d] + 1 < Batches[d]
        /\ bat' = [bat EXCEPT ![d] = bat[d] + 1]
        /\ got' = [got EXCEPT ![d] = got[d] \cup {req[d]}]
        /\ pc' = [pc EXCEPT ![d] = "read"]
        /\ UNCHANGED <<grp, retry, vals>>
     \/ /\ bat[d] + 1 >= Batches[d]
        /\ vals' = [vals EXCEPT ![d] = vals[d] \cup got[d] \cup {req[d]}]
        /\ NextGroup(d)
  /\ UNCHANGED <<objVars, setup, report, panicked>>

\* ReadBatch fails: what it had read is dropped; retry, or give up and
\* reconnect after the last attempt.
BatchFails(d) ==
  /\ got' = [got EXCEPT ![d] = {}]
  /\ bat' = [bat EXCEPT ![d] = 0]
  /\ req' = [req EXCEPT ![d] = Nil]
  /\ \/ /\ retry[d] < MaxRetry
        /\ retry' = [retry EXCEPT ![d] = retry[d] + 1]
        /\ pc' = [pc EXCEPT ![d] = "read"]
     \/ /\ retry[d] = MaxRetry
        /\ pc' = [pc EXCEPT ![d] = "lock"]
        /\ UNCHANGED retry
  /\ UNCHANGED <<objVars, grp, vals, setup, report, panicked>>

\* The request times out or the connection breaks.
ReadError(d) == pc[d] = "wait" /\ BatchFails(d)

\* parseAddress rejects an address before anything is sent.
AddressError(d) == pc[d] = "read" /\ <<d, grp[d]>> \in BadGroups /\ BatchFails(d)

\* Mutant of ReconnectClose: no m.lock.Lock().
ReconnectUnlocked(d) ==
  /\ pc[d] = "lock"
  /\ handler' = [handler EXCEPT ![client[d]] = Nil]
  /\ pc' = [pc EXCEPT ![d] = "dial"]
  /\ UNCHANGED <<clientCache, client, slaveId, lock, loopVars, setup, report, panicked>>

\* ForceReconnect takes the lock and closes and forgets the old handler ...
ReconnectClose(d) ==
  /\ pc[d] = "lock"
  /\ lock[client[d]] = Nil
  /\ lock' = [lock EXCEPT ![client[d]] = d]
  /\ handler' = [handler EXCEPT ![client[d]] = Nil]
  /\ pc' = [pc EXCEPT ![d] = "dial"]
  /\ UNCHANGED <<clientCache, client, slaveId, loopVars, setup, report, panicked>>

\* Mutant of ReconnectDial: no deferred m.lock.Unlock().
ReconnectKeepsLock(d) ==
  /\ pc[d] = "dial"
  /\ \/ handler' = [handler EXCEPT ![client[d]] = slaveId[client[d]]]
     \/ UNCHANGED handler
  /\ NextGroup(d)
  /\ UNCHANGED <<clientCache, client, slaveId, lock, req, vals, setup, report, panicked>>

\* ... dials, and on success installs a handler with the slave id of Init.
\* Either way the lock is released and readWithRetry returns the error.
ReconnectDial(d) ==
  /\ pc[d] = "dial"
  /\ \/ handler' = [handler EXCEPT ![client[d]] = slaveId[client[d]]]
     \/ UNCHANGED handler
  /\ lock' = [lock EXCEPT ![client[d]] = Nil]
  /\ NextGroup(d)
  /\ UNCHANGED <<clientCache, client, slaveId, req, vals, setup, report, panicked>>

\* EncodeDataReport and SendToAll with the values of this cycle.
Send(d) ==
  /\ pc[d] = "send"
  /\ report' = [report EXCEPT ![d] = vals[d]]
  /\ pc' = [pc EXCEPT ![d] = "tick"]
  /\ UNCHANGED <<objVars, loopVars, setup, panicked>>

\* The ticker fires; the values and the report end with their cycle.
Tick(d) ==
  /\ pc[d] = "tick"
  /\ pc' = [pc EXCEPT ![d] = "slave"]
  /\ vals' = [vals EXCEPT ![d] = {}]
  /\ report' = [report EXCEPT ![d] = {}]
  /\ UNCHANGED <<objVars, grp, retry, bat, req, got, setup, panicked>>

Main(d) == GetOrCreateClient(d) \/ StartDevice(d)

Loop(d) ==
  \/ BeginCycle(d) \/ ReadCall(d) \/ ReadNilClient(d)
  \/ ReadReturns(d) \/ ReadError(d) \/ AddressError(d)
  \/ ReconnectDial(d) \/ Tick(d)

Next ==
  /\ ~panicked
  /\ \E d \in Devices : Main(d) \/ Loop(d) \/ ReconnectClose(d) \/ Send(d)

(***************************************************************************)
(* Goroutines are scheduled fairly; a request and a dial end within their  *)
(* 5s timeout; a ticker fires; sync.Mutex does not starve a waiter.        *)
(* Nothing is assumed of Send: the MQTT uplink waits for its token without *)
(* a timeout.                                                              *)
(***************************************************************************)
Fairness ==
  \A d \in Devices :
    /\ WF_vars(~panicked /\ Loop(d))
    /\ SF_vars(~panicked /\ ReconnectClose(d))

Spec == Init /\ [][Next]_vars /\ Fairness

(***************************************************************************)
(* Properties                                                              *)
(***************************************************************************)

ObjTypeOK ==
  /\ clientCache \in [Endpoints -> Devices \cup {Nil}]
  /\ client \in [Devices -> Devices \cup {Nil}]
  /\ handler \in [Devices -> SlaveIds \cup {Nil}]
  /\ slaveId \in [Devices -> SlaveIds \cup {Nil}]
  /\ lock \in [Devices -> Devices \cup {Nil}]
  /\ setup \in Devices \cup {Nil}
  /\ panicked \in BOOLEAN

CountersOK ==
  /\ pc \in [Devices -> PCs]
  /\ grp \in [Devices -> Nat] /\ \A d \in Devices : grp[d] \in 1..Groups[d]
  /\ retry \in [Devices -> 1..MaxRetry]
  /\ bat \in [Devices -> Nat] /\ \A d \in Devices : bat[d] < Batches[d]

DataTypeOK ==
  /\ req \in [Devices -> SlaveIds \cup {Nil}]
  /\ got \in [Devices -> SUBSET SlaveIds]
  /\ vals \in [Devices -> SUBSET SlaveIds]
  /\ report \in [Devices -> SUBSET SlaveIds]

\* Every variable stays in its range: the loop counters of readWithRetry and
\* of the group loop in particular stay within their bounds.
TypeOK == ObjTypeOK /\ CountersOK /\ DataTypeOK

\* The comment at main.go:360: the slave id is forced before every cycle so
\* that devices never get each other's registers.
SlaveIsolation == \A d \in Devices : report[d] \subseteq {Slave[d]}

\* The slave ids configured behind the endpoint of d.
Behind(d) == {Slave[e] : e \in {x \in Devices : Endpoint[x] = Endpoint[d]}}

\* What the pool does guarantee whatever the interleaving: a report carries
\* registers of slaves configured behind the device's own endpoint only.
EndpointIsolation == \A d \in Devices : report[d] \subseteq Behind(d)

\* getOrCreateClient never opens two clients to one endpoint, also when the
\* first attempts to connect fail.
OneClientPerEndpoint ==
  \A d, e \in Devices :
    (client[d] # Nil /\ client[e] # Nil /\ Endpoint[d] = Endpoint[e])
      => client[d] = client[e]

\* m.lock: at most one goroutine is between closing and re-dialing an object,
\* and the object has no handler while it dials.
ReconnectExclusive ==
  \A d, e \in Devices :
    (pc[d] = "dial" /\ pc[e] = "dial" /\ client[d] = client[e])
      => d = e /\ handler[client[d]] = Nil

\* The parts of the inductive invariant.  A started device has a client, it is
\* the pooled one, and a pooled client was created for its own key.
PoolInv ==
  /\ \A k \in Endpoints : clientCache[k] # Nil => Endpoint[clientCache[k]] = k
  /\ \A d \in Devices :
       /\ client[d] # Nil => client[d] = clientCache[Endpoint[d]]
       /\ (Started(d) \/ setup = d) => client[d] # Nil
       /\ setup = d => pc[d] = "idle"

\* Every slave id an object or a goroutine holds is behind its endpoint.
SlaveInv ==
  \A d \in Devices :
    /\ handler[d] \in Behind(d) \cup {Nil}
    /\ slaveId[d] \in Behind(d) \cup {Nil}
    /\ req[d] \in Behind(d) \cup {Nil}
    /\ pc[d] = "wait" => req[d] # Nil
    /\ got[d] \subseteq Behind(d)
    /\ vals[d] \subseteq Behind(d)
    /\ report[d] \subseteq Behind(d)

\* A goroutine that dials holds the lock of an object without a handler.
LockInv ==
  \A d \in Devices :
    pc[d] = "dial" => lock[client[d]] = d /\ handler[client[d]] = Nil

IInv == TypeOK /\ PoolInv /\ SlaveInv /\ LockInv

\* The comments at modbus_tcp.go:301, 390, 479, 536: batch reads survive a
\* broken connection because reconnection is integrated.
SurvivesDisconnect == ~panicked

\* Every cycle of a goroutine gets to its report, whatever reads and dials
\* fail and whoever else holds the lock, unless the process has died.
KeepsReporting ==
  \A d \in Devices : (pc[d] = "slave") ~> (panicked \/ pc[d] = "send")
=============================================================================
