------------------------------- MODULE Gateway -------------------------------
(***************************************************************************)
(* The collection loops of main.go over the drivers other than Modbus      *)
(* (bacnet, tcpclient, slmp, s7, snmp, http), composed with the uplink     *)
(* manager.  main merges the configuration of a device, takes its client   *)
(* from the pool or initialises one, and starts its goroutine, which reads *)
(* the points one by one, merges the values into a report and sends it.    *)
(*                                                                         *)
(* The program as it is built links, of these, only bacnet: main.go        *)
(* imports no other, so protocols.Create fails for them.  A configuration  *)
(* says what the build links; linked |-> {"bacnet"} is the repository's.   *)
(*                                                                         *)
(* Goroutines of devices with the same pool key share one client.  The     *)
(* answers of its connection are a stream of chunks; a Read returns what   *)
(* is there, from wherever the last one stopped.  Of a chunk we keep       *)
(* whether it starts an answer, whether it has the bytes the driver asks   *)
(* for and those it uses, and which devices began a new cycle after it was *)
(* made.                                                                   *)
(***************************************************************************)
EXTENDS Naturals, Sequences, FiniteSets

CONSTANTS
  Devices,
  Settings,    \* configurations: [linked, device : [Devices -> record], channels]
  MaxRetry,    \* 3 in main.go
  MaxSplits,   \* bound on answers that arrive in two pieces
  Nil

\* What a point read puts into values: the point it was read for, the place of
\* its first chunk in an answer, its size, and whether the answer is an old one.
Values == [point : Nat, from : {"start", "middle"}, size : 0..2, stale : BOOLEAN]

ChannelConfs == [type : STRING, enable : BOOLEAN]
PointConfs == [name : STRING, addr : STRING]

Numeric == {"int", "float64"}

ASSUME GatewayAssumption ==
  /\ MaxRetry \in Nat /\ MaxSplits \in Nat
  /\ Nil \notin Devices \cup Values
  /\ \A s \in Settings :
       /\ s.channels \in Seq(ChannelConfs)
       /\ \A d \in Devices :
            /\ s.device[d].points \in Seq(PointConfs)
            /\ \A c \in {s.device[d].config, s.device[d].meta, s.device[d].params} :
                 ("port" \in DOMAIN c /\ c["port"].go \in Numeric) => c["port"].v \in Nat

VARIABLES
  settings,    \* the configuration of this process
  pooled,      \* objects in clientCache, each named after the device it was made for
  client,      \* [Devices -> Devices \cup {Nil}]: the object a goroutine uses
  conn,        \* [Devices -> {"none", "up", "broken"}]: an object's connection
  asked,       \* [Devices -> Nat]: requests written and not answered yet
  queue,       \* [Devices -> Seq(chunk)]: what a Read of the connection returns
  splits,      \* [Devices -> Nat]: answers of the connection that were split
  pc, retry, results, report,  \* the goroutines
  channels, built, uplinks, at, tried, blocked, panicked   \* see Uplinks

Up == INSTANCE Uplinks WITH Senders <- Devices

pool   == <<settings, pooled, client>>
wire   == <<conn, asked, queue, splits>>
loop   == <<retry, results, report>>
upVars == <<channels, built, uplinks, at, tried, blocked>>
vars   == <<pool, wire, pc, loop, upVars, panicked>>

Dev(d) == settings.device[d]
Points(d) == Dev(d).points

Init ==
  /\ settings \in Settings
  /\ channels = settings.channels
  /\ Up!Init
  /\ pooled = {} /\ client = [d \in Devices |-> Nil]
  /\ conn = [d \in Devices |-> "none"]
  /\ asked = [d \in Devices |-> 0]
  /\ queue = [d \in Devices |-> <<>>]
  /\ splits = [d \in Devices |-> 0]
  /\ pc = [d \in Devices |-> "idle"]
  /\ retry = [d \in Devices |-> 1]
  /\ results = [d \in Devices |-> <<>>]
  /\ report = [d \in Devices |-> <<>>]
  /\ panicked = FALSE

(***************************************************************************)
(* Set-up: configuration, pool, Init                                       *)
(***************************************************************************)

\* config[key] of a key that is nowhere
Missing == [go |-> "nil", v |-> Nil]

\* config: of devices.yaml, then the fields of DeviceMeta, which are there even
\* when the file does not give them, then the parameters of protocols.yaml.
Effective(d, key) ==
  LET c == Dev(d)
  IN  CASE key \in DOMAIN c.config -> c.config[key]
        [] key \notin DOMAIN c.config /\ key \in DOMAIN c.meta -> c.meta[key]
        [] key \notin DOMAIN c.config \cup DOMAIN c.meta /\ key \in DOMAIN c.params ->
             c.params[key]
        [] OTHER -> Missing

Port(d) == Effective(d, "port")

\* int(v) of a float64, which is given in halves.
Whole(p) == IF p.go = "float64" THEN p.v \div 2 ELSE p.v

\* Mutant of PoolKey: the key leaves the ip out.
PoolKeyNoIp(d) ==
  <<Dev(d).protocol, IF Port(d).go \in Numeric THEN Whole(Port(d)) ELSE 0>>

\* An ip that is not a string counts as "", a port that is not a number as 0, and
\* the fraction of a port is cut off.
PoolKey(d) ==
  <<Dev(d).protocol, IF Effective(d, "ip").go = "string" THEN Effective(d, "ip").v ELSE "",
    IF Port(d).go \in Numeric THEN Whole(Port(d)) ELSE 0>>

\* The type assertions of the drivers' Init functions.
Asserts(protocol) ==
  CASE protocol = "tcpclient" -> [ip |-> "string", port |-> "string", request_hex |-> "string"]
    [] protocol = "slmp" -> [ip |-> "string", port |-> "string"]
    [] protocol = "snmp" -> [ip |-> "string", port |-> "float64",
                             community |-> "string", oid |-> "string"]
    [] protocol = "s7" -> [ip |-> "string"]
    [] protocol = "http" -> [url |-> "string", method |-> "string"]
    [] protocol = "bacnet" -> <<>>

InitPanics(d) ==
  LET needs == Asserts(Dev(d).protocol)
  IN  \E key \in DOMAIN needs : Effective(d, key).go # needs[key]

Start(d, o) ==
  /\ client' = [client EXCEPT ![d] = o]
  /\ pc' = [pc EXCEPT ![d] = "cycle"]

Pooled(d) == {o \in pooled : PoolKey(o) = PoolKey(d)}

\* protocols.Create finds the driver: its package is linked and registered.
Registered(d) == Dev(d).protocol \in settings.linked

\* protocols.yaml has no parameters for the device, its driver is not registered,
\* or the dial fails.
SetupSkips(d) ==
  /\ pc' = [pc EXCEPT ![d] = "skipped"]
  /\ UNCHANGED <<pool, wire, panicked>>

SetupReuses(d) ==
  /\ \E o \in Pooled(d) : Start(d, o)
  /\ UNCHANGED <<settings, pooled, wire, panicked>>

SetupCreates(d) ==
  /\ Pooled(d) = {} /\ Registered(d) /\ ~InitPanics(d)
  /\ pooled' = pooled \cup {d}
  /\ conn' = [conn EXCEPT ![d] = "up"]
  /\ Start(d, d)
  /\ UNCHANGED <<settings, asked, queue, splits, panicked>>

SetupPanics(d) ==
  /\ Pooled(d) = {} /\ Registered(d) /\ InitPanics(d)
  /\ panicked' = TRUE
  /\ UNCHANGED <<pool, wire, pc>>

Setup(d) ==
  /\ pc[d] = "idle" /\ Up!Ready
  /\ SetupSkips(d) \/ SetupReuses(d) \/ SetupCreates(d) \/ SetupPanics(d)
  /\ UNCHANGED <<loop, upVars>>

(***************************************************************************)
(* The device at the other end of object o's connection, and the network   *)
(***************************************************************************)

Streams == {"tcpclient", "slmp"}
Streamed(o) == Dev(o).protocol \in Streams

\* 0: too short for the driver's test; 2: has the bytes it uses; 1: passes the
\* test without them, which slmp's "n < 14" allows (it uses bytes 14 and 15).
Sizes(o) == IF Dev(o).protocol = "slmp" THEN 0..2 ELSE {0, 2}

Chunk(from, size) == [from |-> from, size |-> size, since |-> {}]

\* An answer arrives, whole or in two pieces.
Answer(o) ==
  /\ conn[o] = "up" /\ asked[o] > 0
  /\ asked' = [asked EXCEPT ![o] = @ - 1]
  /\ \/ /\ \E n \in Sizes(o) : queue' = [queue EXCEPT ![o] = Append(@, Chunk("start", n))]
        /\ UNCHANGED splits
     \/ /\ splits[o] < MaxSplits
        /\ \E n, k \in Sizes(o) :
             queue' = [queue EXCEPT ![o] = @ \o <<Chunk("start", n), Chunk("middle", k)>>]
        /\ splits' = [splits EXCEPT ![o] = @ + 1]
  /\ UNCHANGED <<pool, conn, pc, loop, upVars, panicked>>

\* The connection is lost: from now on Write fails, and so does Read once what
\* had arrived before, if that is kept, has been read.
Break(o) ==
  /\ conn[o] = "up" /\ Streamed(o)
  /\ conn' = [conn EXCEPT ![o] = "broken"]
  /\ asked' = [asked EXCEPT ![o] = 0]
  /\ \E q \in {queue[o], <<>>} : queue' = [queue EXCEPT ![o] = q]
  /\ UNCHANGED <<pool, splits, pc, loop, upVars, panicked>>

(***************************************************************************)
(* The goroutine of device d                                               *)
(***************************************************************************)

\* What is in the queue when device d begins a cycle is old to it.
Seen(q, d) == [n \in DOMAIN q |-> [q[n] EXCEPT !.since = @ \cup {d}]]

\* A new allPointValues; ReadBatch starts unless the driver has none (http) or
\* there is no point to read.
BeginCycle(d) ==
  /\ pc[d] = "cycle"
  /\ pc' = [pc EXCEPT ![d] = IF Dev(d).protocol = "http" \/ Points(d) = <<>>
                                  THEN "merge" ELSE "ask"]
  /\ retry' = [retry EXCEPT ![d] = 1]
  /\ results' = [results EXCEPT ![d] = <<>>]
  /\ queue' = [queue EXCEPT ![client[d]] = Seen(@, d)]
  /\ UNCHANGED <<pool, conn, asked, splits, report, upVars, panicked>>

\* values = append(values, ...) for the next point; after the last one
\* ReadBatch returns.
Append1(d, v) ==
  /\ results' = [results EXCEPT ![d] = Append(@, v)]
  /\ pc' = [pc EXCEPT ![d] = IF Len(results'[d]) = Len(Points(d)) THEN "merge" ELSE "ask"]

Value(d, from, size, stale) ==
  [point |-> Len(results[d]) + 1, from |-> from, size |-> size, stale |-> stale]

\* The points the client of d was initialised with, which for bacnet are the
\* configuration's of the device it was made for: the names behind their keys.
Table(d) == Dev(client[d]).table

Good(d) == Value(d, "start", 2, FALSE)

\* What a read of the next point may give without a stream.  s7 and snmp: one
\* library call with a timeout.  bacnet: the simulated client's own table.
LibraryGives(d) ==
  LET addr == Points(d)[Len(results[d]) + 1].addr
  IN  IF Dev(d).protocol # "bacnet" THEN {Nil, Good(d)}
      ELSE IF addr \in DOMAIN Table(d) THEN {Good(d)} ELSE {Nil}

ReadLibrary(d) ==
  /\ pc[d] = "ask" /\ ~Streamed(d)
  /\ \E v \in LibraryGives(d) : Append1(d, v)
  /\ UNCHANGED <<pool, wire, retry, report, upVars, panicked>>

\* conn.Write, whose error is ignored; on a nil connection it ends the process.
Ask(d) ==
  /\ pc[d] = "ask" /\ Streamed(d)
  /\ IF conn[client[d]] = "none"
     THEN panicked' = TRUE /\ UNCHANGED <<pc, asked>>
     ELSE /\ pc' = [pc EXCEPT ![d] = "wait"]
          /\ asked' = [asked EXCEPT ![client[d]] = @ + IF conn[client[d]] = "up" THEN 1 ELSE 0]
          /\ UNCHANGED panicked
  /\ UNCHANGED <<pool, conn, queue, splits, loop, upVars>>

\* Mutant of ReadChunk: a deadline, after which the answer is not drained.
ReadChunkDeadline(d) ==
  LET o == client[d]
      q == queue[o]
  IN
  /\ pc[d] = "wait"
  /\ \/ /\ q # <<>>
        /\ Append1(d, IF q[1].size = 0 THEN Nil
                      ELSE Value(d, q[1].from, q[1].size, d \in q[1].since))
        /\ queue' = [queue EXCEPT ![o] = Tail(q)]
     \/ Append1(d, Nil) /\ UNCHANGED queue
  /\ UNCHANGED <<pool, conn, asked, splits, retry, report, upVars, panicked>>

\* conn.Read returns the first chunk, or all that has arrived; there is no
\* deadline.
ReadChunk(d) ==
  LET o == client[d]
      q == queue[o]
  IN
  /\ pc[d] = "wait" /\ q # <<>>
  /\ \E k \in {1, Len(q)}, n \in Sizes(o) :
       /\ IF k = 1 THEN n = q[1].size ELSE n >= q[1].size
       /\ Append1(d, IF n = 0 THEN Nil ELSE Value(d, q[1].from, n, d \in q[1].since))
       /\ queue' = [queue EXCEPT ![o] = SubSeq(q, k + 1, Len(q))]
  /\ UNCHANGED <<pool, conn, asked, splits, retry, report, upVars, panicked>>

\* Mutant of ReadFails: the same point is asked for again.
ReadFailsAgain(d) ==
  /\ pc[d] = "wait" /\ conn[client[d]] = "broken" /\ queue[client[d]] = <<>>
  /\ pc' = [pc EXCEPT ![d] = "ask"]
  /\ UNCHANGED <<pool, wire, retry, results, report, upVars, panicked>>

\* Read fails: the point is bad and the next one is tried.
ReadFails(d) ==
  /\ pc[d] = "wait" /\ conn[client[d]] = "broken" /\ queue[client[d]] = <<>>
  /\ Append1(d, Nil)
  /\ UNCHANGED <<pool, wire, retry, report, upVars, panicked>>

\* Mutant of ReadBatchErr: a batch without a good value is an error.
ReadBatchErrIfBad(d) == results[d] # <<>> /\ \A n \in DOMAIN results[d] : results[d][n] = Nil

\* None of these drivers returns an error from ReadBatch.
ReadBatchErr(d) == FALSE

\* v.PointID of the value read for point n: the address that was asked for, or
\* the name behind it in bacnet's table.
PointID(d, n) ==
  LET addr == Points(d)[n].addr
  IN  IF addr \in DOMAIN Table(d) THEN Table(d)[addr] ELSE addr

Keys(d, m) == {Points(d)[m].addr, Points(d)[m].name}

\* Mutant of Matches: the value goes to the first point.
MatchesFirst(d, n, m) == TRUE

\* v.PointID == p.Address || v.PointID == p.Name, where v was read for point n
Matches(d, n, m) == PointID(d, n) \in Keys(d, m)

\* Each value goes to the first point it matches, a later one over an earlier
\* one; a point without any is null.  (Point names are distinct keys.)
Merged(d) ==
  [m \in DOMAIN Points(d) |->
     LET mine == {n \in DOMAIN results[d] :
                    /\ Matches(d, n, m)
                    /\ \A k \in 1..m - 1 : ~Matches(d, n, k)}
     IN  IF mine = {} THEN Nil
         ELSE results[d][CHOOSE n \in mine : \A k \in mine : k <= n]]

\* Reconnect closes the connection and dials; it is nil when the dial fails.
Reconnect(o) ==
  /\ \E c \in {"up", "none"} : conn' = [conn EXCEPT ![o] = c]
  /\ asked' = [asked EXCEPT ![o] = 0]
  /\ queue' = [queue EXCEPT ![o] = <<>>]
  /\ UNCHANGED splits

\* readWithRetry: an error is retried, and after the last time the driver
\* reconnects.  Then, or without an error, the values are merged, go through the
\* edge rules (see EdgeRules; they leave the values alone) and are sent.
BatchReturns(d) ==
  /\ pc[d] = "merge"
  /\ IF ReadBatchErr(d) /\ retry[d] < MaxRetry
     THEN /\ retry' = [retry EXCEPT ![d] = @ + 1]
          /\ results' = [results EXCEPT ![d] = <<>>]
          /\ pc' = [pc EXCEPT ![d] = "ask"]
          /\ UNCHANGED <<wire, report, upVars, panicked>>
     ELSE /\ report' = [report EXCEPT ![d] = Merged(d)]
          /\ IF ReadBatchErr(d) THEN Reconnect(client[d]) ELSE UNCHANGED wire
          /\ results' = [results EXCEPT ![d] = <<>>]
          /\ pc' = [pc EXCEPT ![d] = "send"]
          /\ Up!SendToAll(d)
          /\ UNCHANGED retry
  /\ UNCHANGED pool

\* ApplyRules on the engine that all goroutines and the SIGHUP handler share
\* without a lock: an overlapping access ends the process (EdgeRules!Race).
RulesRace(d) ==
  /\ pc[d] = "merge"
  /\ panicked' = TRUE
  /\ UNCHANGED <<pool, wire, pc, loop, upVars>>

SendStep(d) ==
  /\ pc[d] = "send"
  /\ Up!SendReturns(d) \/ Up!SendPanics(d)
  /\ UNCHANGED <<pool, wire, pc, loop>>

SendHangs(d) ==
  /\ pc[d] = "send"
  /\ Up!SendBlocks(d)
  /\ UNCHANGED <<pool, wire, pc, loop>>

\* SendToAll has returned and the ticker fires.
Tick(d) ==
  /\ pc[d] = "send" /\ Up!Sent(d)
  /\ at' = [at EXCEPT ![d] = 0]
  /\ tried' = [tried EXCEPT ![d] = {}]
  /\ pc' = [pc EXCEPT ![d] = "cycle"]
  /\ report' = [report EXCEPT ![d] = <<>>]
  /\ UNCHANGED <<pool, wire, retry, results, channels, built, uplinks, blocked, panicked>>

Build == Up!AddUplink /\ UNCHANGED <<pool, wire, pc, loop>>

Loop(d) ==
  \/ BeginCycle(d) \/ ReadLibrary(d) \/ Ask(d) \/ ReadFails(d)
  \/ BatchReturns(d) \/ SendStep(d) \/ Tick(d)

Next ==
  /\ ~panicked
  /\ \/ Build
     \/ \E d \in Devices : \/ Setup(d) \/ Answer(d) \/ Break(d)
                           \/ Loop(d) \/ ReadChunk(d) \/ SendHangs(d) \/ RulesRace(d)

\* Goroutines are scheduled, library calls and http uplinks time out, tickers
\* fire, and the readers of a connection take turns (the fd lock of net.Conn).
\* Nothing is assumed of the devices, nor of the MQTT broker.
Fairness ==
  \A d \in Devices :
    /\ WF_vars(~panicked /\ Loop(d))
    /\ SF_vars(~panicked /\ ReadChunk(d))

Spec == Init /\ [][Next]_vars /\ Fairness

(***************************************************************************)
(* Properties                                                              *)
(***************************************************************************)

\* manager.go:65: a report that SendToAll has returned from was handed to every
\* uplink that was built, for each of the goroutines that send.
EveryUplinkTried == Up!EveryUplinkTried

\* Streams are written to and read from without a test of the connection: no
\* sequence of lost connections, failed reads and other goroutines' cycles on the
\* same client leaves a goroutine in a read with a nil one.
Dialled ==
  \A d \in Devices : pc[d] \in {"ask", "wait"} => conn[client[d]] # "none"

\* A port in halves.
Amount(p) == IF p.go = "float64" THEN p.v ELSE 2 * p.v

\* getOrCreateClient: a device gets a client of its own protocol, made for its own
\* ip unless one of the two is not written as a string, and for its own port, up
\* to a fraction, unless one of the two is not written as a number.
OwnEndpoint ==
  \A d \in Devices : client[d] # Nil =>
    LET o == client[d]
        goTypes(key) == {Effective(o, key).go, Effective(d, key).go}
    IN  /\ Dev(o).protocol = Dev(d).protocol
        /\ goTypes("ip") = {"string"} => Effective(o, "ip").v = Effective(d, "ip").v
        /\ goTypes("port") \subseteq Numeric =>
             /\ Amount(Port(o)) < Amount(Port(d)) + 2
             /\ Amount(Port(d)) < Amount(Port(o)) + 2

\* The points no other point can be taken for: no other has its name or address,
\* and the client gives the others' values under a name or address of theirs.
Clean(d) ==
  {m \in DOMAIN Points(d) : \A k \in DOMAIN Points(d) \ {m} :
     Keys(d, k) \cap Keys(d, m) = {} /\ PointID(d, k) \in Keys(d, k)}

\* main.go:389: such a point is reported with the value read for it, or null.
OwnValue ==
  \A d \in Devices : pc[d] = "send" =>
    \A m \in Clean(d) : report[d][m] # Nil => report[d][m].point = m

\* No other device uses d's connection, and none of its answers was split.
Alone(d) == splits[client[d]] = 0 /\ \A e \in Devices \ {d} : client[e] # client[d]

\* A good value of d has the bytes it is decoded from, except with slmp, and is
\* an answer of this cycle, from its start, when d has the connection for itself.
Fresh(d, v) ==
  /\ v.size = 2 \/ Dev(d).protocol = "slmp"
  /\ Alone(d) => v.from = "start" /\ ~v.stale

\* A value marked good has the bytes it is decoded from, except with slmp, and is
\* an answer made in the cycle that reports it, read from its start, unless the
\* connection is shared or one of its answers was split.
FreshUnless ==
  \A d \in Devices : pc[d] = "send" =>
    \A m \in DOMAIN report[d] : report[d][m] # Nil => Fresh(d, report[d][m])

\* Every cycle gets to its end unless the process ends, the MQTT uplink blocks,
\* or the goroutine waits for ever in a Read that nothing arrives for.
KeepsCycling ==
  \A d \in Devices :
    (pc[d] = "cycle") ~> \/ panicked \/ d \in blocked
                         \/ pc[d] = "send" /\ Up!Sent(d)
                         \/ [](pc[d] = "wait" /\ queue[client[d]] = <<>>)

(***************************************************************************)
(* The inductive invariant                                                 *)
(***************************************************************************)

Chunks == [from : {"start", "middle"}, size : 0..2, since : SUBSET Devices]
PCs == {"idle", "skipped", "cycle", "ask", "wait", "merge", "send"}

PoolTypeOK ==
  /\ settings \in Settings /\ pooled \subseteq Devices
  /\ client \in [Devices -> pooled \cup {Nil}]

WireTypeOK ==
  /\ conn \in [Devices -> {"none", "up", "broken"}]
  /\ asked \in [Devices -> Nat] /\ splits \in [Devices -> Nat]
  /\ queue \in [Devices -> Seq(Chunks)]

LoopTypeOK ==
  /\ pc \in [Devices -> PCs] /\ retry \in [Devices -> Nat]
  /\ results \in [Devices -> Seq(Values \cup {Nil})]
  /\ DOMAIN report = Devices

SendTypeOK ==
  /\ channels \in Seq(ChannelConfs)
  /\ built \in Nat /\ uplinks \in Seq(STRING)
  /\ at \in [Devices -> Nat] /\ tried \in [Devices -> SUBSET Nat]
  /\ blocked \subseteq Devices /\ panicked \in BOOLEAN

TypeOK == PoolTypeOK /\ WireTypeOK /\ LoopTypeOK /\ SendTypeOK

\* A goroutine that runs has a client, which was made by the device it is named
\* after, for the same key; only connections of streams are ever lost.
PoolInv ==
  /\ \A d \in Devices : client[d] # Nil <=> pc[d] \notin {"idle", "skipped"}
  /\ \A d, o \in Devices : client[d] = o => PoolKey(o) = PoolKey(d)
  /\ \A o \in pooled : client[o] = o /\ conn[o] # "none"
  /\ \A o \in Devices \ pooled : conn[o] = "none" /\ asked[o] = 0 /\ queue[o] = <<>>
  /\ \A o \in Devices : conn[o] = "broken" => Streamed(o) /\ asked[o] = 0

\* The channels are complete before a goroutine starts; SendToAll has handed
\* the report to those before the one it is at.
SendInv ==
  /\ \A d \in Devices : pc[d] # "idle" => Up!Ready
  /\ \A d \in Devices : at[d] > 0 =>
       /\ pc[d] = "send" /\ at[d] <= Len(uplinks) + 1
       /\ tried[d] = 1..at[d] - 1

\* A ReadBatch has one value for each point it has gone through, and the n-th is
\* bad or was read for the n-th point.
ResultsOK(d) ==
  /\ Len(results[d]) <= Len(Points(d))
  /\ pc[d] \in {"ask", "wait"} => Len(results[d]) < Len(Points(d))
  /\ pc[d] \in {"idle", "skipped", "cycle", "send"} => results[d] = <<>>
  /\ \A n \in 1..Len(results[d]) : results[d][n] # Nil =>
       results[d][n].point = n /\ Fresh(d, results[d][n])

ResultInv == \A d \in Devices : ResultsOK(d)

\* The sizes are those of the driver.  A goroutine that has the connection for
\* itself has asked for, or can read, at most one answer, and only while it
\* waits; so no chunk is left when a cycle begins.
QueueInv ==
  /\ \A o \in Devices : \A n \in 1..Len(queue[o]) : queue[o][n].size \in Sizes(o)
  /\ \A d \in Devices : (client[d] # Nil /\ Alone(d)) =>
       /\ asked[client[d]] + Len(queue[client[d]]) <= (IF pc[d] = "wait" THEN 1 ELSE 0)
       /\ \A n \in 1..Len(queue[client[d]]) :
            queue[client[d]][n].from = "start" /\ d \notin queue[client[d]][n].since

\* What is being sent.
ReportOK(d) ==
  pc[d] = "send" =>
    /\ DOMAIN report[d] = DOMAIN Points(d)
    /\ \A m \in DOMAIN Points(d) : report[d][m] # Nil =>
         /\ Fresh(d, report[d][m])
         /\ m \in Clean(d) => report[d][m].point = m

ReportInv == \A d \in Devices : ReportOK(d)

IInv == TypeOK /\ PoolInv /\ SendInv /\ ResultInv /\ QueueInv /\ ReportInv
=============================================================================
