# sensor-edge: a verification development

TLA+ specifications, TLC configurations and TLAPS proofs for `sensor-edge`, an
edge gateway in Go that polls field devices, runs local rules over the values and
pushes reports upstream. The modules are written from the Go source. Line numbers
refer to the files of this repository.

## 1. Inventory

| Component | State | Operations | Interacts with |
|---|---|---|---|
| Client pool and collection loops (`main.go`) | `clientCache`; one goroutine per device; per-cycle maps | set-up loop, `getOrCreateClient`, `readWithRetry`, the cycle, SIGHUP | shares one driver object per endpoint, one rule engine and one uplink manager between goroutines, without locks |
| Modbus/TCP driver (`protocols/modbus`) | `handler`, `client`, `slaveId`, `lock` | `Init`, `SetSlave`, `ForceReconnect`, batch reads, read wrappers, writes | only `ForceReconnect` takes the lock |
| Modbus batch planner (same file) | local to a call | sort, merge into requests, cut replies | the requests of one `ReadBatch` |
| Edge rule engine (`edgecompute`, `types/edge_rule.go`) | rule slices, `Buffers`, `LastAlarms` | `ApplyRules`, reload | written by every device goroutine and the SIGHUP goroutine |
| Sparkplug B outbound queue (`uplink/sparkplugb/queue.go`) | `queue`, a `Storage` | `Enqueue`, `Process`, reload at start | publisher and store, both of which may fail |
| Scheduler (`core/scheduler.go`) | runners: ticker, stop channel | three `StartScheduler` functions, `SetInterval` | goroutine and caller share `r.Ticker` |
| BACnet client (`protocols/bacnet/bacnet.go`) | points, two alias maps, `connected` | `Init`, `Read`, `ReadBatch`, `Write`, `Close`, `Reconnect` | all under one lock |
| BACnet discovery (`protocols/bacnet/discover.go`, `main.go:187-207, 263-288`) | `devMap`; pollers; main's own device map | two listeners, two parsers, two registration functions, template files, polling, Who-Is | both listeners bind port 47808; the first registration of a device wins |
| Point pipeline (`main.go:387-480`, `utils/format_parser.go`) | none | format, transform, type conversion | between driver and report |
| Uplink manager (`uplink/`) | list of uplinks | `NewUplinkManagerFromConfig`, `SendToAll` | called by every goroutine; errors are logged and dropped; MQTT may block |
| Device manager (`core/device_manager.go`) | `Devices` map | `Register`, health monitors | unlocked map |
| Configuration merge (`main.go:62-81, 290-329`) | none | precedence of device, metadata and protocol parameters | decides the pool key, and what the drivers' `Init` asserts types of |
| Other drivers (`tcpclient`, `slmp`, `s7`, `snmp`, `httpclient`) | a connection | `Init`, `ReadBatch`, `Reconnect` | one object per pool key, shared without a lock; `main.go` does not import them (see below) |
| Report encoder, loaders, TLS, subscription, API server, CLI, front end | little or none | library calls, placeholders | - |

`main.go:14-15, 29` imports the drivers `bacnet` and `modbus` only. The other five register
themselves in their `init` functions, which do not run in the program as it is built:
`protocols.Create` returns an error for them and their devices are skipped. What is said below of
those drivers holds for a build that imports them.

What is hard here: goroutines that share unlocked objects; a reconnection in two
steps that others see in between; retries and give-ups across several counters;
reloading rules under running loops; a queue that has to survive crashes and a
store whose errors are ignored; a ticker replaced under a waiting `select`; two
listeners that want one port; streams read without a deadline or framing, by several
goroutines; type assertions on merged configuration; 16-bit address arithmetic at
its limits. `PROJECT.json` lists each as a hazard at its
line, with the property that would catch it, or the reason there is none yet.

What makes each part correct: values come from the device they are reported for
and every cycle gets to its report (collector); requests are legal, cover their
points and nothing else (batches); windows hold the right samples and reloaded
rules come into force (rules); nothing is lost before it is delivered and nothing is
counted twice (queue); runners sample until they are stopped (scheduler); every key
of a point leads to it (BACnet client); a device has one poller while it is online and
keeps its entry (discovery); values are decoded in the order their format names and
have the type the rules need (pipeline); a device reads its own endpoint, a point gets
its own and a fresh value, and every uplink gets every report (gateway).

## 2. Modules

| Module | Models | Run by |
|---|---|---|
| `Collector` | set-up, pool and collection loops of `main.go` over shared `ModbusTCP` objects | `MCCollector` with three configurations |
| `CollectorProofs` | its inductive invariant and safety theorems | - |
| `ModbusBatch` | one `ReadBatch` call: the batch planner, all four function codes | itself |
| `ModbusBatchProofs` | its safety theorems | - |
| `Outbox` | abstract specification: what an outbound queue with a store promises | through `OutboundQueue` |
| `OutboundQueue` | `queue.go` with store errors, crashes and restarts | itself |
| `OutboundQueueProofs` | its safety theorems and the refinement of `Outbox` | - |
| `EdgeRules` | `RuleEngine` as `main.go` uses it, SIGHUP | `MCEdgeRules` with two configurations |
| `EdgeRulesProofs` | its invariant of the windows and the theorem | - |
| `Scheduler` | `core/scheduler.go` | itself |
| `BacnetClient` | `bacnet.go` | `MCBacnetClient` |
| `BacnetClientProofs` | its invariant and safety theorems | - |
| `Discovery` | `discover.go`, and the goroutines and the Who-Is of `main.go` | itself |
| `DiscoveryProofs` | its invariant, safety theorems and action property | - |
| `PointPipeline` | `main.go:387-474`, `format_parser.go` | `MCPointPipeline` |
| `PointPipelineProofs` | its two theorems | - |
| `Uplinks` | `uplink/manager.go` and its channels | inside `Gateway` |
| `Gateway` | configuration merge, pool and loops of `main.go` over the drivers other than Modbus, composed with `Uplinks` | `MCGateway` |
| `GatewayProofs` | its invariant and safety theorems, those of `Uplinks` with them | - |

### How state and actions correspond to the code

**Collector.** An object `ModbusTCP` is named after the device whose set-up created
it. `handler[o]` is the `SlaveId` in the object's handler, or `Nil` while `m.handler`
and `m.client` are nil (the code always sets both together). `slaveId[o]` is
`m.slaveId`, which only `Init` writes; `lock[o]` the holder of `m.lock`. A device's goroutine is
a program counter with the loop counters `grp`, `retry`, `bat`. A register is
abstracted to the slave id in the frame that fetched it, so a report is a set of
slave ids. `GetOrCreateClient` and `StartDevice` are the body of main's
set-up loop (main is sequential: `setup`); they interleave with the goroutines
already started. `BeginCycle` is `SetSlave` and the new maps, `ReadCall` the encoding of
the frame, `ReadReturns`/`ReadError`/`AddressError` the ends of a request,
`ReconnectClose` and `ReconnectDial` the two halves of `ForceReconnect`, `ReadNilClient`
the call on a nil interface. `SetSlave` is one step: no store lies between its test of `m.handler` and
the write through it, so the compiled code loads the pointer once, and a write into a handler
that `ForceReconnect` has just closed has no effect on later requests. Sleeps and logging are left out.

**ModbusBatch.** `pts` is `addrPoints` after `sort.Slice` (any order of equal addresses), `i`,
`j`, `end`, `maxAddr` the loop variables. `Add` and `Sub` wrap at `U16`. "regs" stands
for function codes 03 and 04, "bits" for 01 and 02. A reply may be whole, short or an
error; a short bit reply indexes beyond the slice and ends in `panic`. `need` ranges over
all register counts: `ReadBatch` passes the empty format (one register), and
`ReadBatchWithFormat` is exported for the rest.

**OutboundQueue.** `Process` holds `q.mu`, so it is `ProcessBegin`, one `PublishOk` or
`PublishErr` per message and `ProcessEnd`, with `todo` what the range has not reached.
`Save`, `Delete` and `LoadAll` may each fail silently, as the code ignores their errors;
a failed publish may have reached the broker. `Crash` is possible at any point and
`Restart` is `NewOutboundQueue`. `life`, `acked`, `dropped`, `attempts` are history of the
running process, `submitted`, `saved`, `delivered` of all.

**EdgeRules.** `ApplyRules` and what main does with it are `Reset` of `LastAlarms`,
`Aggregate` (`range` takes the slice of rules as it is then, `todo`), one `AggRule` per rule
of the device, `Alarm` (the linkage rules after it only print; the condition is evaluated on a null value
too) and `Collect`, main's collection of results. A device id and a point name are the sequences of
segments between their dots, and a `Key` is the two joined, so that two devices may spell one key; `Sole(d)` says
that none shares d's. `Adds` is `PointBuffer.Add`; where two goroutines are at one buffer it may also lose
an append or a cut. Rule files are versions; `SIGHUP` assigns `AggRules`, then `AlarmRules` and
`LinkageRules`; a failed load leaves none. `Touches`, `Writes` and `Reloads` say which
fields a step accesses; `Race` lets two overlapping accesses, one of them a write,
end the process. `fed` is the history of a device's samples.

**Scheduler.** A goroutine's `select` reads `r.Ticker.C` when it is entered; `stale` says
that `r.Ticker` has been replaced since. Ticks of a stopped ticker are not received
(Go 1.23 and later; `go.mod` asks for 1.24). `ReadFails` is the `continue` of a failed `Client.Read`,
`ReadReturns` and `ApplyRules` what follows a good one, `RulesRace` the fatal race of two goroutines in
the one `RuleEngine`, and `SendReturns`, `SendBlocks`, `SendPanics` the ends of `SendToAll`, which
only the third start function calls. `Timed` are the devices whose driver's `Read` has a timeout. `Stop` and the
calls of `SetInterval` are an external user's: nothing in the repository calls them.

**BacnetClient.** Methods are atomic under `c.lock`. `Read` and `ReadBatch` change nothing and are operators. Keys are one
set of strings, so names, addresses and ids may collide. A stored value may be nil, which reads as the default of
the point's type (`Shown`); `ReadBatch` passes what it shows through the point's transform (`Transformed`),
of which the model keeps for which values it evaluates. `WritePanics` is `reflect.TypeOf(nil).Kind()`.

**Discovery.** A packet is what the parsers look at: its length, bytes 1 and 4, the two
APDU bytes, the device id. `parseIAM` rejects a packet only when bytes 1 *and* 4 are
wrong, `ParseIAm` when either is. `port` is who holds UDP 47808; another program may hold
it from the start. The loser is `iam = "returned"` for `ListenIAM`, which returns its
error, and `panicked` for main's listener, which drops the error and dereferences the
nil address. `RegisterDevice` is one step (under `mu` to its end);
`RegisterAndStartPolling` is two, since it starts its goroutines after the unlock.
`pollOnce` is a placeholder that always succeeds (`PollOutcomes = {TRUE}`); the run lets
it fail too, as `startPolling` provides for. Every answer to the Who-Is gets the same
placeholder id, so main's map keeps the first one's address.

**PointPipeline.** A byte of a value is its position in what the device sent, so a
decoding is a permutation and can be compared with the letters of the format's name.
`Adapt`, `Format`, `Transform`, `Type` are the four parts of the loop body. `Transform`
leaves `val` alone because `val, err := parseTransform(...)` declares a new one.

**Uplinks and Gateway.** A value of the configuration is its Go type and its content, a `float64`
port in halves; `Effective` is the merge, `PoolKey` (with `Whole`, Go's `int(v)`) and `InitPanics` what
`getOrCreateClient` and `Init` make of it, `Registered` whether `protocols.Create` knows the driver. An object is
named after the device it was made for. Its connection is the
number of unanswered requests and a queue of chunks, each with whether it starts an
answer, whether it has the bytes the driver tests for and those it uses, and which
devices have begun a new cycle since it arrived. `Ask` and `ReadChunk`/`ReadFails` are
`conn.Write` and `conn.Read`, `ReadLibrary` a call of the s7 or snmp library (external,
with its timeout) or a look into the table of the bacnet client, which gives the value under the point's name there
(`PointID`). `BatchReturns` is `readWithRetry` with the merge into
`allPointValues`. None of these drivers returns an error from `ReadBatch`, so `Reconnect`
is there and never reached; the mutant of `Dialled` shows what it would do. `RulesRace` is the race in
`ApplyRules` that ends the process. One function group per device is modelled; several, and the rules between read and
report, are in `Collector` and `EdgeRules`.

## 3. Runs

| Run | Instance | Shows |
|---|---|---|
| `collector` | 3 devices (two slaves behind one gateway, one alone; two requests in a group; a group with a bad address), 2 attempts | `TypeOK`, `EndpointIsolation`, `OneClientPerEndpoint`, `ReconnectExclusive`, `KeepsReporting` |
| `collector_crosstalk` | the two devices that share a client | **violation** of `SlaveIsolation` (main.go:360) |
| `collector_panic` | the same | **violation** of `SurvivesDisconnect` (modbus_tcp.go:301) |
| `modbus_batch` | 3 points of 1, 2 or 4 registers over 11 addresses, at most 5 registers or 2 bits a request | `QuantityLegal`, `Covers`, `NoStrayRegister`, `EveryPointOnce` |
| `outbound_queue` | 3 messages, 2 attempts, 2 crashes | `Durable`, `Accounted`, `RetryBudget`, `NoDuplicate`, refinement `OutboxSpec` |
| `edge_rules` | 2 devices, one with 2 groups and 2 distinguishable cycles; keys that differ, and keys that collide; a reload with other windows and alarm rules and one that fails; windows up to 2 | `WindowSuffix`, `ReloadTakesEffect` |
| `edge_rules_alarms` | the same | **violation** of `AlarmsReported` (README.md:19) |
| `scheduler` | 2 runners, one with a timed `Read`, intervals 0 and 1 | `StopEnds`, `KeepsSampling` |
| `bacnet_client` | lists of 1 or 2 points over 4 keys, with collisions, with and without transform, values and nil | `ReadsBack`, `AliasClosed`, `ValuesAllowed`, `OwnPoint` |
| `discovery` | 2 device ids, 2 addresses, the port free or taken, 3 failures, 2 answers | `TypeOK`, `PolledIffOnline`, `EntriesKept`, `TemplateOrEnd` |
| `point_pipeline` | every format in right and wrong case, 3 types, with and without transform, the Go types the drivers return, byte strings of 0 to 9 bytes | `NamedOrder`, `FloatUnless` |
| `gateway` | 2 devices, 10 configurations (two of the build as it is: a driver that is not linked, and two bacnet devices that share a client by a fraction of a port; eight with all drivers linked: shared by string port, apart, an injected port, an ip that is no string, s7 on one ip and on two, http with slmp, an empty list of points; 0 to 3 uplinks), 1 split answer a connection, 2 attempts | `EveryUplinkTried`, `Dialled`, `OwnEndpoint`, `OwnValue`, `FreshUnless`, `KeepsCycling` |

Every property of a passing run has a mutant in the module it is about (`Mutant of ...`):
a definition changed the way a plausible bug would change it, under which TLC finds the
property violated.

**Bounds and why they are enough.** The collector's loops are cyclic, so its state
space is finite without a bound on cycles; two devices on one client give every
overlap, the third shows that endpoints do not mix, and two attempts reach both
the retry and the give-up. Three points make a batch that overlaps, a gap and a
limit in one call; the address space is scaled from 65536 to 11 so that wrapping
and the limit of a request are met by ordinary inputs, and the theorems cover
the real numbers. The queue's messages are each enqueued once; two crashes
reach a crash during the recovery from one. The cycle number of `EdgeRules` wraps, so
loops are unbounded; only the windows and the history are cut at `MaxWindow`, and `Excess` bounds how
far races leave a shared window over its size (each lost cut adds one, and the windows
the property is about never get there).
Two ids and two addresses give discovery a device that is announced from a second
address while it is polled; the failures are the code's 3. The pipeline's inputs are all
there are up to the numbers themselves. The gateway's cycles are unbounded, and only
the split answers are cut: after one, the stream is a chunk behind until a
read takes all of it, which is the state a further one would only repeat.
`CHECK_DEADLOCK FALSE` is used where the process may die (a panic or a fatal race)
or a call ends; the queue is checked for deadlock.

**Fairness.** Goroutines are scheduled, tickers fire and a Modbus request or a dial
ends with its 5 s timeout (a BACnet read is a look into a table): weak fairness of the loops of `Collector` and
`EdgeRules`, whose drivers are these. In `Scheduler` only the reads of `Timed` devices are assumed to end:
`tcp_client.go:30`, `slmp.go:35` and `http_client.go:51` wait without a timeout, and `StopEnds` and
`KeepsSampling` except a goroutine that is left in such a read. `sync.Mutex` hands the lock to a
waiter after 1 ms of starvation: strong fairness of taking it. A Go `select` chooses among
ready cases at random: strong fairness of taking `Stop`. A handler that has been started
finishes: weak fairness of the rest of the SIGHUP loop and of `SetInterval`. The fd lock of
a `net.Conn` lets readers in turn: strong fairness of reading a chunk in `Gateway`. In `Discovery` the goroutines
that bind, spawn and write a template are scheduled; no packet is assumed. Nothing is assumed of
users (signals, `SetInterval`, `Stop`), of the field devices of `Gateway`, whose answers are read
without a deadline (`KeepsCycling` excepts a goroutine left waiting on a silent connection), or of uplinks: MQTT's `token.Wait` has no timeout, so sending may block for
ever, and the liveness properties except the goroutine it happens to. A panic or fatal
race ends the process, and they except that.

## 4. Proofs

TLAPS checks these for every value of the constants that satisfies the assumption
named in each module. The assumptions say what the code guarantees or the constants
mean: functions with the right domain and positive limits; request limits below
the address space (`BatchAssumption`); that `Nil` is none of the values it is told from;
lists of points, channels and rules are sequences of any length; and the Go types and
sizes of the values drivers return, those of no number (lists, object ids) as one type "other" (`RawsAssumption`). TLC evaluates every one of them.

- **Collector.** The invariant `IInv` adds to the types `PoolInv` (a started device has a
  client, it is the pooled one, and it was created for its key), `SlaveInv` (every
  slave id held by an object, a frame or a partial result is configured behind that
  endpoint) and `LockInv` (who dials holds the lock of an object without handler). The
  properties are not inductive alone: a report is safe because the values it takes
  were, those because the frame was, that because the handler was, and the handler
  because of `m.slaveId` and the pool's keys. From it: `TypeCorrect`, `EndpointSafe`,
  `PoolSafe`, `ReconnectSafe`, and `SlaveSafe`: where devices of an endpoint have one
  slave id, reports carry that device's registers only. That is the exact border of
  the cross-talk the run `collector_crosstalk` shows.
- **OutboundQueue.** `IInv` is the four properties with `QueueInv` (what holds between
  calls, while down, and of messages not met). `Refinement` shows that every step
  is a step of `Outbox` or a stutter under `pending <- Ids(Pending)`, `durable <- storage`.
- **ModbusBatch.** `IInv` is the order of the points, where the loops are and the
  properties of the batch being scanned. `NoStraySafe` needs `Covers`' argument that the
  batch is one interval; sorting and the wrap at `U16` are used in every step.

- **Gateway.** `IInv` is in parts, one per piece of state: `PoolInv` (a client in use is an
  object that was dialled for a device with the same key), `SendInv` (the uplinks tried
  are those before `at`), `ResultInv` and `ReportInv` (what is read and reported belongs to the
  point, and is fresh where the connection is the device's own), `QueueInv` (a goroutine alone on a
  connection that was never split has at most one answer asked for or readable, from its
  start, and only while it waits). Freshness is not inductive alone: that a value is of this cycle rests on the
  chunks in the queue, which rest on there being one request at a time, which
  rests on nobody else using the object. `OwnEndpoint` needs what `int(v)` leaves of two ports that are equal after it. `OwnValue` needs that the merge's inner loop ends at the
  first match and its outer one overwrites, for which `Greatest` picks the last answer.
- **Discovery.** `IInv` adds to the properties `PortInv` (who serves holds the port), `SpawnInv` (the
  device between its registration and its goroutine is registered, online and without a
  poller), `FailInv` (an online device is below the failure limit) and `TemplateInv`. `RegistryKept` is
  an action property; `NoTemplateMissing` the safety part of `TemplateOrEnd`.
- **BacnetClient.** `IInv` says that the whole table is a function of the last list and of
  the values accepted since: points (`PointInv`), aliases (`AliasInv`), and that accepted
  values passed the checks (`AcceptedInv`). A read is then the accepted or configured value, its default and its transform. The four properties follow from what `LastWith` returns
  for lists of any length, with names, addresses and ids repeated or mixed in any way.
- **EdgeRules.** `WindowInv` says of each device whose key is its own that the window has as many samples as it
  may and that they are the last ones of the device's history; `LoopInv`
  that a goroutine in the aggregate loop has a rule and a value. The
  content is `AddKeepsSuffix` (cutting window and history after each sample, at different
  lengths, keeps the one the end of the other) and `SoleAdds` (nobody races at such a window, so an `Add` is whole).
- **PointPipeline.** `StageInv` is the composition of the stages so far. `DecodeOrder` shows that
  each of the fourteen formats but "Long CD AB" picks the bytes its name spells from a
  string of any length, and that "Long CD AB" too loses none, and `NumericFacts` goes through the drivers' Go types.

Only model-checked: the liveness properties (`KeepsReporting`, `ReloadTakesEffect`, `StopEnds`,
`KeepsSampling`, `KeepsCycling`, `TemplateOrEnd`), since the prover does not treat fairness and
`ENABLED`. These are all the properties of `Scheduler`, so it has no theorem. The three
properties of the violation runs are false and have none either; `SlaveSafe` proves where the
first of them holds.

## 5. Findings

1. `main.go:360` says forcing the slave id prevents cross-talk; it does not when devices share a client.
2. `modbus_tcp.go:301` (also 390, 479, 536) says reconnection is integrated in batch reads; they
   call the raw client, which is nil during and after a failed reconnection.
3. `README.md:19` and `main.go:503` say alarms and results are reported; the variables
   that hold them end with the group's iteration.

Where the repository's words and the code disagree without a run that shows it as a violation. The models
follow the code, and no property of a passing run asserts either side:

- `README.md:10` promises goroutines that reconnect after a disconnection. There are none: Modbus reconnects in
  `readWithRetry` (`Collector`), and the other stream drivers never do, since their `ReadBatch` returns no
  error (`ReadBatchErr` of `Gateway`); after a lost connection every value is null.
- `main.go:187` and `discover.go:58` say that `ListenIAM` listens and registers devices. When it binds the port first,
  main's own listener (`main.go:198`) gets no connection and ends the process; in every process that goes on after both have tried, `ListenIAM`
  has returned an error. Which of the two happens is the order of two goroutines (`IAMBind`, `ListenerBind`).
- `format_parser.go:15` names a format "Long CD AB"; line 50 decodes it as "Long BA DC". `NamedOrder` asserts
  of this format only that no byte is lost.
- `README.md:13` and the comment at `main.go:434` say that the transform is applied. Line 436 assigns its result to a new
  variable, and the value is reported untransformed (`Transform`). `NamedOrder` leaves points with a transform out. (The
  transform the bacnet client applies itself, `bacnet.go:255`, is in `ReadsBack`.)
- `rule_engine.go:19` calls the key of a buffer "device.point"; an id "a" with a point "b.c" and an id "a.b" with a point "c"
  spell the same one and share the window. `WindowSuffix` is about the other keys.

Behaviour the passing runs describe, each as the exception a property spells out:

- `scheduler.go:247`: a runner whose ticker `SetInterval` replaces while it waits never
  samples again (`stale` in `KeepsSampling`).
- `main.go:455`: a `uint` (which `UINT` makes of a register), an `int16` (which `INT` makes of
  bytes) and what is no number stay as they are in a point of type float, and the aggregate rules skip them (`FloatUnless`).
- `main.go:122`: ports 502 and 502.5 have one pool key, and a port written as a string counts as 0, so that such devices
  share the client of the first device of their ip (`OwnEndpoint`).
- `bacnet.go:299`: writing nil to a point with a property type ends the process (`WritePanics`); nothing in the
  repository writes.
- `manager.go:56`: a Redis uplink is built without a client and ends the process at its first report (`SendPanics`).

And of the drivers `main.go` does not link:

- `main.go:76`: a port given only in `protocols.yaml` is hidden by the injected one, and
  the assertion in the `Init` of slmp, tcpclient or snmp ends the process (`SetupPanics`).
- `tcp_client.go:56`, `slmp.go:67`: an answer in two segments shifts all later ones, and two
  goroutines on a connection take each other's (`FreshUnless`); `slmp` decodes two bytes beyond the 14 it asks for.

## 6. Plan

Every component that keeps a state and that something in the repository creates or exports for use is modelled
(`DeviceManager` keeps one and is not, see below), and every invariant and action property of
the passing runs is proved. What could still be proved:

1. the exact borders of the other two findings: that without a failed request no client is nil
   in `Collector`, and that the alarms of `EdgeRules` reach `LastAlarms` when one goroutine runs;
2. that `Scheduler` samples only while its runner is not stopped (the safety part of `StopEnds`);
3. that `Gateway` and `Collector` refine one abstract specification of a polling loop.

Not modelled, and why:

- the read wrappers, writes and `Close` of the Modbus driver; `Write` and `Close` of the other
  drivers, and their `Read` beyond its step in `Scheduler`; `DeviceManager`; the point mapper (except `EvalExpression`, a choice in `EdgeRules`): nothing in the repository calls them;
- the Sparkplug B uplink around the queue, subscription and TLS: message
  building and library calls without state of their own; the constructor passes a
  nil store, so no object of it ever exists;
- YAML loading, the encoder, logging, rounding, the expressions of transforms;
- the API server, the CLI and the front end: handlers over files and placeholders.

A device interval that is not positive makes `time.NewTicker` panic in main's goroutines
as it does in the scheduler; `Collector` and `Gateway` assume positive intervals. Real BACnet/IP
frames have other bytes where the parsers look, so that few I-Am packets would match them;
`Discovery` takes any packet that does.
