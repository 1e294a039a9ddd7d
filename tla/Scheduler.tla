------------------------------ MODULE Scheduler ------------------------------
(***************************************************************************)
(* core/scheduler.go: the three StartScheduler functions, the goroutine of *)
(* a DeviceRunner and SetInterval.  Only the third function's goroutines   *)
(* send what they read.                                                    *)
(*                                                                         *)
(* Devices are started one after the other; a device that cannot be        *)
(* created ends the start with an error and no runners, while the          *)
(* goroutines started before it go on.  A goroutine selects over the       *)
(* channel of the ticker r.Ticker points to when it enters the select, and *)
(* over r.Stop.  SetInterval stops that ticker and puts a new one in its   *)
(* place.  A runner has at most one ticker that is not stopped, so a       *)
(* ticker is told apart only as the one r.Ticker points to, or an old one. *)
(***************************************************************************)
EXTENDS Integers

CONSTANTS
  N,          \* number of devices
  Timed,      \* devices whose driver's Read has a timeout (modbus, bacnet, s7, snmp);
              \* those of tcpclient, slmp and http wait as long as it takes
  Seconds     \* values of dev.Interval (0 when the file does not give it) and
              \* arguments of SetInterval

ASSUME SchedulerAssumption ==
  N \in Nat \ {0} /\ Seconds \subseteq Int /\ Timed \subseteq 1..N

VARIABLES
  sends,     \* this is StartSchedulerWithRuleEngineAndUplink
  next,      \* the device StartScheduler creates next
  result,    \* "starting", "runners" or "error", what StartScheduler returns
  pc,        \* [1..N -> where the goroutine is]: "none", "loop", "select", "read",
             \* "rules", "send", "blocked" or "gone"
  live,      \* the ticker in r.Ticker runs
  due,       \* it has fired and nobody has received the tick
  stale,     \* the select waits for a ticker r.Ticker no longer points to
  stopped,   \* r.Stop is closed
  setting,   \* SetInterval has stopped the ticker and not replaced it yet
  panicked   \* the process has ended

vars == <<sends, next, result, pc, live, due, stale, stopped, setting, panicked>>
flags == <<live, due, stale, stopped, setting>>

Dev == 1..N

Init ==
  /\ sends \in BOOLEAN
  /\ next = 1 /\ result = "starting" /\ panicked = FALSE
  /\ pc = [d \in Dev |-> "none"]
  /\ live = [d \in Dev |-> FALSE] /\ due = [d \in Dev |-> FALSE]
  /\ stale = [d \in Dev |-> FALSE] /\ stopped = [d \in Dev |-> FALSE]
  /\ setting = [d \in Dev |-> FALSE]

(***************************************************************************)
(* StartScheduler                                                          *)
(***************************************************************************)

\* protocols.Create and Init succeed: the runner and its goroutine start, unless
\* NewTicker panics on an interval that is not positive.
StartDevice ==
  /\ result = "starting" /\ next <= N
  /\ \E s \in Seconds :
       \/ /\ s > 0
          /\ live' = [live EXCEPT ![next] = TRUE]
          /\ pc' = [pc EXCEPT ![next] = "loop"]
          /\ next' = next + 1
          /\ UNCHANGED panicked
       \/ /\ s <= 0
          /\ panicked' = TRUE
          /\ UNCHANGED <<live, pc, next>>
  /\ UNCHANGED <<sends, result, due, stale, stopped, setting>>

\* Create or Init fails: the runners made so far are dropped, still running.
StartFails ==
  /\ result = "starting" /\ next <= N
  /\ result' = "error"
  /\ UNCHANGED <<sends, next, pc, flags, panicked>>

StartReturns ==
  /\ result = "starting" /\ next > N
  /\ result' = "runners"
  /\ UNCHANGED <<sends, next, pc, flags, panicked>>

(***************************************************************************)
(* The ticker and the goroutine of device d                                *)
(***************************************************************************)

\* A tick nobody received is not sent twice.
Fire(d) ==
  /\ live[d] /\ ~due[d]
  /\ due' = [due EXCEPT ![d] = TRUE]
  /\ UNCHANGED <<sends, next, result, pc, live, stale, stopped, setting, panicked>>

\* The select evaluates r.Ticker.C once, on entry.
EnterSelect(d) ==
  /\ pc[d] = "loop"
  /\ pc' = [pc EXCEPT ![d] = "select"]
  /\ stale' = [stale EXCEPT ![d] = FALSE]
  /\ UNCHANGED <<sends, next, result, live, due, stopped, setting, panicked>>

TakeTick(d) ==
  /\ pc[d] = "select" /\ due[d] /\ ~stale[d]
  /\ due' = [due EXCEPT ![d] = FALSE]
  /\ pc' = [pc EXCEPT ![d] = "read"]
  /\ UNCHANGED <<sends, next, result, live, stale, stopped, setting, panicked>>

\* Mutant of TakeStop: a break leaves the select and not the loop.
TakeStopBreaks(d) ==
  /\ pc[d] = "select" /\ stopped[d]
  /\ pc' = [pc EXCEPT ![d] = "loop"]
  /\ UNCHANGED <<sends, next, result, flags, panicked>>

TakeStop(d) ==
  /\ pc[d] = "select" /\ stopped[d]
  /\ pc' = [pc EXCEPT ![d] = "gone"]
  /\ UNCHANGED <<sends, next, result, flags, panicked>>

\* Mutant of ReadFails: a failed read ends the goroutine.
ReadFailsReturns(d) ==
  /\ pc[d] = "read"
  /\ pc' = [pc EXCEPT ![d] = "gone"]
  /\ UNCHANGED <<sends, next, result, flags, panicked>>

\* Client.Read fails: continue.
ReadFails(d) ==
  /\ pc[d] = "read"
  /\ pc' = [pc EXCEPT ![d] = "loop"]
  /\ UNCHANGED <<sends, next, result, flags, panicked>>

\* Client.Read returns values, which are mapped.
ReadReturns(d) ==
  /\ pc[d] = "read"
  /\ pc' = [pc EXCEPT ![d] = "rules"]
  /\ UNCHANGED <<sends, next, result, flags, panicked>>

ReadEnds(d) == ReadFails(d) \/ ReadReturns(d)

\* re.ApplyRules, whose steps EdgeRules models.
ApplyRules(d) ==
  /\ pc[d] = "rules"
  /\ pc' = [pc EXCEPT ![d] = IF sends THEN "send" ELSE "loop"]
  /\ UNCHANGED <<sends, next, result, flags, panicked>>

\* Two goroutines in the one RuleEngine, which has no lock: the overlapping
\* accesses of its map and slices may end the process.
RulesRace(d, e) ==
  /\ d # e /\ pc[d] = "rules" /\ pc[e] = "rules"
  /\ panicked' = TRUE
  /\ UNCHANGED <<sends, next, result, pc, flags>>

\* SendToAll returns; its error is not looked at.
SendReturns(d) ==
  /\ pc[d] = "send"
  /\ pc' = [pc EXCEPT ![d] = "loop"]
  /\ UNCHANGED <<sends, next, result, flags, panicked>>

\* The MQTT uplink waits for its token without a timeout.
SendBlocks(d) ==
  /\ pc[d] = "send"
  /\ pc' = [pc EXCEPT ![d] = "blocked"]
  /\ UNCHANGED <<sends, next, result, flags, panicked>>

\* A redis uplink, which the manager builds without a client.
SendPanics(d) ==
  /\ pc[d] = "send"
  /\ panicked' = TRUE
  /\ UNCHANGED <<sends, next, result, pc, flags>>

(***************************************************************************)
(* The caller that was given the runners                                   *)
(***************************************************************************)

\* SetInterval: r.Ticker.Stop(), after which its tick is no longer received ...
StopTicker(d) ==
  /\ result = "runners" /\ \A e \in Dev : ~setting[e]
  /\ setting' = [setting EXCEPT ![d] = TRUE]
  /\ live' = [live EXCEPT ![d] = FALSE]
  /\ due' = [due EXCEPT ![d] = FALSE]
  /\ UNCHANGED <<sends, next, result, pc, stale, stopped, panicked>>

\* ... and r.Ticker = time.NewTicker(...), which a goroutine that is already
\* in its select does not see.
NewTicker(d) ==
  /\ setting[d]
  /\ \E s \in Seconds :
       \/ /\ s > 0
          /\ setting' = [setting EXCEPT ![d] = FALSE]
          /\ live' = [live EXCEPT ![d] = TRUE]
          /\ stale' = [stale EXCEPT ![d] = pc[d] = "select"]
          /\ UNCHANGED panicked
       \/ /\ s <= 0
          /\ panicked' = TRUE
          /\ UNCHANGED <<setting, live, stale>>
  /\ UNCHANGED <<sends, next, result, pc, due, stopped>>

\* close(r.Stop); no code of the repository does it, a user of the package may.
Stop(d) ==
  /\ result = "runners" /\ ~stopped[d] /\ \A e \in Dev : ~setting[e]
  /\ stopped' = [stopped EXCEPT ![d] = TRUE]
  /\ UNCHANGED <<sends, next, result, pc, live, due, stale, setting, panicked>>

Start == StartDevice \/ StartFails \/ StartReturns
Runner(d) == EnterSelect(d) \/ TakeTick(d) \/ ApplyRules(d) \/ SendReturns(d)

Next ==
  /\ ~panicked
  /\ \/ Start
     \/ \E d \in Dev : \/ Fire(d) \/ Runner(d) \/ ReadEnds(d) \/ TakeStop(d)
                       \/ SendBlocks(d) \/ SendPanics(d)
                       \/ StopTicker(d) \/ NewTicker(d) \/ Stop(d)
                       \/ \E e \in Dev : RulesRace(d, e)

\* Goroutines run, a Read with a timeout ends, a ticker fires, and a caller in
\* SetInterval finishes it.  A select with both channels ready chooses at random,
\* so a closed Stop is not passed over for ever.
Fairness ==
  /\ WF_vars(~panicked /\ Start)
  /\ \A d \in Dev :
       /\ WF_vars(~panicked /\ Fire(d))
       /\ WF_vars(~panicked /\ Runner(d))
       /\ d \in Timed => WF_vars(~panicked /\ ReadEnds(d))
       /\ SF_vars(~panicked /\ TakeStop(d))
       /\ WF_vars(~panicked /\ NewTicker(d))

Spec == Init /\ [][Next]_vars /\ Fairness

(***************************************************************************)
(* Properties                                                              *)
(***************************************************************************)

\* A Read without a timeout that never returns.
Hangs(d) == pc[d] = "read" /\ d \notin Timed

\* Closing r.Stop ends the goroutine, also when ticks keep coming, when a read
\* is in progress or when SetInterval has replaced the ticker, unless an uplink
\* never answers, or a device whose driver has no timeout.
StopEnds ==
  \A d \in Dev :
    stopped[d] ~> (pc[d] \in {"gone", "blocked"} \/ panicked \/ []Hangs(d))

\* A runner finishes reads again and again, whatever reads fail, also when a
\* later device made StartScheduler return an error: the only ways to stop are
\* Stop, an uplink that never answers, a Read without a timeout, the end of the
\* process, a SetInterval that replaced the ticker while the goroutine was
\* waiting for the old one, and one SetInterval after the other.
KeepsSampling ==
  \A d \in Dev :
    \/ []<><<ReadEnds(d)>>_vars
    \/ <>[](pc[d] \in {"none", "blocked"} \/ stopped[d] \/ panicked \/ Hangs(d))
    \/ []<>(setting[d] \/ stale[d])
=============================================================================
