------------------------------ MODULE EdgeRules ------------------------------
(***************************************************************************)
(* The edge rule engine (edgecompute/rule_engine.go, types/edge_rule.go)   *)
(* as main.go uses it: every device's goroutine feeds the one RuleEngine,  *)
(* without a lock, after each function group it read, and the SIGHUP       *)
(* goroutine replaces the engine's rule slices while they run.             *)
(*                                                                         *)
(* Each device has one point with rules, read in group PointGroup[d].  The *)
(* device's id and the point's name are sequences of the segments between  *)
(* their dots.  A value is <<device, cycle>>, so that a window tells whose *)
(* samples it holds; whether an alarm condition holds of it is a choice    *)
(* made when it is evaluated.  The content of edge_rules.yaml is a version *)
(* number.                                                                 *)
(***************************************************************************)
EXTENDS Naturals, Sequences

CONSTANTS
  Devices,
  Namings,     \* the ids and point names a configuration may give
  Groups,      \* [Devices -> Nat]: function groups of the point set
  PointGroup,  \* [Devices -> Nat]: the group of the point
  Versions,    \* contents of edge_rules.yaml a SIGHUP may find
  First,       \* the content NewRuleEngine starts with
  Windows,     \* [version -> [Devices -> Seq(Nat)]]: windows of the aggregate rules
  HasAlarm,    \* [version -> SUBSET Devices]: devices with an alarm rule
  MaxWindow,   \* bound on windows and on the history kept of fed samples
  Excess,      \* bound on how far races leave a window over its size
  Cycles,      \* [Devices -> Nat]: cycles are numbered 0..Cycles[d]-1, again and
               \* again, and not told apart where two devices spell one key
  Nil

ASSUME RulesAssumption ==
  /\ Groups \in [Devices -> Nat \ {0}] /\ Cycles \in [Devices -> Nat \ {0}]
  /\ PointGroup \in [Devices -> Nat]
  /\ \A d \in Devices : PointGroup[d] \in 1..Groups[d]
  /\ MaxWindow \in Nat /\ Excess \in Nat
  /\ Nil \notin Versions \cup {First}
  /\ HasAlarm \in [Versions \cup {First} -> SUBSET Devices]
  /\ \A v \in Versions \cup {First}, d \in Devices : Windows[v][d] \in Seq(0..MaxWindow)
  /\ Nil \notin (Devices \X Nat) \cup [size : Nat, values : Seq(Devices \X Nat)]

VARIABLES
  naming,       \* the configuration's
  aggRules, alarmRules, \* the version each slice comes from, Nil if empty
  buffers,      \* Buffers: key -> [size, values], or Nil
  lastAlarms,   \* LastAlarms: the devices whose alarms it holds
  loading,      \* <<version>> the SIGHUP goroutine has assigned to AggRules only
  pc, grp, cycle,  \* the goroutines
  todo,         \* windows of the rules that d's aggregate loop has still to apply
  val,          \* the point's value in allPointValues
  raised,       \* whether the engine raised an alarm for d in this cycle
  report,       \* the cycle's report: [val, alarm]
  evaluated,    \* the alarm rules d's ApplyRules has just gone through
  fed,          \* last MaxWindow samples d gave to its rules, if its key is its own
  fatal         \* a race has ended the process

engine == <<aggRules, alarmRules, buffers, lastAlarms, fed>>
loop   == <<todo, grp, cycle, val>>
ghost  == <<raised, report, evaluated>>
vars   == <<engine, loading, pc, loop, ghost, naming, fatal>>

\* key := deviceID + "." + rule.Point.  Two devices may spell one key: the id "a"
\* with the point "b.c", and the id "a.b" with the point "c".
KeyUnder(n, d) == n[d].id \o n[d].point
Key(d) == KeyUnder(naming, d)
Keys == {KeyUnder(n, d) : n \in Namings, d \in Devices}

\* No other device spells d's key.
Sole(d) == \A e \in Devices \ {d} : Key(e) # Key(d)

Init ==
  /\ naming \in Namings
  /\ aggRules = First /\ alarmRules = First
  /\ buffers = [k \in Keys |-> Nil]
  /\ fed = [d \in Devices |-> <<>>]
  /\ lastAlarms = {}
  /\ loading = <<>>
  /\ pc = [d \in Devices |-> "read"]
  /\ grp = [d \in Devices |-> 1]
  /\ cycle = [d \in Devices |-> 0]
  /\ todo = [d \in Devices |-> <<>>]
  /\ val = [d \in Devices |-> Nil]
  /\ raised = [d \in Devices |-> FALSE]
  /\ report = [d \in Devices |-> Nil]
  /\ evaluated = [d \in Devices |-> Nil]
  /\ fatal = FALSE

(***************************************************************************)
(* PointBuffer and the aggregate loop                                      *)
(***************************************************************************)

\* Mutant of Trim: the window is one short.
TrimEarly(s, n) == IF Len(s) >= n THEN Tail(s) ELSE s

\* b.Values = b.Values[1:] when there are more than Size.
Trim(s, n) == IF Len(s) > n THEN Tail(s) ELSE s

\* PointBuffer.Add
BufferAdd(b, v) == [b EXCEPT !.values = Trim(Append(b.values, v), b.size)]

\* What was fed, cut to the last MaxWindow samples.
Recent(s) ==
  SubSeq(s, IF Len(s) > MaxWindow THEN Len(s) - MaxWindow + 1 ELSE 1, Len(s))

Rules(d) == IF aggRules = Nil THEN <<>> ELSE Windows[aggRules][d]

\* The point is in pointMap from its group on, as nil when its read failed, and an
\* alarm condition is evaluated on nil too.
MayRaise(d) ==
  alarmRules # Nil /\ grp[d] >= PointGroup[d] /\ d \in HasAlarm[alarmRules]

(***************************************************************************)
(* The goroutine of device d                                               *)
(***************************************************************************)

\* readWithRetry of one group: the point's value arrives with its group, or
\* stays null when the read fails.
ReadGroup(d) ==
  /\ pc[d] = "read"
  /\ \/ /\ grp[d] = PointGroup[d]
        /\ val' = [val EXCEPT ![d] = <<d, cycle[d]>>]
     \/ UNCHANGED val
  /\ pc' = [pc EXCEPT ![d] = "reset"]
  /\ UNCHANGED <<engine, loading, todo, grp, cycle, ghost, naming, fatal>>

\* ApplyRules: r.LastAlarms = nil
Reset(d) ==
  /\ pc[d] = "reset"
  /\ lastAlarms' = {}
  /\ pc' = [pc EXCEPT ![d] = "agg"]
  /\ UNCHANGED <<aggRules, alarmRules, buffers, fed, loading, loop, ghost, naming, fatal>>

\* ApplyRules: range takes the slice as it is now.  Rules of other devices, and
\* every rule when the value is no float64, are passed over.
Aggregate(d) ==
  /\ pc[d] = "agg"
  /\ IF val[d] # Nil /\ Rules(d) # <<>>
     THEN todo' = [todo EXCEPT ![d] = Rules(d)] /\ pc' = [pc EXCEPT ![d] = "rule"]
     ELSE pc' = [pc EXCEPT ![d] = "alarm"] /\ UNCHANGED todo
  /\ UNCHANGED <<engine, loading, grp, cycle, val, ghost, naming, fatal>>

\* Another goroutine is at the same buffer.
Racing(d) == \E e \in Devices \ {d} : pc[e] = "rule" /\ Key(e) = Key(d)

\* The windows an Add may leave.  When two overlap, the one that stores last may
\* undo the other's append, or its cut, which leaves the window over its size.
Adds(d, b) ==
  {BufferAdd(b, val[d])} \cup
  (IF ~Racing(d) THEN {}
   ELSE {b} \cup {c \in {[b EXCEPT !.values = Append(@, val[d])]} :
                    Len(c.values) <= b.size + Excess})

\* The first rule to miss the buffer decides its size.
Found(d) ==
  IF buffers[Key(d)] = Nil THEN [size |-> Head(todo[d]), values |-> <<>>]
  ELSE buffers[Key(d)]

\* ApplyRules: one aggregate rule.
AggRule(d) ==
  /\ pc[d] = "rule"
  /\ \E b \in Adds(d, Found(d)) : buffers' = [buffers EXCEPT ![Key(d)] = b]
  /\ fed' = [fed EXCEPT ![d] = IF Sole(d) THEN Recent(Append(@, val[d])) ELSE @]
  /\ todo' = [todo EXCEPT ![d] = Tail(@)]
  /\ pc' = [pc EXCEPT ![d] = IF Len(todo[d]) = 1 THEN "alarm" ELSE "rule"]
  /\ UNCHANGED <<aggRules, alarmRules, lastAlarms, loading, grp, cycle, val, ghost, naming, fatal>>

\* ApplyRules: the alarm rules (the linkage rules after them only print).  An
\* append that overlaps another's may lose what the other appended.
Alarm(d) ==
  /\ pc[d] = "alarm"
  /\ \/ /\ MayRaise(d)
        /\ \/ lastAlarms' = lastAlarms \cup {d}
           \/ /\ \E e \in Devices \ {d} : pc[e] = "alarm" /\ MayRaise(e)
              /\ lastAlarms' = {d}
        /\ raised' = [raised EXCEPT ![d] = TRUE]
     \/ UNCHANGED <<lastAlarms, raised>>
  /\ evaluated' = [evaluated EXCEPT ![d] = alarmRules]
  /\ pc' = [pc EXCEPT ![d] = "collect"]
  /\ UNCHANGED <<aggRules, alarmRules, buffers, fed, loading, loop, report, naming, fatal>>

\* main.go copies LastAlarms and the averages into alarms and metrics, which
\* are local to the group's iteration and end with it.
Collect(d) ==
  /\ pc[d] = "collect"
  /\ \/ /\ grp[d] < Groups[d]
        /\ grp' = [grp EXCEPT ![d] = @ + 1]
        /\ pc' = [pc EXCEPT ![d] = "read"]
     \/ /\ grp[d] = Groups[d]
        /\ pc' = [pc EXCEPT ![d] = "send"]
        /\ UNCHANGED grp
  /\ evaluated' = [evaluated EXCEPT ![d] = Nil]
  /\ UNCHANGED <<engine, loading, todo, cycle, val, raised, report, naming, fatal>>

\* EncodeDataReport(allPointValues, allAlarms, metrics): nothing was ever
\* appended to allAlarms.
Send(d) ==
  /\ pc[d] = "send"
  /\ report' = [report EXCEPT ![d] = [val |-> val[d], alarm |-> FALSE]]
  /\ pc' = [pc EXCEPT ![d] = "tick"]
  /\ UNCHANGED <<engine, loading, loop, raised, evaluated, naming, fatal>>

\* The MQTT uplink waits for its token without a timeout.
SendBlocks(d) ==
  /\ pc[d] = "send"
  /\ pc' = [pc EXCEPT ![d] = "blocked"]
  /\ UNCHANGED <<engine, loading, loop, ghost, naming, fatal>>

\* The next cycle starts with a new allPointValues.
Tick(d) ==
  /\ pc[d] = "tick"
  /\ cycle' = [cycle EXCEPT ![d] = IF Sole(d) THEN (@ + 1) % Cycles[d] ELSE 0]
  /\ grp' = [grp EXCEPT ![d] = 1]
  /\ val' = [val EXCEPT ![d] = Nil]
  /\ raised' = [raised EXCEPT ![d] = FALSE]
  /\ report' = [report EXCEPT ![d] = Nil]
  /\ pc' = [pc EXCEPT ![d] = "read"]
  /\ UNCHANGED <<engine, loading, todo, evaluated, naming, fatal>>

Loop(d) ==
  \/ ReadGroup(d) \/ Reset(d) \/ Aggregate(d) \/ AggRule(d) \/ Alarm(d)
  \/ Collect(d) \/ Send(d) \/ SendBlocks(d) \/ Tick(d)

(***************************************************************************)
(* SIGHUP: the file is read (its error is ignored, and leaves no rules),   *)
(* AggRules is assigned, then AlarmRules and LinkageRules.                 *)
(***************************************************************************)
ReloadAgg ==
  /\ loading = <<>>
  /\ \E v \in Versions \cup {Nil} : aggRules' = v /\ loading' = <<v>>
  /\ UNCHANGED <<alarmRules, buffers, fed, lastAlarms, pc, loop, ghost, naming, fatal>>

\* Mutant of ReloadAlarm: the alarm rules keep the old slice.
ReloadForgetsAlarm ==
  /\ loading # <<>>
  /\ loading' = <<>>
  /\ UNCHANGED <<engine, pc, loop, ghost, naming, fatal>>

ReloadAlarm ==
  /\ loading # <<>>
  /\ alarmRules' = loading[1]
  /\ loading' = <<>>
  /\ UNCHANGED <<aggRules, buffers, fed, lastAlarms, pc, loop, ghost, naming, fatal>>

(***************************************************************************)
(* Races on the engine's fields                                            *)
(***************************************************************************)

\* Fields d's next step reads, and those it writes so that an overlapping
\* access can go wrong: the insertion of a key into Buffers, and a slice
\* header of LastAlarms whose length and pointer change.
Touches(d) ==
  CASE pc[d] = "reset" -> {"LastAlarms"}
    [] pc[d] = "agg" -> {"AggRules"}
    [] pc[d] = "rule" -> {"Buffers"}
    [] pc[d] = "alarm" -> {"AlarmRules"} \cup (IF MayRaise(d) THEN {"LastAlarms"} ELSE {})
    [] pc[d] = "collect" -> {"AggRules", "LastAlarms"}
                              \cup (IF Rules(d) # <<>> THEN {"Buffers"} ELSE {})
    [] OTHER -> {}
Writes(d) ==
  CASE pc[d] = "reset" /\ lastAlarms # {} -> {"LastAlarms"}
    [] pc[d] = "rule" /\ buffers[Key(d)] = Nil -> {"Buffers"}
    [] pc[d] = "alarm" /\ MayRaise(d) -> {"LastAlarms"}
    [] OTHER -> {}
Reloads == IF loading = <<>> THEN {"AggRules"} ELSE {"AlarmRules"}

\* Two accesses that overlap, one a write: the runtime's "concurrent map writes",
\* or a slice header with the length of one value and the pointer of another,
\* ends the process.  (When it does not, the steps above say what happens.)
Race ==
  /\ \E d \in Devices :
       \/ Touches(d) \cap Reloads # {}
       \/ pc[d] = "rule" /\ Racing(d)
       \/ \E e \in Devices \ {d} : Writes(d) \cap Touches(e) # {}
  /\ fatal' = TRUE
  /\ UNCHANGED <<engine, loading, pc, loop, ghost, naming>>

Next ==
  /\ ~fatal
  /\ Race \/ ReloadAgg \/ ReloadAlarm \/ \E d \in Devices : Loop(d)

\* Goroutines are scheduled fairly, reads of the drivers main.go links end (Modbus
\* has a timeout of 5 s, BACnet is a table), tickers fire; the SIGHUP goroutine
\* finishes what it started.
Fairness ==
  /\ WF_vars(~fatal /\ ReloadAlarm)
  /\ \A d \in Devices : WF_vars(~fatal /\ Loop(d))

Spec == Init /\ [][Next]_vars /\ Fairness

(***************************************************************************)
(* Properties                                                              *)
(***************************************************************************)

\* The window of a device whose key no other device spells holds exactly the last
\* Size samples of that device, in order and no other's, whatever the other
\* goroutines, their races and reloads do.  (rule_engine.go:19 calls the key
\* "device.point"; where two devices spell one key their windows are one.)
WindowSuffix ==
  \A d \in Devices : Sole(d) /\ buffers[Key(d)] # Nil =>
    LET b == buffers[Key(d)]
        n == IF Len(fed[d]) < b.size THEN Len(fed[d]) ELSE b.size
    IN  b.values = SubSeq(fed[d], Len(fed[d]) - n + 1, Len(fed[d]))

\* main.go:516: a SIGHUP's alarm rules come into force for every device whose
\* uplink answers, unless the next SIGHUP or the end of the process comes first.
ReloadTakesEffect ==
  \A v \in Versions, d \in Devices :
    (loading = <<v>>) ~> (\/ fatal \/ pc[d] = "blocked"
                          \/ evaluated[d] = v \/ loading \notin {<<>>, <<v>>})

\* README.md:19: alarms are pushed with the data.  The report of a cycle in
\* which the engine raised an alarm for the device carries it.
AlarmsReported ==
  \A d \in Devices : pc[d] = "tick" /\ raised[d] => report[d].alarm

(***************************************************************************)
(* The inductive invariant of the windows                                  *)
(***************************************************************************)

Sample == Devices \X Nat

TypeOK ==
  /\ naming \in Namings
  /\ aggRules \in Versions \cup {First, Nil}
  /\ fed \in [Devices -> Seq(Sample)]
  /\ todo \in [Devices -> Seq(0..MaxWindow)]
  /\ cycle \in [Devices -> Nat]
  /\ val \in [Devices -> Sample \cup {Nil}]
  /\ pc \in [Devices -> {"read", "reset", "agg", "rule", "alarm", "collect",
                         "send", "blocked", "tick"}]

\* A window and the history of its device: the window has as many samples as it
\* may, and they are the history's last ones.
WindowOK(b, s) ==
  /\ b = Nil => s = <<>>
  /\ b # Nil =>
       /\ b \in [size : 0..MaxWindow, values : Seq(Sample)]
       /\ Len(b.values) = IF Len(s) < b.size THEN Len(s) ELSE b.size
       /\ \A n \in 1..Len(b.values) : b.values[n] = s[Len(s) - Len(b.values) + n]

WindowInv ==
  /\ buffers = [k \in Keys |-> buffers[k]]
  /\ \A d \in Devices : Len(fed[d]) <= MaxWindow
  /\ \A d \in Devices : Sole(d) => WindowOK(buffers[Key(d)], fed[d])

\* A goroutine in the aggregate loop has a rule to apply and a value to apply it to.
LoopInv == \A d \in Devices : pc[d] = "rule" => todo[d] # <<>> /\ val[d] # Nil

IInv == TypeOK /\ WindowInv /\ LoopInv
=============================================================================
