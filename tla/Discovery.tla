------------------------------ MODULE Discovery ------------------------------
(***************************************************************************)
(* BACnet discovery (protocols/bacnet/discover.go, and main.go, which      *)
(* starts it).  Three parties run at once:                                 *)
(*   - a goroutine in bacnet.ListenIAM, which registers with RegisterDevice;*)
(*   - a goroutine with main's own listener, which registers with          *)
(*     RegisterAndStartPolling;                                            *)
(*   - main itself, which broadcasts a Who-Is from another socket and puts *)
(*     the answers into its own device map.                                *)
(* Both listeners bind UDP port 47808, so at most one of them gets it.     *)
(* UDP loses, repeats and reorders: any packet may arrive at any time.     *)
(*                                                                         *)
(* Of a packet we keep what the two parsers look at: whether it is long    *)
(* enough, whether bytes 1, 4 and 6..7 have the values they test, and the  *)
(* device id, which both take from bytes 8..11.                            *)
(***************************************************************************)
EXTENDS Naturals, Sequences

CONSTANTS
  Ids,          \* BACnet device ids
  Ips,          \* addresses packets come from
  Holders,      \* who may hold the port when the process starts: "free", "other"
  MaxFail,      \* 3 in startPolling
  PollOutcomes, \* whether a pollOnce succeeds: {TRUE} for the placeholder of the
                \* repository, BOOLEAN for the real read its caller provides for
  MaxAnswers,   \* bound on the answers to the Who-Is
  Nil

ASSUME DiscoveryAssumption ==
  /\ Holders \subseteq {"free", "other"}
  /\ MaxFail \in Nat \ {0} /\ MaxAnswers \in Nat
  /\ PollOutcomes \subseteq BOOLEAN
  /\ Nil \notin Ids \cup Ips
  /\ Nil \notin [ip : Ips, online : BOOLEAN, fails : Nat]

VARIABLES
  port,      \* who holds UDP port 47808: "free", "other", "iam" or "main"
  iam,       \* the goroutine of ListenIAM: "start", "serving" or "returned"
  listener,  \* main's own listener: "start", "serving" or "spawning"
  spawning,  \* the device it has registered and not yet started, or Nil
  devMap,    \* [Ids -> Nil or [ip, online, fails]]: discover.go's devMap
  pollers,   \* [Ids -> Nat]: goroutines in startPolling
  template,  \* [Ids -> {"none", "running", "written", "failed"}]: the file
             \* AutoGeneratePoints writes
  whoIs,     \* main: "start", "waiting" or "done"
  answers,   \* addresses that have answered the Who-Is
  found,     \* main's devMap under the id every answer is given, an address or Nil
  panicked

registry == <<devMap, pollers, template>>
mainVars == <<whoIs, answers, found>>
vars == <<port, iam, listener, spawning, registry, mainVars, panicked>>

Packets == [long : BOOLEAN, byte1 : BOOLEAN, byte4 : BOOLEAN, apdu : BOOLEAN,
            id : Ids, ip : Ips]

Init ==
  /\ port \in Holders
  /\ iam = "start" /\ listener = "start" /\ spawning = Nil
  /\ devMap = [i \in Ids |-> Nil]
  /\ pollers = [i \in Ids |-> 0]
  /\ template = [i \in Ids |-> "none"]
  /\ whoIs = "start" /\ answers = <<>> /\ found = Nil
  /\ panicked = FALSE

(***************************************************************************)
(* ListenIAM and RegisterDevice                                            *)
(***************************************************************************)

\* ListenUDP; the loser returns its error, which is printed.
IAMBind ==
  /\ iam = "start"
  /\ \/ port = "free" /\ port' = "iam" /\ iam' = "serving"
     \/ port # "free" /\ iam' = "returned" /\ UNCHANGED port
  /\ UNCHANGED <<listener, spawning, registry, mainVars, panicked>>

\* The test of bytes 1 and 4 rejects only a packet that fails both.
parseIAM(p) == p.long /\ (p.byte1 \/ p.byte4) /\ p.apdu

NewDevice(p) == [ip |-> p.ip, online |-> TRUE, fails |-> 0]

\* Mutant of RegisterDevice: no check whether the device is known.
RegisterAgain(p) ==
  /\ devMap' = [devMap EXCEPT ![p.id] = NewDevice(p)]
  /\ pollers' = [pollers EXCEPT ![p.id] = @ + 1]

\* Under mu from the check to the start of the poller.
RegisterDevice(p) ==
  /\ devMap[p.id] = Nil
  /\ devMap' = [devMap EXCEPT ![p.id] = NewDevice(p)]
  /\ pollers' = [pollers EXCEPT ![p.id] = @ + 1]

\* A packet that does not parse, a known device and a read error change nothing.
IAMReceive(p) ==
  /\ iam = "serving" /\ parseIAM(p)
  /\ RegisterDevice(p)
  /\ UNCHANGED <<port, iam, listener, spawning, template, mainVars, panicked>>

(***************************************************************************)
(* main's listener and RegisterAndStartPolling                             *)
(***************************************************************************)

\* The error of ListenUDP is dropped: reading from the nil connection gives a
\* nil address, and addr.IP ends the process.
ListenerBind ==
  /\ listener = "start"
  /\ \/ port = "free" /\ port' = "main" /\ listener' = "serving" /\ UNCHANGED panicked
     \/ port # "free" /\ panicked' = TRUE /\ UNCHANGED <<port, listener>>
  /\ UNCHANGED <<iam, spawning, registry, mainVars>>

\* So does an error of ReadFromUDP, which is dropped too.
ListenerReadError ==
  /\ listener = "serving"
  /\ panicked' = TRUE
  /\ UNCHANGED <<port, iam, listener, spawning, registry, mainVars>>

ParseIAm(p) == p.long /\ p.byte1 /\ p.byte4

\* RegisterAndStartPolling up to mu.Unlock; packets that do not parse and known
\* devices change nothing.
ListenerReceive(p) ==
  /\ listener = "serving" /\ ParseIAm(p)
  /\ devMap[p.id] = Nil
  /\ devMap' = [devMap EXCEPT ![p.id] = NewDevice(p)]
  /\ listener' = "spawning" /\ spawning' = p.id
  /\ UNCHANGED <<port, iam, pollers, template, mainVars, panicked>>

\* Mutant of ListenerSpawn: AutoGeneratePoints is not started.
ListenerSpawnsPoller ==
  /\ listener = "spawning"
  /\ pollers' = [pollers EXCEPT ![spawning] = @ + 1]
  /\ listener' = "serving" /\ spawning' = Nil
  /\ UNCHANGED <<port, iam, devMap, template, mainVars, panicked>>

\* go AutoGeneratePoints(dev), go startPolling(dev)
ListenerSpawn ==
  /\ listener = "spawning"
  /\ template' = [template EXCEPT ![spawning] = "running"]
  /\ pollers' = [pollers EXCEPT ![spawning] = @ + 1]
  /\ listener' = "serving" /\ spawning' = Nil
  /\ UNCHANGED <<port, iam, devMap, mainVars, panicked>>

\* The template of the device's objects is written, or the write fails; the
\* object list itself is a fixed one.
AutoGeneratePoints(i) ==
  /\ template[i] = "running"
  /\ \E r \in {"written", "failed"} : template' = [template EXCEPT ![i] = r]
  /\ UNCHANGED <<port, iam, listener, spawning, devMap, pollers, mainVars, panicked>>

(***************************************************************************)
(* startPolling: a tick and pollOnce                                       *)
(***************************************************************************)

PollSucceeds(i) ==
  /\ devMap' = [devMap EXCEPT ![i].fails = 0, ![i].online = TRUE]
  /\ UNCHANGED pollers

\* Mutant of PollFails: the goroutine does not return.
PollFailsGoesOn(i) ==
  LET n == devMap[i].fails + 1
  IN  /\ devMap' = [devMap EXCEPT ![i].fails = n, ![i].online = n < MaxFail]
      /\ UNCHANGED pollers

\* The last failure takes the device offline and ends its poller.
PollFails(i) ==
  \/ /\ devMap[i].fails + 1 < MaxFail
     /\ devMap' = [devMap EXCEPT ![i].fails = @ + 1]
     /\ UNCHANGED pollers
  \/ /\ devMap[i].fails + 1 >= MaxFail
     /\ devMap' = [devMap EXCEPT ![i].fails = @ + 1, ![i].online = FALSE]
     /\ pollers' = [pollers EXCEPT ![i] = @ - 1]

Poll(i) ==
  /\ pollers[i] > 0
  /\ \/ TRUE \in PollOutcomes /\ PollSucceeds(i)
     \/ FALSE \in PollOutcomes /\ PollFails(i)
  /\ UNCHANGED <<port, iam, listener, spawning, template, mainVars, panicked>>

(***************************************************************************)
(* main: DiscoverDevicesReal and the registration of its result            *)
(***************************************************************************)

\* A socket of its own; if there is none, nothing is discovered.
WhoIs ==
  /\ whoIs = "start"
  /\ \E r \in {"waiting", "done"} : whoIs' = r
  /\ UNCHANGED <<port, iam, listener, spawning, registry, answers, found, panicked>>

Answer(ip) ==
  /\ whoIs = "waiting" /\ Len(answers) < MaxAnswers
  /\ answers' = Append(answers, ip)
  /\ UNCHANGED <<port, iam, listener, spawning, registry, whoIs, found, panicked>>

\* The deadline passes.  Every answer has the same placeholder id, so only the
\* first one is new to main's map.
WhoIsDeadline ==
  /\ whoIs = "waiting"
  /\ whoIs' = "done"
  /\ found' = IF answers = <<>> THEN Nil ELSE Head(answers)
  /\ UNCHANGED <<port, iam, listener, spawning, registry, answers, panicked>>

Next ==
  /\ ~panicked
  /\ \/ IAMBind \/ ListenerBind \/ ListenerReadError \/ ListenerSpawn
     \/ \E p \in Packets : IAMReceive(p) \/ ListenerReceive(p)
     \/ \E i \in Ids : AutoGeneratePoints(i) \/ Poll(i)
     \/ WhoIs \/ WhoIsDeadline \/ \E a \in Ips : Answer(a)

\* The goroutines are scheduled; nothing is assumed of the network.
Fairness ==
  /\ WF_vars(~panicked /\ IAMBind)
  /\ WF_vars(~panicked /\ (ListenerBind \/ ListenerSpawn))
  /\ \A i \in Ids : WF_vars(~panicked /\ AutoGeneratePoints(i))

Spec == Init /\ [][Next]_vars /\ Fairness

(***************************************************************************)
(* Properties                                                              *)
(***************************************************************************)

\* The goroutines, the registry and main's map stay in their ranges; a poller
\* that went on after the third failure would count past MaxFail.
TypeOK ==
  /\ port \in {"free", "other", "iam", "main"}
  /\ iam \in {"start", "serving", "returned"}
  /\ listener \in {"start", "serving", "spawning"}
  /\ spawning \in Ids \cup {Nil}
  /\ devMap \in [Ids -> {Nil} \cup [ip : Ips, online : BOOLEAN, fails : 0..MaxFail]]
  /\ pollers \in [Ids -> Nat]
  /\ template \in [Ids -> {"none", "running", "written", "failed"}]
  /\ whoIs \in {"start", "waiting", "done"}
  /\ answers \in Seq(Ips) /\ found \in Ips \cup {Nil}
  /\ panicked \in BOOLEAN

\* startPolling: however often a device announces itself, and whatever its
\* polls return, it has one poller exactly while it is online (or is about to
\* get it), and none once it went offline.
PolledIffOnline ==
  \A i \in Ids :
    pollers[i] = IF devMap[i] # Nil /\ devMap[i].online /\ spawning # i THEN 1 ELSE 0

\* RegisterDevice, RegisterAndStartPolling and main's map: an entry keeps the
\* address it was registered with, and one that went offline is never touched
\* again, not even by a new I-Am.
EntriesKept ==
  [][/\ \A i \in Ids : devMap[i] # Nil =>
          /\ devMap'[i] # Nil /\ devMap'[i].ip = devMap[i].ip
          /\ ~devMap[i].online => devMap'[i] = devMap[i]
     /\ found # Nil => found' = found]_vars

\* AutoGeneratePoints: every device that is registered gets its point template
\* generated, also one RegisterDevice registered, which generates none, unless
\* the process ends: ListenIAM registers only when main's listener must fail.
TemplateOrEnd ==
  \A i \in Ids : (devMap[i] # Nil) ~> (panicked \/ template[i] \in {"written", "failed"})

(***************************************************************************)
(* The inductive invariant                                                 *)
(***************************************************************************)

\* A listener past its bind holds the port, so only one of them is.
PortInv ==
  /\ listener # "start" => port = "main"
  /\ iam = "serving" => port = "iam"
  /\ iam = "returned" => port # "free"

\* Between mu.Unlock and the two go statements, and only there, the listener
\* has a device in hand, which is registered and not polled yet.
SpawnInv ==
  /\ spawning # Nil <=> listener = "spawning"
  /\ spawning # Nil => devMap[spawning] # Nil /\ devMap[spawning].online

\* An online device has not failed MaxFail times; main's map is filled last.
FailInv ==
  /\ \A i \in Ids : (devMap[i] # Nil /\ devMap[i].online) => devMap[i].fails < MaxFail
  /\ found # Nil => whoIs = "done"

\* A device without a template was registered by ListenIAM, or is the one in
\* main's listener's hand.
TemplateInv ==
  \A i \in Ids : (devMap[i] # Nil /\ template[i] = "none") => (port = "iam" \/ spawning = i)

IInv == TypeOK /\ PortInv /\ SpawnInv /\ PolledIffOnline /\ FailInv /\ TemplateInv
=============================================================================
