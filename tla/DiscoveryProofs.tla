--------------------------- MODULE DiscoveryProofs ---------------------------
(***************************************************************************)
(* Discovery's safety properties, for any device ids, addresses, poll      *)
(* outcomes and failure limit.  IInv is the inductive invariant; the       *)
(* lemmas show that each action of discover.go and main.go preserves it.   *)
(***************************************************************************)
EXTENDS Discovery, TLAPS

Entries == [ip : Ips, online : BOOLEAN, fails : 0..MaxFail]

\* Nil is no registry entry, no id and no address, and a new device is one
\* that has not failed yet.
LEMMA EntryFacts ==
  /\ Nil \notin Entries /\ Nil \notin Ids /\ Nil \notin Ips
  /\ \A p \in Packets : /\ p.id \in Ids /\ NewDevice(p) \in Entries
                        /\ NewDevice(p).online /\ NewDevice(p).fails < MaxFail
  <1>1. Entries \subseteq [ip : Ips, online : BOOLEAN, fails : Nat]
    BY DiscoveryAssumption DEF Entries
  <1>2. Nil \notin Entries /\ Nil \notin Ids /\ Nil \notin Ips
    BY <1>1, DiscoveryAssumption
  <1>3. \A p \in Packets : /\ p.id \in Ids /\ NewDevice(p) \in Entries
                           /\ NewDevice(p).online /\ NewDevice(p).fails < MaxFail
    BY DiscoveryAssumption DEF Packets, NewDevice, Entries
  <1> QED
    BY <1>2, <1>3

\* The state main() starts the listeners in satisfies the invariant.
LEMMA InitIInv == Init => IInv
  <1> SUFFICES ASSUME Init PROVE IInv
    OBVIOUS
  <1> USE DiscoveryAssumption DEF Init
  <1>0. answers \in Seq(Ips)
    OBVIOUS
  <1>1. TypeOK
    BY <1>0 DEF TypeOK
  <1>2. PortInv /\ SpawnInv /\ FailInv /\ TemplateInv
    BY DEF PortInv, SpawnInv, FailInv, TemplateInv
  <1>3. PolledIffOnline
    BY DEF PolledIffOnline
  <1> QED
    BY <1>1, <1>2, <1>3 DEF IInv

\* ListenIAM's bind.
LEMMA IAMBindInv ==
  ASSUME IInv, IAMBind
  PROVE  IInv'
  <1> USE DEF IAMBind, IInv, registry, mainVars
  <1>1. TypeOK'
    BY DEF TypeOK
  <1>2. PortInv' /\ SpawnInv' /\ FailInv'
    BY DEF PortInv, SpawnInv, FailInv
  <1>3. PolledIffOnline'
    BY DEF PolledIffOnline
  <1>4. TemplateInv'
    BY DEF TemplateInv
  <1> QED
    BY <1>1, <1>2, <1>3, <1>4

\* main's bind, and its end when the port is taken.
LEMMA ListenerBindInv ==
  ASSUME IInv, ListenerBind
  PROVE  IInv'
  <1> USE DEF ListenerBind, IInv, registry, mainVars
  <1>1. TypeOK'
    BY DEF TypeOK
  <1>2. PortInv' /\ SpawnInv' /\ FailInv'
    BY DEF PortInv, SpawnInv, FailInv
  <1>3. PolledIffOnline'
    BY DEF PolledIffOnline
  <1>4. TemplateInv'
    BY DEF TemplateInv
  <1> QED
    BY <1>1, <1>2, <1>3, <1>4

\* A failed ReadFromUDP of main's listener.
LEMMA ListenerReadErrorInv ==
  ASSUME IInv, ListenerReadError
  PROVE  IInv'
  BY DEF ListenerReadError, IInv, registry, mainVars, TypeOK, PortInv, SpawnInv,
         PolledIffOnline, FailInv, TemplateInv

\* RegisterDevice under its lock: the device is new, so it has no poller yet.
LEMMA IAMReceiveInv ==
  ASSUME IInv, NEW p \in Packets, IAMReceive(p)
  PROVE  IInv'
  <1> USE EntryFacts DEF IAMReceive, RegisterDevice, IInv, mainVars
  <1>1. TypeOK'
    BY DEF TypeOK, Entries
  <1>2. SpawnInv'
    BY DEF TypeOK, SpawnInv, Entries
  <1>3. PortInv' /\ TemplateInv'
    BY DEF TypeOK, PortInv, TemplateInv
  <1>4. PolledIffOnline'
    BY DEF TypeOK, PolledIffOnline, SpawnInv, Entries
  <1>5. FailInv'
    BY DEF TypeOK, FailInv, Entries
  <1> QED
    BY <1>1, <1>2, <1>3, <1>4, <1>5

\* RegisterAndStartPolling up to mu.Unlock.
LEMMA ListenerReceiveInv ==
  ASSUME IInv, NEW p \in Packets, ListenerReceive(p)
  PROVE  IInv'
  <1> USE EntryFacts DEF ListenerReceive, IInv, mainVars
  <1>1. TypeOK'
    BY DEF TypeOK, Entries
  <1>2. SpawnInv'
    BY DEF TypeOK, SpawnInv, Entries
  <1>3. PortInv' /\ TemplateInv'
    BY DEF TypeOK, PortInv, TemplateInv, SpawnInv
  <1>4. PolledIffOnline'
    BY DEF TypeOK, PolledIffOnline, SpawnInv, Entries
  <1>5. FailInv'
    BY DEF TypeOK, FailInv, Entries
  <1> QED
    BY <1>1, <1>2, <1>3, <1>4, <1>5

\* The two go statements of RegisterAndStartPolling.
LEMMA ListenerSpawnInv ==
  ASSUME IInv, ListenerSpawn
  PROVE  IInv'
  <1> USE EntryFacts DEF ListenerSpawn, IInv, mainVars
  <1>0. spawning \in Ids
    BY DEF TypeOK, SpawnInv
  <1>1. TypeOK'
    BY <1>0 DEF TypeOK
  <1>2. PortInv' /\ SpawnInv' /\ FailInv'
    BY DEF TypeOK, PortInv, SpawnInv, FailInv
  <1>3. TemplateInv'
    BY <1>0 DEF TypeOK, TemplateInv
  <1>4. PolledIffOnline'
    BY <1>0 DEF TypeOK, PolledIffOnline, SpawnInv
  <1> QED
    BY <1>1, <1>2, <1>3, <1>4

\* AutoGeneratePoints ends.
LEMMA AutoGeneratePointsInv ==
  ASSUME IInv, NEW i \in Ids, AutoGeneratePoints(i)
  PROVE  IInv'
  <1> USE DEF AutoGeneratePoints, IInv, mainVars
  <1>1. TypeOK'
    BY DEF TypeOK
  <1>2. PortInv' /\ SpawnInv' /\ FailInv'
    BY DEF PortInv, SpawnInv, FailInv
  <1>3. PolledIffOnline'
    BY DEF PolledIffOnline
  <1>4. TemplateInv'
    BY DEF TypeOK, TemplateInv
  <1> QED
    BY <1>1, <1>2, <1>3, <1>4

\* A device with a poller is registered, online and not in the listener's hand.
LEMMA PolledFacts ==
  ASSUME IInv, NEW i \in Ids, pollers[i] > 0
  PROVE  /\ devMap[i] \in Entries /\ devMap[i].online
         /\ devMap[i].fails \in Nat /\ devMap[i].fails < MaxFail
         /\ pollers[i] = 1 /\ spawning # i
  <1>1. devMap[i] # Nil /\ devMap[i].online /\ spawning # i /\ pollers[i] = 1
    BY DEF IInv, PolledIffOnline
  <1>2. devMap[i] \in Entries
    BY <1>1 DEF IInv, TypeOK, Entries
  <1> QED
    BY <1>1, <1>2, DiscoveryAssumption DEF IInv, FailInv, Entries

\* What the two assignments of startPolling make of an entry.
LEMMA UpdatedEntry ==
  ASSUME NEW r \in Entries, NEW b \in BOOLEAN, NEW n \in 0..MaxFail
  PROVE  LET e == [r EXCEPT !.fails = n, !.online = b]
         IN  e \in Entries /\ e.ip = r.ip /\ e.online = b /\ e.fails = n
  BY DEF Entries

\* A poll writes one entry with the address it had: the device is online after
\* it with fewer than MaxFail failures and its poller, or offline without one.
LEMMA PollEntry ==
  ASSUME IInv, NEW i \in Ids, Poll(i)
  PROVE  \E e \in Entries :
           /\ devMap' = [devMap EXCEPT ![i] = e]
           /\ e.ip = devMap[i].ip
           /\ e.online => e.fails < MaxFail
           /\ pollers' = [pollers EXCEPT ![i] = IF e.online THEN 1 ELSE 0]
  <1>0. pollers[i] > 0 /\ (PollSucceeds(i) \/ PollFails(i))
    BY DEF Poll
  <1>1. /\ devMap[i] \in Entries /\ devMap[i].online /\ devMap[i].fails \in Nat
        /\ devMap[i].fails < MaxFail /\ pollers[i] = 1
    BY <1>0, PolledFacts
  <1>2. MaxFail \in Nat /\ 0 < MaxFail /\ 0 \in 0..MaxFail
        /\ devMap[i].fails + 1 \in 0..MaxFail
    BY <1>1, DiscoveryAssumption
  <1> DEFINE on == devMap[i].fails + 1 < MaxFail
             E(b, n) == [devMap[i] EXCEPT !.fails = n, !.online = b]
  <1>3. \A b \in BOOLEAN, n \in 0..MaxFail :
          E(b, n) \in Entries /\ E(b, n).ip = devMap[i].ip /\ E(b, n).online = b /\ E(b, n).fails = n
    BY <1>1, UpdatedEntry
  <1>4. CASE PollSucceeds(i)
    <2>1. devMap' = [devMap EXCEPT ![i] = E(TRUE, 0)]
      BY <1>4 DEF PollSucceeds, IInv, TypeOK
    <2>2. pollers' = [pollers EXCEPT ![i] = 1]
      BY <1>1, <1>4 DEF PollSucceeds, IInv, TypeOK
    <2>3. E(TRUE, 0) \in Entries /\ E(TRUE, 0).ip = devMap[i].ip /\ E(TRUE, 0).online = TRUE
          /\ E(TRUE, 0).fails = 0
      BY <1>2, <1>3
    <2> QED
      BY <1>2, <2>1, <2>2, <2>3
  <1>5. CASE PollFails(i) /\ on
    <2> DEFINE e == [devMap[i] EXCEPT !.fails = devMap[i].fails + 1]
    <2>1. devMap' = [devMap EXCEPT ![i] = e]
      BY <1>1, <1>2, <1>5 DEF PollFails, IInv, TypeOK
    <2>2. pollers' = [pollers EXCEPT ![i] = 1]
      BY <1>1, <1>2, <1>5 DEF PollFails, IInv, TypeOK
    <2>3. e \in Entries /\ e.ip = devMap[i].ip /\ e.online /\ e.fails = devMap[i].fails + 1
      BY <1>1, <1>2 DEF Entries
    <2> QED
      BY <1>5, <2>1, <2>2, <2>3
  <1>6. CASE PollFails(i) /\ ~on
    <2> DEFINE n == devMap[i].fails + 1
    <2>1. devMap' = [devMap EXCEPT ![i] = E(FALSE, n)]
      BY <1>1, <1>2, <1>6 DEF PollFails, IInv, TypeOK
    <2>2. pollers' = [pollers EXCEPT ![i] = 0]
      BY <1>1, <1>2, <1>6 DEF PollFails, IInv, TypeOK
    <2>3. E(FALSE, n) \in Entries /\ E(FALSE, n).ip = devMap[i].ip /\ E(FALSE, n).online = FALSE
      BY <1>2, <1>3
    <2> QED
      BY <2>1, <2>2, <2>3
  <1> QED
    BY <1>0, <1>4, <1>5, <1>6

\* One poll of startPolling, with either outcome.
LEMMA PollInv ==
  ASSUME IInv, NEW i \in Ids, Poll(i)
  PROVE  IInv'
  <1>0. /\ pollers[i] > 0
        /\ UNCHANGED <<port, iam, listener, spawning, template, whoIs, answers, found, panicked>>
    BY DEF Poll, mainVars
  <1>1. devMap[i] \in Entries /\ pollers[i] = 1 /\ spawning # i
    BY <1>0, PolledFacts
  <1>2. PICK e \in Entries : /\ devMap' = [devMap EXCEPT ![i] = e]
                             /\ e.ip = devMap[i].ip
                             /\ e.online => e.fails < MaxFail
                             /\ pollers' = [pollers EXCEPT ![i] = IF e.online THEN 1 ELSE 0]
    BY PollEntry
  <1>3. e # Nil
    BY EntryFacts
  <1>4. TypeOK'
    BY <1>0, <1>2 DEF IInv, TypeOK, Entries
  <1>5. PortInv' /\ SpawnInv'
    BY <1>0, <1>1, <1>2 DEF IInv, TypeOK, PortInv, SpawnInv
  <1>6. FailInv'
    BY <1>0, <1>2 DEF IInv, TypeOK, FailInv
  <1>7. TemplateInv'
    BY <1>0, <1>1, <1>2, EntryFacts DEF IInv, TypeOK, TemplateInv
  <1>8. PolledIffOnline'
    BY <1>0, <1>1, <1>2, <1>3 DEF IInv, TypeOK, PolledIffOnline
  <1> QED
    BY <1>4, <1>5, <1>6, <1>7, <1>8 DEF IInv

\* main's own Who-Is leaves discover.go's registry alone.
LEMMA MainInv ==
  ASSUME IInv, WhoIs \/ WhoIsDeadline \/ \E a \in Ips : Answer(a)
  PROVE  IInv'
  <1> USE DEF IInv, registry
  <1>1. UNCHANGED <<port, iam, listener, spawning, devMap, pollers, template, panicked>>
    BY DEF WhoIs, WhoIsDeadline, Answer
  <1>2. /\ whoIs' \in {"start", "waiting", "done"}
        /\ answers' \in Seq(Ips) /\ found' \in Ips \cup {Nil}
        /\ found' # Nil => whoIs' = "done"
    <2>1. CASE WhoIs
      BY <2>1 DEF WhoIs, TypeOK, FailInv
    <2>2. CASE WhoIsDeadline
      <3>1. answers # <<>> => Head(answers) \in Ips
        BY DEF TypeOK
      <3> QED
        BY <2>2, <3>1 DEF WhoIsDeadline, TypeOK
    <2>3. ASSUME NEW a \in Ips, Answer(a)
          PROVE  /\ answers' \in Seq(Ips)
                 /\ UNCHANGED <<whoIs, found>>
      BY <2>3 DEF Answer, TypeOK
    <2> QED
      BY <2>1, <2>2, <2>3 DEF TypeOK, FailInv
  <1>3. TypeOK'
    BY <1>1, <1>2 DEF TypeOK
  <1>4. PortInv' /\ SpawnInv' /\ FailInv' /\ TemplateInv' /\ PolledIffOnline'
    BY <1>1, <1>2 DEF PortInv, SpawnInv, FailInv, TemplateInv, PolledIffOnline
  <1> QED
    BY <1>3, <1>4

\* Every step preserves the invariant.
LEMMA NextIInv == IInv /\ [Next]_vars => IInv'
  <1> SUFFICES ASSUME IInv, [Next]_vars PROVE IInv'
    OBVIOUS
  <1>1. CASE UNCHANGED vars
    BY <1>1 DEF vars, registry, mainVars, IInv, TypeOK, PortInv, SpawnInv, FailInv,
                TemplateInv, PolledIffOnline
  <1>2. CASE Next
    <2>1. CASE IAMBind \/ ListenerBind \/ ListenerReadError \/ ListenerSpawn
      BY <2>1, IAMBindInv, ListenerBindInv, ListenerReadErrorInv, ListenerSpawnInv
    <2>2. CASE \E p \in Packets : IAMReceive(p) \/ ListenerReceive(p)
      BY <2>2, IAMReceiveInv, ListenerReceiveInv
    <2>3. CASE \E i \in Ids : AutoGeneratePoints(i) \/ Poll(i)
      BY <2>3, AutoGeneratePointsInv, PollInv
    <2>4. CASE WhoIs \/ WhoIsDeadline \/ \E a \in Ips : Answer(a)
      BY <2>4, MainInv
    <2> QED
      BY <1>2, <2>1, <2>2, <2>3, <2>4 DEF Next
  <1> QED
    BY <1>1, <1>2

\* The inductive invariant holds in every behaviour.
THEOREM Invariance == Spec => []IInv
  BY InitIInv, NextIInv, PTL DEF Spec

\* The registry, the goroutines and main's map keep their types: no device's
\* failure count passes MaxFail, however its polls and the I-Ams interleave.
THEOREM TypeCorrect == Spec => []TypeOK
  <1>1. IInv => TypeOK
    BY DEF IInv
  <1> QED
    BY <1>1, Invariance, PTL

\* A device has exactly one poller while it is online and started, and none
\* otherwise, for any interleaving of both listeners and any poll results.
THEOREM OnePoller == Spec => []PolledIffOnline
  <1>1. IInv => PolledIffOnline
    BY DEF IInv
  <1> QED
    BY <1>1, Invariance, PTL

\* In a process that is alive after both binds, the only registered device
\* without a template is the one main's listener is about to start: the safety
\* part of TemplateOrEnd.
THEOREM NoTemplateMissing ==
  Spec => [](\A i \in Ids : (iam # "start" /\ listener # "start" /\ devMap[i] # Nil
                               /\ template[i] = "none") => spawning = i)
  <1>1. IInv => \A i \in Ids : (iam # "start" /\ listener # "start" /\ devMap[i] # Nil
                                /\ template[i] = "none") => spawning = i
    BY DEF IInv, PortInv, TemplateInv
  <1> QED
    BY <1>1, Invariance, PTL

Kept(i) ==
  devMap[i] # Nil =>
    /\ devMap'[i] # Nil /\ devMap'[i].ip = devMap[i].ip
    /\ ~devMap[i].online => devMap'[i] = devMap[i]

\* Only the two registrations and the poller write an entry, the registrations
\* where there is none and the poller where the device is online.
LEMMA NextKeeps ==
  ASSUME IInv, [Next]_vars
  PROVE  (\A i \in Ids : Kept(i)) /\ (found # Nil => found' = found)
  <1>1. UNCHANGED devMap => \A i \in Ids : Kept(i)
    BY DEF Kept
  <1>2. ASSUME NEW p \in Packets, IAMReceive(p) \/ ListenerReceive(p)
        PROVE  \A i \in Ids : Kept(i)
    <2>1. devMap[p.id] = Nil /\ devMap' = [devMap EXCEPT ![p.id] = NewDevice(p)]
      BY <1>2 DEF IAMReceive, RegisterDevice, ListenerReceive
    <2>2. \A i \in Ids : devMap[i] # Nil => devMap'[i] = devMap[i]
      BY <2>1 DEF IInv, TypeOK
    <2> QED
      BY <2>2 DEF Kept
  <1>3. ASSUME NEW j \in Ids, Poll(j)
        PROVE  \A i \in Ids : Kept(i)
    <2>1. devMap[j] \in Entries /\ devMap[j].online
      BY <1>3, PolledFacts DEF Poll
    <2>2. PICK e \in Entries : devMap' = [devMap EXCEPT ![j] = e] /\ e.ip = devMap[j].ip
      BY <1>3, PollEntry
    <2>3. \A i \in Ids : devMap'[i] = IF i = j THEN e ELSE devMap[i]
      BY <2>2 DEF IInv, TypeOK
    <2>4. Kept(j)
      BY <2>1, <2>2, <2>3, EntryFacts DEF Kept
    <2> QED
      BY <2>3, <2>4 DEF Kept
  <1>4. found # Nil => found' = found
    BY DEF Next, vars, mainVars, IAMBind, ListenerBind, ListenerReadError, ListenerSpawn,
           IAMReceive, ListenerReceive, AutoGeneratePoints, Poll, WhoIs, WhoIsDeadline,
           Answer, IInv, FailInv
  <1> QED
    BY <1>1, <1>2, <1>3, <1>4 DEF Next, vars, registry, IAMBind, ListenerBind,
       ListenerReadError, ListenerSpawn, AutoGeneratePoints, WhoIs, WhoIsDeadline, Answer

\* A registered address is never replaced and an offline device never touched
\* again, whatever arrives at either listener.
THEOREM RegistryKept == Spec => EntriesKept
  <1>1. IInv /\ [Next]_vars =>
          [/\ \A i \in Ids : devMap[i] # Nil =>
                /\ devMap'[i] # Nil /\ devMap'[i].ip = devMap[i].ip
                /\ ~devMap[i].online => devMap'[i] = devMap[i]
           /\ found # Nil => found' = found]_vars
    BY NextKeeps DEF Kept
  <1> QED
    BY <1>1, Invariance, PTL DEF Spec, EntriesKept
=============================================================================
