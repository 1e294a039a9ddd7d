---------------------------- MODULE GatewayProofs ----------------------------
(***************************************************************************)
(* Gateway's safety properties, for any devices, configurations, channels, *)
(* retries and split answers.  IInv is the inductive invariant; the lemmas *)
(* show that each action of main.go, of the drivers, of the network and of *)
(* the uplink manager preserves it.                                        *)
(***************************************************************************)
EXTENDS Gateway, WellFoundedInduction, TLAPS

(***************************************************************************)
(* Facts about the operators                                               *)
(***************************************************************************)

\* A nonempty set of indices has a greatest one.
LEMMA Greatest ==
  ASSUME NEW n \in Nat, NEW S \in SUBSET (1..n), S # {}
  PROVE  \E x \in S : \A y \in S : y <= x
  <1> DEFINE T == {n - x : x \in S}
             R == OpToRel(<, Nat)
  <1>1. IsWellFoundedOn(R, Nat)
    BY NatLessThanWellFounded
  <1>2. T \subseteq Nat /\ T # {}
    <2>1. T \subseteq Nat
      OBVIOUS
    <2>2. PICK x \in S : TRUE
      OBVIOUS
    <2>3. n - x \in T
      BY <2>2
    <2> QED
      BY <2>1, <2>3
  <1> HIDE DEF T, R
  <1>3. PICK t \in T : \A u \in T : <<u, t>> \notin R
    BY <1>1, <1>2, WFMin
  <1>4. \A u \in T : ~(u < t)
    BY <1>2, <1>3 DEF R, OpToRel
  <1>5. PICK x \in S : t = n - x
    BY DEF T
  <1>6. \A y \in S : ~(n - y < n - x)
    BY <1>4, <1>5 DEF T
  <1> QED
    BY <1>6

\* Appending to a sequence of the elements of a set.
LEMMA AppendTyped ==
  ASSUME NEW S, NEW s \in Seq(S), NEW x \in S
  PROVE  Append(s, x) \in Seq(S)
  OBVIOUS

\* What a queue holds after two more chunks.
LEMMA TwoMore ==
  ASSUME NEW S, NEW s \in Seq(S), NEW a \in S, NEW b \in S
  PROVE  /\ s \o <<a, b>> \in Seq(S)
         /\ Len(s \o <<a, b>>) = Len(s) + 2
         /\ \A j \in 1..Len(s) + 2 : (s \o <<a, b>>)[j] =
              IF j <= Len(s) THEN s[j] ELSE IF j = Len(s) + 1 THEN a ELSE b
  <1>1. <<a, b>> \in Seq(S) /\ Len(<<a, b>>) = 2
    OBVIOUS
  <1> QED
    BY <1>1

\* The sizes of the chunks, and the configuration's sequences.
LEMMA SettingFacts ==
  ASSUME IInv
  PROVE  /\ \A o \in Devices : Sizes(o) \subseteq 0..2
         /\ \A d \in Devices : Points(d) \in Seq(PointConfs)
         /\ settings.channels \in Seq(ChannelConfs)
         /\ \A d \in Devices : client[d] # Nil => client[d] \in Devices
         /\ Nil \notin Devices /\ Nil \notin Values
  <1>1. \A o \in Devices : Sizes(o) \subseteq 0..2
    BY DEF Sizes
  <1>2. settings \in Settings /\ \A d \in Devices : client[d] # Nil => client[d] \in Devices
    BY DEF IInv, TypeOK, PoolTypeOK
  <1>3. /\ settings.channels \in Seq(ChannelConfs)
        /\ \A d \in Devices : Points(d) \in Seq(PointConfs)
    BY <1>2, GatewayAssumption DEF Points, Dev
  <1> QED
    BY <1>1, <1>2, <1>3, GatewayAssumption

\* Everything that is computed from the configuration stays as it is.
LEMMA SettingsFixed ==
  ASSUME UNCHANGED settings
  PROVE  \A d \in Devices :
           /\ PoolKey(d)' = PoolKey(d) /\ Points(d)' = Points(d) /\ Sizes(d)' = Sizes(d)
           /\ (Dev(d).protocol)' = Dev(d).protocol
           /\ Streamed(d)' <=> Streamed(d)
  <1> TAKE d \in Devices
  <1>1. Dev(d)' = Dev(d)
    BY DEF Dev
  <1>2. Points(d)' = Points(d) /\ Sizes(d)' = Sizes(d)
    BY <1>1 DEF Points, Sizes
  <1>4. PoolKey(d)' = PoolKey(d)
    BY <1>1 DEF PoolKey, Port, Effective, Whole
  <1>5. Streamed(d)' <=> Streamed(d)
    BY <1>1 DEF Streamed
  <1> QED
    BY <1>1, <1>2, <1>4, <1>5

\* What every step does to the pool: a client stays, and splits are never
\* forgotten.
Grows ==
  /\ settings' = settings
  /\ \A d \in Devices : client[d] # Nil => client'[d] = client[d]
  /\ \A o \in Devices : splits'[o] = 0 => splits[o] = 0

\* So a connection that a goroutine has for itself was so before.
LEMMA AloneBefore ==
  ASSUME IInv, Grows, NEW d \in Devices, client[d] # Nil, Alone(d)'
  PROVE  Alone(d)
  BY SettingFacts DEF Grows, Alone

\* What the client of a running goroutine knows stays as it is.
LEMMA CleanFixed ==
  ASSUME IInv, Grows, NEW d \in Devices, client[d] # Nil
  PROVE  Clean(d)' = Clean(d)
  <1>1. settings' = settings /\ client'[d] = client[d]
    BY DEF Grows
  <1>2. Points(d)' = Points(d) /\ Table(d)' = Table(d)
    BY <1>1 DEF Points, Table, Dev
  <1>3. \A k : Keys(d, k)' = Keys(d, k) /\ PointID(d, k)' = PointID(d, k)
    BY <1>2 DEF Keys, PointID
  <1> QED
    BY <1>2, <1>3 DEF Clean

(***************************************************************************)
(* Frames: what a step that leaves a part of the state alone preserves     *)
(***************************************************************************)

\* The steps that change no values, and move a goroutine at most from "idle" or
\* from "ask" to "wait".
LEMMA LoopFrame ==
  ASSUME IInv, Grows, UNCHANGED loop, pc' \in [Devices -> PCs],
         \A e \in Devices : \/ pc'[e] = pc[e]
                            \/ pc[e] = "ask" /\ pc'[e] = "wait"
                            \/ pc[e] = "idle" /\ pc'[e] \in {"cycle", "skipped"}
  PROVE  LoopTypeOK' /\ ResultInv' /\ ReportInv'
  <1>1. LoopTypeOK'
    BY DEF IInv, TypeOK, LoopTypeOK, loop
  <1>2. settings' = settings
    BY DEF Grows
  <1>3. ASSUME NEW d \in Devices
        PROVE  /\ Len(results'[d]) <= Len(Points(d)')
               /\ pc'[d] \in {"ask", "wait"} => Len(results'[d]) < Len(Points(d)')
               /\ pc'[d] \in {"idle", "skipped", "cycle", "send"} => results'[d] = <<>>
    BY <1>2, SettingsFixed DEF IInv, ResultInv, ResultsOK, loop
  <1>4. ASSUME NEW d \in Devices, client[d] # Nil, NEW v, Fresh(d, v)
        PROVE  Fresh(d, v)'
    BY <1>2, <1>4, AloneBefore, SettingsFixed DEF Fresh
  <1>5. ASSUME NEW d \in Devices, NEW n \in 1..Len(results[d]), results[d][n] # Nil
        PROVE  client[d] # Nil
    <2>1. results[d] # <<>>
      BY DEF IInv, TypeOK, LoopTypeOK
    <2> QED
      BY <2>1 DEF IInv, ResultInv, ResultsOK, PoolInv
  <1>6. ResultInv'
    BY <1>3, <1>4, <1>5 DEF IInv, ResultInv, ResultsOK, loop, Fresh
  <1>7. ReportInv'
    <2> SUFFICES ASSUME NEW d \in Devices, pc'[d] = "send" PROVE ReportOK(d)'
      BY DEF ReportInv, ReportOK
    <2>1. pc[d] = "send" /\ ReportOK(d) /\ client[d] # Nil
      BY DEF IInv, ReportInv, PoolInv
    <2> QED
      BY <1>2, <1>4, <2>1, CleanFixed, SettingsFixed DEF ReportOK, loop, Fresh
  <1> QED
    BY <1>1, <1>6, <1>7

\* The values and the report of a goroutine that does not move.
LEMMA OtherFrame ==
  ASSUME IInv, Grows, NEW e \in Devices, pc'[e] = pc[e], results'[e] = results[e],
         report'[e] = report[e]
  PROVE  ResultsOK(e)' /\ ReportOK(e)'
  <1>1. settings' = settings
    BY DEF Grows
  <1>2. client[e] # Nil => \A v : Fresh(e, v) => Fresh(e, v)'
    BY <1>1, AloneBefore, SettingsFixed DEF Fresh
  <1>3. (\E n \in 1..Len(results[e]) : results[e][n] # Nil) => client[e] # Nil
    <2>1. results[e] # <<>> => client[e] # Nil
      BY DEF IInv, ResultInv, ResultsOK, PoolInv
    <2> QED
      BY <2>1 DEF IInv, TypeOK, LoopTypeOK
  <1>4. ResultsOK(e)'
    <2>1. ResultsOK(e)
      BY DEF IInv, ResultInv
    <2> QED
      BY <1>1, <1>2, <1>3, <2>1, SettingsFixed DEF ResultsOK, Fresh
  <1>5. ReportOK(e)'
    <2>1. ReportOK(e) /\ (pc[e] = "send" => client[e] # Nil)
      BY DEF IInv, ReportInv, PoolInv
    <2> QED
      BY <1>1, <1>2, <2>1, CleanFixed, SettingsFixed DEF ReportOK, Fresh
  <1> QED
    BY <1>4, <1>5

\* The steps outside of SendToAll: a goroutine starts only when the channels are
\* complete, and none leaves SendToAll.
LEMMA SendFrame ==
  ASSUME IInv, UNCHANGED upVars, panicked' \in BOOLEAN,
         \A e \in Devices : /\ pc[e] = "send" => pc'[e] = "send"
                            /\ pc[e] = "idle" /\ pc'[e] # "idle" => Up!Ready
  PROVE  SendTypeOK' /\ SendInv'
  <1>1. SendTypeOK'
    BY DEF IInv, TypeOK, SendTypeOK, upVars
  <1>2. SendInv'
    BY DEF IInv, SendInv, upVars, Up!Ready
  <1> QED
    BY <1>1, <1>2

\* The steps that do not touch the connections: no goroutine begins a cycle on
\* a queue that is not empty, and only a reader may stop waiting.
LEMMA WireFrame ==
  ASSUME IInv, UNCHANGED <<pool, wire>>,
         \A e \in Devices : pc[e] \in {"idle", "skipped"} <=> pc'[e] \in {"idle", "skipped"},
         \A e \in Devices : pc[e] = "wait" /\ pc'[e] # "wait" =>
                              queue[client[e]] = <<>> /\ asked[client[e]] = 0
  PROVE  PoolTypeOK' /\ WireTypeOK' /\ PoolInv' /\ QueueInv'
  <1>1. PoolTypeOK' /\ WireTypeOK'
    BY DEF IInv, TypeOK, PoolTypeOK, WireTypeOK, pool, wire
  <1>2. settings' = settings
    BY DEF pool
  <1>3. PoolInv'
    BY <1>2, SettingsFixed DEF IInv, PoolInv, pool, wire
  <1>4. \A d \in Devices : Alone(d)' <=> Alone(d)
    BY DEF Alone, pool, wire
  <1>5. ASSUME NEW d \in Devices, client[d] # Nil
        PROVE  asked[client[d]] \in Nat /\ queue[client[d]] \in Seq(Chunks)
    BY <1>5, SettingFacts DEF IInv, TypeOK, WireTypeOK
  <1>6. QueueInv'
    BY <1>2, <1>4, <1>5, SettingsFixed DEF IInv, QueueInv, pool, wire
  <1> QED
    BY <1>1, <1>3, <1>6

(***************************************************************************)
(* The actions                                                             *)
(***************************************************************************)

\* main starts with an empty pool and no channel.
LEMMA InitIInv == Init => IInv
  <1> SUFFICES ASSUME Init PROVE IInv
    OBVIOUS
  <1> USE GatewayAssumption DEF Init, Up!Init
  <1>1. PoolTypeOK /\ WireTypeOK
    BY DEF PoolTypeOK, WireTypeOK
  <1>2. LoopTypeOK
    BY DEF LoopTypeOK, PCs
  <1>3. SendTypeOK
    <2>1. channels \in Seq(ChannelConfs) /\ uplinks \in Seq(STRING)
      OBVIOUS
    <2>2. /\ at \in [Devices -> Nat] /\ tried \in [Devices -> SUBSET Nat]
          /\ built \in Nat /\ blocked \subseteq Devices
      OBVIOUS
    <2> QED
      BY <2>1, <2>2 DEF SendTypeOK
  <1>4. PoolInv /\ SendInv
    BY DEF PoolInv, SendInv
  <1>5. \A d \in Devices : Len(Points(d)) \in Nat
    BY DEF Points, Dev
  <1>6. ResultInv /\ ReportInv
    BY <1>5 DEF ResultInv, ResultsOK, ReportInv, ReportOK
  <1>7. QueueInv
    BY DEF QueueInv
  <1> QED
    BY <1>1, <1>2, <1>3, <1>4, <1>6, <1>7 DEF IInv, TypeOK

\* NewUplinkManagerFromConfig takes one more entry, before any goroutine runs.
LEMMA BuildInv ==
  ASSUME IInv, ~panicked, Build
  PROVE  IInv'
  <1> USE DEF Build, Up!AddUplink, Up!sendVars
  <1>1. UNCHANGED <<pool, wire, pc, loop, at, tried, blocked, panicked>>
    OBVIOUS
  <1>2. LoopTypeOK' /\ ResultInv' /\ ReportInv'
    BY <1>1, LoopFrame DEF Grows, pool, wire, IInv, TypeOK, LoopTypeOK
  <1>3. PoolTypeOK' /\ WireTypeOK' /\ PoolInv' /\ QueueInv'
    BY <1>1, WireFrame
  <1>5. SendTypeOK'
    <2>1. channels[built + 1] \in ChannelConfs
      BY DEF IInv, TypeOK, SendTypeOK
    <2>2. channels[built + 1].type \in STRING
      BY <2>1 DEF ChannelConfs
    <2>4. uplinks' \in {uplinks, Append(uplinks, channels[built + 1].type)}
      OBVIOUS
    <2>3. uplinks' \in Seq(STRING)
      <3>1. uplinks \in Seq(STRING)
        BY DEF IInv, TypeOK, SendTypeOK
      <3>2. Append(uplinks, channels[built + 1].type) \in Seq(STRING)
        BY <2>2, <3>1, AppendTyped
      <3> QED
        BY <2>4, <3>1, <3>2
    <2> QED
      BY <1>1, <2>3 DEF IInv, TypeOK, SendTypeOK
  <1>6. \A d \in Devices : pc[d] = "idle"
    BY DEF IInv, SendInv, Up!Ready, TypeOK, SendTypeOK
  <1>7. SendInv'
    BY <1>1, <1>6 DEF IInv, SendInv
  <1> QED
    BY <1>2, <1>3, <1>5, <1>7 DEF IInv, TypeOK

\* main leaves a device out, or ends in the driver's Init.
LEMMA SetupEndsInv ==
  ASSUME IInv, ~panicked, NEW d \in Devices, pc[d] = "idle", Up!Ready,
         SetupSkips(d) \/ SetupPanics(d), UNCHANGED <<loop, upVars>>
  PROVE  IInv'
  <1>1. /\ UNCHANGED <<pool, wire>>
        /\ \/ pc' = [pc EXCEPT ![d] = "skipped"] /\ UNCHANGED panicked
           \/ UNCHANGED pc /\ panicked' = TRUE
    BY DEF SetupSkips, SetupPanics
  <1>2. pc' \in [Devices -> PCs]
    BY <1>1 DEF IInv, TypeOK, LoopTypeOK, PCs
  <1>3. \A e \in Devices : pc'[e] = pc[e] \/ (pc[e] = "idle" /\ pc'[e] = "skipped")
    BY <1>1 DEF IInv, TypeOK, LoopTypeOK
  <1>4. LoopTypeOK' /\ ResultInv' /\ ReportInv'
    BY <1>1, <1>2, <1>3, LoopFrame DEF Grows, pool, wire
  <1>5. PoolTypeOK' /\ WireTypeOK' /\ PoolInv' /\ QueueInv'
    BY <1>1, <1>3, WireFrame
  <1>7. panicked' \in BOOLEAN
    BY <1>1 DEF IInv, TypeOK, SendTypeOK
  <1>8. SendTypeOK' /\ SendInv'
    BY <1>3, <1>7, SendFrame
  <1> QED
    BY <1>4, <1>5, <1>8 DEF IInv, TypeOK

\* main takes a client from the pool: the connection is shared from now on.
LEMMA SetupReusesInv ==
  ASSUME IInv, ~panicked, NEW d \in Devices, pc[d] = "idle", Up!Ready,
         SetupReuses(d), UNCHANGED <<loop, upVars>>
  PROVE  IInv'
  <1>1. PICK o \in Pooled(d) : Start(d, o)
    BY DEF SetupReuses
  <1>2. UNCHANGED <<settings, pooled, conn, asked, queue, splits, panicked>>
    BY DEF SetupReuses, wire
  <1>3. o \in pooled /\ o \in Devices /\ PoolKey(o) = PoolKey(d)
    BY <1>1 DEF Pooled, IInv, TypeOK, PoolTypeOK
  <1>4. client[d] = Nil /\ d \notin pooled /\ o # d /\ client[o] = o
    BY <1>3, SettingFacts DEF IInv, PoolInv
  <1>5. /\ \A e \in Devices : client'[e] = IF e = d THEN o ELSE client[e]
        /\ \A e \in Devices : pc'[e] = IF e = d THEN "cycle" ELSE pc[e]
        /\ pc' \in [Devices -> PCs]
        /\ client' \in [Devices -> pooled \cup {Nil}]
    BY <1>1, <1>3 DEF Start, IInv, TypeOK, PoolTypeOK, LoopTypeOK, PCs
  <1>6. Grows
    BY <1>2, <1>4, <1>5 DEF Grows
  <1>7. LoopTypeOK' /\ ResultInv' /\ ReportInv'
    BY <1>5, <1>6, LoopFrame
  <1>8. PoolTypeOK' /\ WireTypeOK'
    BY <1>2, <1>5 DEF IInv, TypeOK, PoolTypeOK, WireTypeOK
  <1>9. PoolInv'
    <2>1. \A e \in Devices : client'[e] # Nil <=> pc'[e] \notin {"idle", "skipped"}
      BY <1>3, <1>5, SettingFacts DEF IInv, PoolInv
    <2>2. \A e, p \in Devices : client'[e] = p => PoolKey(p) = PoolKey(e)
      BY <1>3, <1>5 DEF IInv, PoolInv
    <2>3. \A p \in pooled : client'[p] = p
      BY <1>4, <1>5 DEF IInv, PoolInv, TypeOK, PoolTypeOK
    <2> QED
      BY <1>2, <2>1, <2>2, <2>3, SettingsFixed DEF IInv, PoolInv
  <1>10. SendTypeOK' /\ SendInv'
    <2>1. panicked' \in BOOLEAN
      BY <1>2 DEF IInv, TypeOK, SendTypeOK
    <2> QED
      BY <1>5, <2>1, SendFrame
  <1>12. QueueInv'
    <2>1. ~Alone(d)'
      BY <1>3, <1>4, <1>5 DEF Alone
    <2>2. ASSUME NEW e \in Devices, e # d, client[e] # Nil, Alone(e)'
          PROVE  Alone(e)
      BY <1>6, <2>2, AloneBefore
    <2>3. ASSUME NEW e \in Devices, client'[e] # Nil, Alone(e)'
          PROVE  /\ asked'[client'[e]] + Len(queue'[client'[e]]) <= (IF pc'[e] = "wait" THEN 1 ELSE 0)
                 /\ \A n \in 1..Len(queue'[client'[e]]) :
                      queue'[client'[e]][n].from = "start" /\ e \notin queue'[client'[e]][n].since
      <3>1. e # d /\ client[e] # Nil /\ Alone(e)
        BY <1>5, <2>1, <2>2, <2>3
      <3> QED
        BY <1>2, <1>5, <3>1 DEF IInv, QueueInv
    <2>4. \A p \in Devices : \A n \in 1..Len(queue'[p]) : queue'[p][n].size \in Sizes(p)
      BY <1>2 DEF IInv, QueueInv
    <2> QED
      BY <1>2, <2>3, <2>4, SettingsFixed DEF QueueInv
  <1> QED
    BY <1>7, <1>8, <1>9, <1>10, <1>12 DEF IInv, TypeOK

\* main makes a client: its connection is new and nobody else's.
LEMMA SetupCreatesInv ==
  ASSUME IInv, ~panicked, NEW d \in Devices, pc[d] = "idle", Up!Ready,
         SetupCreates(d), UNCHANGED <<loop, upVars>>
  PROVE  IInv'
  <1>1. /\ UNCHANGED <<settings, asked, queue, splits, panicked>>
        /\ pooled' = pooled \cup {d} /\ conn' = [conn EXCEPT ![d] = "up"]
        /\ Start(d, d)
    BY DEF SetupCreates
  <1>2. /\ client[d] = Nil /\ d \notin pooled
        /\ asked[d] = 0 /\ queue[d] = <<>>
        /\ \A e \in Devices : client[e] # d
    BY SettingFacts DEF IInv, PoolInv, TypeOK, PoolTypeOK
  <1>3. /\ \A e \in Devices : client'[e] = IF e = d THEN d ELSE client[e]
        /\ \A e \in Devices : pc'[e] = IF e = d THEN "cycle" ELSE pc[e]
        /\ \A e \in Devices : conn'[e] = IF e = d THEN "up" ELSE conn[e]
        /\ pc' \in [Devices -> PCs]
        /\ client' \in [Devices -> pooled' \cup {Nil}]
    BY <1>1 DEF Start, IInv, TypeOK, PoolTypeOK, WireTypeOK, LoopTypeOK, PCs
  <1>4. Grows
    BY <1>1, <1>2, <1>3 DEF Grows
  <1>5. LoopTypeOK' /\ ResultInv' /\ ReportInv'
    BY <1>3, <1>4, LoopFrame
  <1>6. PoolTypeOK' /\ WireTypeOK'
    BY <1>1, <1>3 DEF IInv, TypeOK, PoolTypeOK, WireTypeOK
  <1>7. PoolInv'
    <2>1. \A e \in Devices : client'[e] # Nil <=> pc'[e] \notin {"idle", "skipped"}
      BY <1>3, SettingFacts DEF IInv, PoolInv
    <2>2. \A e, p \in Devices : client'[e] = p => PoolKey(p) = PoolKey(e)
      BY <1>3 DEF IInv, PoolInv
    <2>3. \A p \in pooled' : client'[p] = p /\ conn'[p] # "none"
      BY <1>1, <1>2, <1>3 DEF IInv, PoolInv, TypeOK, PoolTypeOK
    <2>4. \A p \in Devices \ pooled' : conn'[p] = "none" /\ asked'[p] = 0 /\ queue'[p] = <<>>
      BY <1>1, <1>3 DEF IInv, PoolInv
    <2>5. \A p \in Devices : conn'[p] = "broken" => Streamed(p) /\ asked'[p] = 0
      BY <1>1, <1>3 DEF IInv, PoolInv
    <2> QED
      BY <1>1, <2>1, <2>2, <2>3, <2>4, <2>5, SettingsFixed DEF PoolInv
  <1>8. SendTypeOK' /\ SendInv'
    <2>1. panicked' \in BOOLEAN
      BY <1>1 DEF IInv, TypeOK, SendTypeOK
    <2> QED
      BY <1>3, <2>1, SendFrame
  <1>10. QueueInv'
    <2>1. ASSUME NEW e \in Devices, e # d, client[e] # Nil, Alone(e)'
          PROVE  Alone(e)
      BY <1>4, <2>1, AloneBefore
    <2>2. ASSUME NEW e \in Devices, client'[e] # Nil, Alone(e)'
          PROVE  /\ asked'[client'[e]] + Len(queue'[client'[e]]) <= (IF pc'[e] = "wait" THEN 1 ELSE 0)
                 /\ \A n \in 1..Len(queue'[client'[e]]) :
                      queue'[client'[e]][n].from = "start" /\ e \notin queue'[client'[e]][n].since
      <3>1. CASE e = d
        <4>1. client'[e] = d /\ asked'[d] = 0 /\ queue'[d] = <<>> /\ pc'[e] = "cycle"
          BY <1>1, <1>2, <1>3, <3>1
        <4> QED
          BY <4>1
      <3>2. CASE e # d
        <4>1. client[e] # Nil /\ Alone(e) /\ client'[e] = client[e] /\ pc'[e] = pc[e]
          BY <1>3, <2>1, <2>2, <3>2
        <4> QED
          BY <1>1, <4>1 DEF IInv, QueueInv
      <3> QED
        BY <3>1, <3>2
    <2>3. \A p \in Devices : \A n \in 1..Len(queue'[p]) : queue'[p][n].size \in Sizes(p)
      BY <1>1 DEF IInv, QueueInv
    <2> QED
      BY <1>1, <2>2, <2>3, SettingsFixed DEF QueueInv
  <1> QED
    BY <1>5, <1>6, <1>7, <1>8, <1>10 DEF IInv, TypeOK

\* An answer arrives.  On a connection that is not shared it takes the place of
\* the request it answers, unless it is split.
LEMMA AnswerInv ==
  ASSUME IInv, ~panicked, NEW o \in Devices, Answer(o)
  PROVE  IInv'
  <1>1. /\ conn[o] = "up" /\ asked[o] > 0 /\ asked' = [asked EXCEPT ![o] = @ - 1]
        /\ UNCHANGED <<pool, conn, pc, loop, upVars, panicked>>
    BY DEF Answer
  <1> DEFINE one(n) == Append(queue[o], Chunk("start", n))
             two(n, k) == queue[o] \o <<Chunk("start", n), Chunk("middle", k)>>
  <1>2. \/ /\ \E n \in Sizes(o) : queue' = [queue EXCEPT ![o] = one(n)]
           /\ splits' = splits
        \/ /\ \E n, k \in Sizes(o) : queue' = [queue EXCEPT ![o] = two(n, k)]
           /\ splits' = [splits EXCEPT ![o] = @ + 1]
    BY DEF Answer
  <1>3. \A n \in 0..2, f \in {"start", "middle"} :
          Chunk(f, n) \in Chunks /\ Chunk(f, n).size = n /\ Chunk(f, n).from = f /\ Chunk(f, n).since = {}
    BY DEF Chunk, Chunks
  <1>4. queue[o] \in Seq(Chunks) /\ asked[o] \in Nat /\ splits[o] \in Nat
    BY DEF IInv, TypeOK, WireTypeOK
  <1>5. \A n \in Sizes(o) : /\ one(n) \in Seq(Chunks) /\ Len(one(n)) = Len(queue[o]) + 1
                            /\ \A j \in 1..Len(one(n)) : one(n)[j] =
                                 IF j <= Len(queue[o]) THEN queue[o][j] ELSE Chunk("start", n)
    BY <1>3, <1>4, SettingFacts
  <1>6. ASSUME NEW n \in Sizes(o), NEW k \in Sizes(o)
        PROVE  /\ two(n, k) \in Seq(Chunks)
               /\ \A j \in 1..Len(two(n, k)) : two(n, k)[j].size \in Sizes(o)
    <2> DEFINE a == Chunk("start", n)
               b == Chunk("middle", k)
    <2>1. a \in Chunks /\ b \in Chunks /\ a.size = n /\ b.size = k
      BY <1>3, <1>6, SettingFacts
    <2>2. \A j \in 1..Len(queue[o]) : queue[o][j].size \in Sizes(o)
      BY DEF IInv, QueueInv
    <2> HIDE DEF a, b
    <2>3. /\ queue[o] \o <<a, b>> \in Seq(Chunks)
          /\ Len(queue[o] \o <<a, b>>) = Len(queue[o]) + 2
          /\ \A j \in 1..Len(queue[o]) + 2 : (queue[o] \o <<a, b>>)[j] =
               IF j <= Len(queue[o]) THEN queue[o][j]
               ELSE IF j = Len(queue[o]) + 1 THEN a ELSE b
      BY <1>4, <2>1, TwoMore
    <2>4. \A j \in 1..Len(queue[o]) + 2 : (queue[o] \o <<a, b>>)[j].size \in Sizes(o)
      BY <1>4, <1>6, <2>1, <2>2, <2>3
    <2> QED
      BY <2>3, <2>4 DEF a, b
  <1> HIDE DEF one, two
  <1>7. WireTypeOK'
    <2>1. queue' \in [Devices -> Seq(Chunks)]
      BY <1>2, <1>5, <1>6 DEF IInv, TypeOK, WireTypeOK
    <2>2. asked' \in [Devices -> Nat]
      BY <1>1, <1>4 DEF IInv, TypeOK, WireTypeOK
    <2>3. splits' \in [Devices -> Nat]
      <3>1. splits' = splits \/ splits' = [splits EXCEPT ![o] = splits[o] + 1]
        BY <1>2
      <3> QED
        <4>1. CASE splits' = splits
          BY <4>1 DEF IInv, TypeOK, WireTypeOK
        <4>2. CASE splits' = [splits EXCEPT ![o] = splits[o] + 1]
          BY <1>4, <4>2 DEF IInv, TypeOK, WireTypeOK
        <4> QED
          BY <3>1, <4>1, <4>2
    <2> QED
      BY <1>1, <2>1, <2>2, <2>3 DEF IInv, TypeOK, WireTypeOK
  <1>8. PoolTypeOK'
    BY <1>1 DEF IInv, TypeOK, PoolTypeOK, pool
  <1>9. Grows
    BY <1>1, <1>2, <1>4 DEF Grows, pool, IInv, TypeOK, WireTypeOK
  <1>10. LoopTypeOK' /\ ResultInv' /\ ReportInv'
    BY <1>1, <1>9, LoopFrame DEF IInv, TypeOK, LoopTypeOK
  <1>11. SendTypeOK' /\ SendInv'
    BY <1>1, SendFrame DEF IInv, TypeOK, SendTypeOK
  <1>12. \A e \in Devices : e # o => queue'[e] = queue[e] /\ asked'[e] = asked[e]
    BY <1>1, <1>2 DEF IInv, TypeOK, WireTypeOK
  <1>13. PoolInv'
    <2>1. o \in pooled
      BY <1>1 DEF IInv, PoolInv
    <2> QED
      BY <1>1, <1>12, <2>1, SettingsFixed DEF IInv, PoolInv, pool
  <1>15. QueueInv'
    <2>1. \A j \in 1..Len(queue'[o]) : queue'[o][j].size \in Sizes(o)
      <3>1. CASE \E n \in Sizes(o) : queue' = [queue EXCEPT ![o] = one(n)]
        <4>1. PICK n \in Sizes(o) : queue'[o] = one(n)
          BY <3>1 DEF IInv, TypeOK, WireTypeOK
        <4>2. \A j \in 1..Len(queue[o]) : queue[o][j].size \in Sizes(o)
          BY DEF IInv, QueueInv
        <4> QED
          BY <1>3, <1>4, <1>5, <4>1, <4>2, SettingFacts
      <3>2. CASE \E n, k \in Sizes(o) : queue' = [queue EXCEPT ![o] = two(n, k)]
        BY <1>6, <3>2 DEF IInv, TypeOK, WireTypeOK
      <3> QED
        BY <1>2, <3>1, <3>2
    <2>2. ASSUME NEW d \in Devices, client[d] # Nil, Alone(d)'
          PROVE  /\ asked'[client[d]] + Len(queue'[client[d]]) <= (IF pc[d] = "wait" THEN 1 ELSE 0)
                 /\ \A j \in 1..Len(queue'[client[d]]) :
                      queue'[client[d]][j].from = "start" /\ d \notin queue'[client[d]][j].since
      <3>1. Alone(d)
        BY <1>9, <2>2, AloneBefore
      <3>2. CASE client[d] # o
        BY <1>12, <2>2, <3>1, <3>2, SettingFacts DEF IInv, QueueInv
      <3>3. CASE client[d] = o
        <4>1. splits'[o] = 0
          BY <1>1, <2>2, <3>3 DEF Alone, pool
        <4>2. PICK n \in Sizes(o) : queue' = [queue EXCEPT ![o] = one(n)]
          BY <1>2, <1>4, <4>1 DEF IInv, TypeOK, WireTypeOK
        <4>3. queue'[o] = one(n) /\ asked'[o] = asked[o] - 1
          BY <1>1, <4>2 DEF IInv, TypeOK, WireTypeOK
        <4>4. /\ asked[o] + Len(queue[o]) <= (IF pc[d] = "wait" THEN 1 ELSE 0)
              /\ \A j \in 1..Len(queue[o]) : queue[o][j].from = "start" /\ d \notin queue[o][j].since
          BY <2>2, <3>1, <3>3 DEF IInv, QueueInv
        <4>5. asked'[o] + Len(queue'[o]) = asked[o] + Len(queue[o])
          BY <1>4, <1>5, <4>3
        <4>6. n \in 0..2
          BY SettingFacts
        <4>7. \A j \in 1..Len(queue'[o]) :
                queue'[o][j].from = "start" /\ d \notin queue'[o][j].since
          BY <1>3, <1>4, <1>5, <4>3, <4>4, <4>6
        <4> QED
          BY <3>3, <4>4, <4>5, <4>7
      <3> QED
        BY <3>2, <3>3
    <2> QED
      BY <1>1, <1>12, <2>1, <2>2, SettingsFixed DEF IInv, QueueInv, pool
  <1> QED
    BY <1>7, <1>8, <1>10, <1>11, <1>13, <1>15 DEF IInv, TypeOK

\* A connection is lost, with or without what had arrived on it.
LEMMA BreakInv ==
  ASSUME IInv, ~panicked, NEW o \in Devices, Break(o)
  PROVE  IInv'
  <1>1. /\ conn[o] = "up" /\ Streamed(o)
        /\ UNCHANGED <<pool, splits, pc, loop, upVars, panicked>>
    BY DEF Break
  <1>2. PICK q \in {queue[o], <<>>} : queue' = [queue EXCEPT ![o] = q]
    BY DEF Break
  <1>3. /\ \A e \in Devices : conn'[e] = IF e = o THEN "broken" ELSE conn[e]
        /\ \A e \in Devices : asked'[e] = IF e = o THEN 0 ELSE asked[e]
        /\ \A e \in Devices : queue'[e] = IF e = o THEN q ELSE queue[e]
    BY <1>2 DEF Break, IInv, TypeOK, WireTypeOK
  <1>4. queue[o] \in Seq(Chunks) /\ asked[o] \in Nat /\ q \in Seq(Chunks)
    <2>1. queue[o] \in Seq(Chunks) /\ asked[o] \in Nat
      BY DEF IInv, TypeOK, WireTypeOK
    <2>2. <<>> \in Seq(Chunks)
      OBVIOUS
    <2> QED
      BY <2>1, <2>2
  <1>5. WireTypeOK'
    BY <1>1, <1>2, <1>4 DEF Break, IInv, TypeOK, WireTypeOK
  <1>6. PoolTypeOK'
    BY <1>1 DEF IInv, TypeOK, PoolTypeOK, pool
  <1>7. Grows
    BY <1>1 DEF Grows, pool
  <1>8. LoopTypeOK' /\ ResultInv' /\ ReportInv'
    BY <1>1, <1>7, LoopFrame DEF IInv, TypeOK, LoopTypeOK
  <1>9. SendTypeOK' /\ SendInv'
    BY <1>1, SendFrame DEF IInv, TypeOK, SendTypeOK
  <1>10. PoolInv'
    <2>1. o \in pooled
      BY <1>1 DEF IInv, PoolInv
    <2>2. \A p \in pooled : client[p] = p /\ conn'[p] # "none"
      BY <1>3 DEF IInv, PoolInv, TypeOK, PoolTypeOK
    <2>3. \A p \in Devices \ pooled : conn'[p] = "none" /\ asked'[p] = 0 /\ queue'[p] = <<>>
      BY <1>3, <2>1 DEF IInv, PoolInv
    <2>4. \A p \in Devices : conn'[p] = "broken" => Streamed(p) /\ asked'[p] = 0
      BY <1>1, <1>3 DEF IInv, PoolInv
    <2> QED
      BY <1>1, <2>2, <2>3, <2>4, SettingsFixed DEF IInv, PoolInv, pool
  <1>12. QueueInv'
    <2>1. \A p \in Devices : \A n \in 1..Len(queue'[p]) : queue'[p][n].size \in Sizes(p)
      BY <1>3 DEF IInv, QueueInv
    <2>2. ASSUME NEW d \in Devices, client[d] # Nil, Alone(d)'
          PROVE  /\ asked'[client[d]] + Len(queue'[client[d]]) <= (IF pc[d] = "wait" THEN 1 ELSE 0)
                 /\ \A j \in 1..Len(queue'[client[d]]) :
                      queue'[client[d]][j].from = "start" /\ d \notin queue'[client[d]][j].since
      <3>1. Alone(d)
        BY <1>7, <2>2, AloneBefore
      <3>2. /\ asked[client[d]] + Len(queue[client[d]]) <= (IF pc[d] = "wait" THEN 1 ELSE 0)
            /\ \A j \in 1..Len(queue[client[d]]) :
                 queue[client[d]][j].from = "start" /\ d \notin queue[client[d]][j].since
        BY <2>2, <3>1 DEF IInv, QueueInv
      <3>3. CASE client[d] # o
        BY <1>3, <2>2, <3>2, <3>3, SettingFacts
      <3>4. CASE client[d] = o
        <4>1. asked'[o] = 0 /\ queue'[o] = q
          BY <1>3
        <4>2. CASE q = <<>>
          BY <3>4, <4>1, <4>2
        <4>3. CASE q = queue[o]
          <5>1. Len(queue[o]) \in Nat
            BY <1>4
          <5> QED
            BY <1>4, <3>2, <3>4, <4>1, <4>3, <5>1
        <4> QED
          BY <4>2, <4>3
      <3> QED
        BY <3>3, <3>4
    <2> QED
      BY <1>1, <2>1, <2>2, SettingsFixed DEF QueueInv, pool
  <1> QED
    BY <1>5, <1>6, <1>8, <1>9, <1>10, <1>12 DEF IInv, TypeOK

\* Marking a queue as old changes neither its length nor its sizes.
LEMMA SeenFacts ==
  ASSUME NEW q \in Seq(Chunks), NEW d \in Devices
  PROVE  /\ Seen(q, d) \in Seq(Chunks) /\ Len(Seen(q, d)) = Len(q)
         /\ \A n \in 1..Len(q) : Seen(q, d)[n].size = q[n].size
  <1> DEFINE old(c) == [c EXCEPT !.since = c.since \cup {d}]
  <1>1. \A c \in Chunks : old(c) \in Chunks /\ old(c).size = c.size
    BY DEF Chunks
  <1> HIDE DEF old
  <1>2. DOMAIN q = 1..Len(q) /\ Len(q) \in Nat /\ \A n \in 1..Len(q) : q[n] \in Chunks
    OBVIOUS
  <1>3. Seen(q, d) = [n \in 1..Len(q) |-> old(q[n])]
    BY <1>2 DEF Seen, old
  <1>4. Seen(q, d) \in [1..Len(q) -> Chunks]
    BY <1>1, <1>2, <1>3
  <1> QED
    BY <1>1, <1>2, <1>3, <1>4

\* A cycle begins: what is left in the queue is old from now on, and nothing is
\* left when the goroutine has the connection for itself.
LEMMA BeginCycleInv ==
  ASSUME IInv, ~panicked, NEW d \in Devices, BeginCycle(d)
  PROVE  IInv'
  <1> DEFINE o == client[d]
             q == queue[o]
             old == Seen(q, d)
  <1>1. /\ pc[d] = "cycle"
        /\ pc' = [pc EXCEPT ![d] = IF Dev(d).protocol = "http" \/ Points(d) = <<>>
                                   THEN "merge" ELSE "ask"]
        /\ retry' = [retry EXCEPT ![d] = 1]
        /\ results' = [results EXCEPT ![d] = <<>>]
        /\ queue' = [queue EXCEPT ![o] = old]
        /\ UNCHANGED <<pool, conn, asked, splits, report, upVars, panicked>>
    BY DEF BeginCycle
  <1>2. o \in Devices /\ o \in pooled /\ o # Nil /\ q \in Seq(Chunks)
    BY <1>1, SettingFacts DEF IInv, PoolInv, TypeOK, PoolTypeOK, WireTypeOK
  <1>3. /\ old \in Seq(Chunks) /\ Len(old) = Len(q)
        /\ \A n \in 1..Len(q) : old[n].size = q[n].size
    BY <1>2, SeenFacts
  <1> HIDE DEF o, q, old
  <1>4. /\ \A e \in Devices : e # d => pc'[e] = pc[e]
        /\ pc'[d] \in {"merge", "ask"}
        /\ pc'[d] = "ask" => Points(d) # <<>>
        /\ pc' \in [Devices -> PCs]
    BY <1>1 DEF IInv, TypeOK, LoopTypeOK, PCs
  <1>5. \A e \in Devices : queue'[e] = IF e = o THEN old ELSE queue[e]
    BY <1>1, <1>2 DEF IInv, TypeOK, WireTypeOK
  <1>6. /\ results'[d] = <<>>
        /\ \A e \in Devices : e # d => results'[e] = results[e]
    BY <1>1 DEF IInv, TypeOK, LoopTypeOK
  <1>7. PoolTypeOK' /\ WireTypeOK'
    BY <1>1, <1>2, <1>3 DEF IInv, TypeOK, PoolTypeOK, WireTypeOK, pool
  <1>8. LoopTypeOK'
    <2>1. <<>> \in Seq(Values \cup {Nil})
      OBVIOUS
    <2> QED
      BY <1>1, <1>4, <2>1 DEF IInv, TypeOK, LoopTypeOK
  <1>9. SendTypeOK' /\ SendInv'
    <2>1. panicked' \in BOOLEAN
      BY <1>1 DEF IInv, TypeOK, SendTypeOK
    <2> QED
      BY <1>1, <1>4, <2>1, SendFrame
  <1>10. PoolInv'
    BY <1>1, <1>2, <1>4, <1>5, SettingsFixed DEF IInv, PoolInv, pool
  <1>11. Grows
    BY <1>1 DEF Grows, pool
  <1>12. ResultInv' /\ ReportInv'
    <2>1. \A e \in Devices : e # d => ResultsOK(e)' /\ ReportOK(e)'
      BY <1>1, <1>4, <1>6, <1>11, OtherFrame
    <2>2. ReportOK(d)'
      BY <1>4 DEF ReportOK
    <2>3. ResultsOK(d)'
      <3>1. settings' = settings /\ Points(d)' = Points(d) /\ Points(d) \in Seq(PointConfs)
        BY <1>1, SettingsFixed, SettingFacts DEF pool
      <3>2. Len(Points(d)) \in Nat /\ (Points(d) # <<>> => Len(Points(d)) > 0)
        BY <3>1
      <3> QED
        BY <1>4, <1>6, <3>1, <3>2 DEF ResultsOK
    <2> QED
      BY <2>1, <2>2, <2>3 DEF ResultInv, ReportInv
  <1>14. QueueInv'
    <2>1. \A p \in Devices : \A n \in 1..Len(queue'[p]) : queue'[p][n].size \in Sizes(p)
      BY <1>3, <1>5 DEF IInv, QueueInv, q
    <2>2. ASSUME NEW e \in Devices, client[e] # Nil, Alone(e)'
          PROVE  /\ asked[client[e]] + Len(queue'[client[e]]) <= (IF pc'[e] = "wait" THEN 1 ELSE 0)
                 /\ \A j \in 1..Len(queue'[client[e]]) :
                      queue'[client[e]][j].from = "start" /\ e \notin queue'[client[e]][j].since
      <3>1. Alone(e) /\ client[e] \in Devices
        BY <1>11, <2>2, AloneBefore, SettingFacts
      <3>2. /\ asked[client[e]] + Len(queue[client[e]]) <= (IF pc[e] = "wait" THEN 1 ELSE 0)
            /\ \A j \in 1..Len(queue[client[e]]) :
                 queue[client[e]][j].from = "start" /\ e \notin queue[client[e]][j].since
        BY <2>2, <3>1 DEF IInv, QueueInv
      <3>3. CASE e # d
        <4>1. client[e] # o
          BY <3>1, <3>3 DEF Alone, o
        <4> QED
          BY <1>4, <1>5, <3>1, <3>2, <3>3, <4>1
      <3>4. CASE e = d
        <4>1. asked[o] + Len(q) <= 0 /\ asked[o] \in Nat
          BY <1>1, <1>2, <3>2, <3>4 DEF o, q, IInv, TypeOK, WireTypeOK
        <4>2. Len(q) = 0 /\ asked[o] = 0
          BY <1>2, <4>1
        <4>3. queue'[o] = old /\ Len(old) = 0
          BY <1>2, <1>3, <1>5, <4>2
        <4> QED
          BY <1>4, <3>4, <4>2, <4>3 DEF o
      <3> QED
        BY <3>3, <3>4
    <2> QED
      BY <1>1, <2>1, <2>2, SettingsFixed DEF QueueInv, pool
  <1> QED
    BY <1>7, <1>8, <1>9, <1>10, <1>12, <1>14 DEF IInv, TypeOK

\* A value is appended for the next point, bad or read for it and fresh: all but
\* the connection itself.
LEMMA AppendFrame ==
  ASSUME IInv, ~panicked, NEW d \in Devices, pc[d] \in {"ask", "wait"},
         NEW v \in Values \cup {Nil}, Append1(d, v),
         v # Nil => v.point = Len(results[d]) + 1 /\ Fresh(d, v),
         UNCHANGED <<pool, splits, retry, report, upVars, panicked>>
  PROVE  /\ LoopTypeOK' /\ SendTypeOK' /\ SendInv' /\ ResultInv' /\ ReportInv'
         /\ Grows /\ pc'[d] \in {"ask", "merge"} /\ \A e \in Devices : e # d => pc'[e] = pc[e]
  <1> DEFINE r == results[d]
  <1>1. /\ r \in Seq(Values \cup {Nil}) /\ Len(r) < Len(Points(d))
        /\ Len(Points(d)) \in Nat
    BY SettingFacts DEF IInv, TypeOK, LoopTypeOK, ResultInv, ResultsOK
  <1>2. /\ results' = [results EXCEPT ![d] = Append(r, v)]
        /\ pc' = [pc EXCEPT ![d] = IF Len(results'[d]) = Len(Points(d)) THEN "merge" ELSE "ask"]
    BY DEF Append1
  <1> HIDE DEF r
  <1>3. /\ results'[d] = Append(r, v)
        /\ \A e \in Devices : e # d => results'[e] = results[e] /\ pc'[e] = pc[e]
        /\ pc'[d] = IF Len(results'[d]) = Len(Points(d)) THEN "merge" ELSE "ask"
        /\ pc' \in [Devices -> PCs]
    BY <1>2 DEF IInv, TypeOK, LoopTypeOK, PCs
  <1>4. /\ Append(r, v) \in Seq(Values \cup {Nil}) /\ Len(Append(r, v)) = Len(r) + 1
        /\ \A n \in 1..Len(r) + 1 : Append(r, v)[n] = IF n = Len(r) + 1 THEN v ELSE r[n]
    BY <1>1
  <1>5. LoopTypeOK'
    BY <1>2, <1>3, <1>4 DEF IInv, TypeOK, LoopTypeOK
  <1>6. Grows
    BY DEF Grows, pool
  <1>7. SendTypeOK' /\ SendInv'
    <2>1. panicked' \in BOOLEAN
      BY DEF IInv, TypeOK, SendTypeOK
    <2> QED
      BY <1>3, <2>1, SendFrame
  <1>8. ResultInv' /\ ReportInv'
    <2>1. \A e \in Devices : e # d => ResultsOK(e)' /\ ReportOK(e)'
      BY <1>3, <1>6, OtherFrame
    <2>2. ReportOK(d)'
      BY <1>3 DEF ReportOK
    <2>3. settings' = settings /\ client' = client /\ Points(d)' = Points(d)
          /\ (Dev(d).protocol)' = Dev(d).protocol
      BY SettingsFixed DEF pool
    <2>4. Alone(d)' => Alone(d)
      BY <2>3 DEF Alone
    <2>5. ASSUME NEW n \in 1..Len(r) + 1, Append(r, v)[n] # Nil
          PROVE  /\ Append(r, v)[n].point = n
                 /\ Fresh(d, Append(r, v)[n])
      <3>1. \A k \in 1..Len(r) : r[k] # Nil => r[k].point = k /\ Fresh(d, r[k])
        BY DEF IInv, ResultInv, ResultsOK, r
      <3>2. CASE n = Len(r) + 1
        BY <1>4, <2>5, <3>2 DEF r
      <3>3. CASE n \in 1..Len(r)
        BY <1>1, <1>4, <2>5, <3>1, <3>3
      <3> QED
        BY <1>1, <3>2, <3>3
    <2>6. ResultsOK(d)'
      <3>1. Len(results'[d]) = Len(r) + 1 /\ Len(r) + 1 <= Len(Points(d))
        BY <1>1, <1>3, <1>4
      <3>2. pc'[d] \in {"ask", "wait"} => Len(results'[d]) < Len(Points(d))
        BY <1>1, <1>3, <3>1
      <3>3. pc'[d] \notin {"idle", "skipped", "cycle", "send"}
        BY <1>3
      <3>4. \A n \in 1..Len(results'[d]) : results'[d][n] # Nil =>
              /\ results'[d][n].point = n
              /\ results'[d][n].size = 2 \/ Dev(d).protocol = "slmp"
              /\ Alone(d)' => results'[d][n].from = "start" /\ ~results'[d][n].stale
        BY <1>3, <2>4, <2>5, <3>1 DEF Fresh
      <3> QED
        BY <2>3, <3>1, <3>2, <3>3, <3>4 DEF ResultsOK, Fresh
    <2> QED
      BY <2>1, <2>2, <2>6 DEF ResultInv, ReportInv
  <1> QED
    BY <1>3, <1>5, <1>6, <1>7, <1>8

\* A goroutine's client is an object of its own protocol.
LEMMA SameProtocol ==
  ASSUME IInv, NEW d \in Devices, client[d] # Nil
  PROVE  /\ client[d] \in Devices /\ Dev(client[d]).protocol = Dev(d).protocol
         /\ Sizes(client[d]) = Sizes(d) /\ (Streamed(client[d]) <=> Streamed(d))
  <1>1. client[d] \in Devices /\ PoolKey(client[d]) = PoolKey(d)
    BY SettingFacts DEF IInv, PoolInv
  <1>2. Dev(client[d]).protocol = Dev(d).protocol
    BY <1>1 DEF PoolKey
  <1> QED
    BY <1>1, <1>2 DEF Sizes, Streamed

\* s7, snmp and bacnet read a point in one call.
LEMMA ReadLibraryInv ==
  ASSUME IInv, ~panicked, NEW d \in Devices, ReadLibrary(d)
  PROVE  IInv'
  <1>1. /\ pc[d] = "ask" /\ ~Streamed(d)
        /\ UNCHANGED <<pool, wire, retry, report, upVars, panicked>>
    BY DEF ReadLibrary
  <1>2. PICK v \in {Nil, Value(d, "start", 2, FALSE)} : Append1(d, v)
    <2>1. LibraryGives(d) \subseteq {Nil, Value(d, "start", 2, FALSE)}
      BY DEF LibraryGives, Good
    <2> QED
      BY <2>1 DEF ReadLibrary
  <1>4. v \in Values \cup {Nil} /\ (v # Nil => v.point = Len(results[d]) + 1 /\ Fresh(d, v))
    <2> DEFINE w == Value(d, "start", 2, FALSE)
    <2>1. Len(results[d]) + 1 \in Nat
      BY DEF IInv, TypeOK, LoopTypeOK
    <2>2. w \in Values
      BY <2>1 DEF Value, Values
    <2>3. w.point = Len(results[d]) + 1 /\ w.from = "start" /\ w.size = 2 /\ w.stale = FALSE
      BY DEF Value
    <2> QED
      BY <2>2, <2>3 DEF Fresh
  <1>5. /\ LoopTypeOK' /\ SendTypeOK' /\ SendInv' /\ ResultInv' /\ ReportInv'
        /\ pc'[d] \in {"ask", "merge"} /\ \A e \in Devices : e # d => pc'[e] = pc[e]
    BY <1>1, <1>2, <1>4, AppendFrame DEF wire
  <1>6. PoolTypeOK' /\ WireTypeOK' /\ PoolInv' /\ QueueInv'
    BY <1>1, <1>5, WireFrame
  <1> QED
    BY <1>5, <1>6 DEF IInv, TypeOK

\* A Read that fails on a lost connection makes the point bad.
LEMMA ReadFailsInv ==
  ASSUME IInv, ~panicked, NEW d \in Devices, ReadFails(d)
  PROVE  IInv'
  <1>1. /\ pc[d] = "wait" /\ conn[client[d]] = "broken" /\ queue[client[d]] = <<>>
        /\ Append1(d, Nil)
        /\ UNCHANGED <<pool, wire, retry, report, upVars, panicked>>
    BY DEF ReadFails
  <1>2. /\ LoopTypeOK' /\ SendTypeOK' /\ SendInv' /\ ResultInv' /\ ReportInv'
        /\ pc'[d] \in {"ask", "merge"} /\ \A e \in Devices : e # d => pc'[e] = pc[e]
    BY <1>1, AppendFrame DEF wire
  <1>3. asked[client[d]] = 0
    BY <1>1, SettingFacts DEF IInv, PoolInv
  <1>4. PoolTypeOK' /\ WireTypeOK' /\ PoolInv' /\ QueueInv'
    BY <1>1, <1>2, <1>3, WireFrame
  <1> QED
    BY <1>2, <1>4 DEF IInv, TypeOK

\* A Read returns what is there: of a goroutine that has the connection for
\* itself, the answer to its own request.
LEMMA ReadChunkInv ==
  ASSUME IInv, ~panicked, NEW d \in Devices, ReadChunk(d)
  PROVE  IInv'
  <1> DEFINE o == client[d]
             q == queue[o]
             val(n) == IF n = 0 THEN Nil ELSE Value(d, q[1].from, n, d \in q[1].since)
  <1>1. /\ pc[d] = "wait" /\ q # <<>>
        /\ UNCHANGED <<pool, conn, asked, splits, retry, report, upVars, panicked>>
    BY DEF ReadChunk
  <1>2. PICK k \in {1, Len(q)}, n \in Sizes(o) :
          /\ Append1(d, val(n))
          /\ queue' = [queue EXCEPT ![o] = SubSeq(q, k + 1, Len(q))]
    BY DEF ReadChunk
  <1>3. /\ o # Nil /\ o \in Devices /\ o \in pooled /\ q \in Seq(Chunks)
        /\ asked[o] \in Nat /\ Sizes(o) = Sizes(d)
    BY <1>1, SameProtocol DEF IInv, PoolInv, TypeOK, PoolTypeOK, WireTypeOK
  <1>4. Len(q) \in Nat /\ 1 \in 1..Len(q) /\ k \in 1..Len(q) /\ q[1] \in Chunks
    BY <1>1, <1>3
  <1> HIDE DEF o, q
  <1>6. /\ val(n) \in Values \cup {Nil}
        /\ val(n) # Nil => val(n).point = Len(results[d]) + 1 /\ Fresh(d, val(n))
    <2>1. CASE n = 0
      BY <2>1
    <2>2. CASE n # 0
      <3>1. n \in 0..2 /\ q[1].from \in {"start", "middle"}
        BY <1>3, <1>4, SettingFacts DEF Chunks
      <3> DEFINE w == Value(d, q[1].from, n, d \in q[1].since)
      <3>5. Len(results[d]) + 1 \in Nat
        BY DEF IInv, TypeOK, LoopTypeOK
      <3>6. w \in Values
        BY <3>1, <3>5 DEF Value, Values
      <3>2. /\ w.point = Len(results[d]) + 1
            /\ w.from = q[1].from /\ w.size = n /\ w.stale = (d \in q[1].since)
        BY DEF Value
      <3>3. n = 2 \/ Dev(d).protocol = "slmp"
        BY <1>3, <2>2 DEF Sizes
      <3>4. Alone(d) => q[1].from = "start" /\ d \notin q[1].since
        BY <1>3, <1>4 DEF IInv, QueueInv, o, q
      <3> QED
        BY <2>2, <3>2, <3>3, <3>4, <3>6 DEF Fresh
    <2> QED
      BY <2>1, <2>2
  <1> HIDE DEF val
  <1>7. /\ LoopTypeOK' /\ SendTypeOK' /\ SendInv' /\ ResultInv' /\ ReportInv'
        /\ Grows /\ pc'[d] \in {"ask", "merge"} /\ \A e \in Devices : e # d => pc'[e] = pc[e]
    BY <1>1, <1>2, <1>6, AppendFrame
  <1> DEFINE rest == SubSeq(q, k + 1, Len(q))
  <1>8. /\ rest \in Seq(Chunks) /\ Len(rest) = Len(q) - k
        /\ \A j \in 1..Len(rest) : j + k \in 1..Len(q) /\ rest[j] = q[j + k]
    BY <1>3, <1>4
  <1> HIDE DEF rest
  <1>9. \A e \in Devices : queue'[e] = IF e = o THEN rest ELSE queue[e]
    BY <1>2, <1>3 DEF IInv, TypeOK, WireTypeOK, rest
  <1>10. PoolTypeOK' /\ WireTypeOK'
    BY <1>1, <1>2, <1>3, <1>8 DEF IInv, TypeOK, PoolTypeOK, WireTypeOK, pool, rest
  <1>11. PoolInv'
    BY <1>1, <1>3, <1>7, <1>9, SettingsFixed DEF IInv, PoolInv, pool
  <1>13. QueueInv'
    <2>1. \A p \in Devices : \A j \in 1..Len(queue'[p]) : queue'[p][j].size \in Sizes(p)
      BY <1>3, <1>8, <1>9 DEF IInv, QueueInv, q
    <2>2. ASSUME NEW e \in Devices, client[e] # Nil, Alone(e)'
          PROVE  /\ asked[client[e]] + Len(queue'[client[e]]) <= (IF pc'[e] = "wait" THEN 1 ELSE 0)
                 /\ \A j \in 1..Len(queue'[client[e]]) :
                      queue'[client[e]][j].from = "start" /\ e \notin queue'[client[e]][j].since
      <3>1. Alone(e) /\ client[e] \in Devices
        BY <1>7, <2>2, AloneBefore, SettingFacts
      <3>2. /\ asked[client[e]] + Len(queue[client[e]]) <= (IF pc[e] = "wait" THEN 1 ELSE 0)
            /\ \A j \in 1..Len(queue[client[e]]) :
                 queue[client[e]][j].from = "start" /\ e \notin queue[client[e]][j].since
        BY <2>2, <3>1 DEF IInv, QueueInv
      <3>3. CASE e # d
        <4>1. client[e] # o
          BY <3>1, <3>3 DEF Alone, o
        <4> QED
          BY <1>7, <1>9, <3>1, <3>2, <3>3, <4>1
      <3>4. CASE e = d
        <4>1. asked[o] + Len(q) <= 1
          BY <1>1, <3>2, <3>4 DEF o, q
        <4>2. asked[o] = 0 /\ Len(rest) = 0
          BY <1>3, <1>4, <1>8, <4>1
        <4>3. queue'[o] = rest /\ pc'[d] # "wait"
          BY <1>3, <1>7, <1>9
        <4> QED
          BY <3>4, <4>2, <4>3 DEF o
      <3> QED
        BY <3>3, <3>4
    <2> QED
      BY <1>1, <2>1, <2>2, SettingsFixed DEF QueueInv, pool
  <1> QED
    BY <1>7, <1>10, <1>11, <1>13 DEF IInv, TypeOK

\* A request is written: the connection of a client in use is never nil.
LEMMA AskInv ==
  ASSUME IInv, ~panicked, NEW d \in Devices, Ask(d)
  PROVE  IInv'
  <1> DEFINE o == client[d]
  <1>1. pc[d] = "ask" /\ UNCHANGED <<pool, conn, queue, splits, loop, upVars>>
    BY DEF Ask
  <1>2. o # Nil /\ o \in Devices /\ o \in pooled /\ conn[o] # "none" /\ asked[o] \in Nat
    BY <1>1, SettingFacts DEF IInv, PoolInv, TypeOK, PoolTypeOK, WireTypeOK
  <1>3. /\ pc' = [pc EXCEPT ![d] = "wait"] /\ UNCHANGED panicked
        /\ asked' = [asked EXCEPT ![o] = asked[o] + IF conn[o] = "up" THEN 1 ELSE 0]
    BY <1>2 DEF Ask
  <1> HIDE DEF o
  <1>4. /\ \A e \in Devices : pc'[e] = IF e = d THEN "wait" ELSE pc[e]
        /\ pc' \in [Devices -> PCs]
    BY <1>3 DEF IInv, TypeOK, LoopTypeOK, PCs
  <1>5. \A e \in Devices : asked'[e] = IF e = o /\ conn[o] = "up" THEN asked[e] + 1 ELSE asked[e]
    BY <1>2, <1>3 DEF IInv, TypeOK, WireTypeOK
  <1>6. PoolTypeOK' /\ WireTypeOK'
    BY <1>1, <1>2, <1>3 DEF IInv, TypeOK, PoolTypeOK, WireTypeOK, pool
  <1>7. Grows
    BY <1>1 DEF Grows, pool
  <1>8. LoopTypeOK' /\ ResultInv' /\ ReportInv'
    BY <1>1, <1>4, <1>7, LoopFrame
  <1>9. SendTypeOK' /\ SendInv'
    <2>1. panicked' \in BOOLEAN
      BY <1>3 DEF IInv, TypeOK, SendTypeOK
    <2> QED
      BY <1>1, <1>4, <2>1, SendFrame
  <1>10. PoolInv'
    BY <1>1, <1>2, <1>4, <1>5, SettingsFixed DEF IInv, PoolInv, pool
  <1>12. QueueInv'
    <2>1. ASSUME NEW e \in Devices, client[e] # Nil, Alone(e)'
          PROVE  /\ asked'[client[e]] + Len(queue[client[e]]) <= (IF pc'[e] = "wait" THEN 1 ELSE 0)
                 /\ \A j \in 1..Len(queue[client[e]]) :
                      queue[client[e]][j].from = "start" /\ e \notin queue[client[e]][j].since
      <3>1. Alone(e) /\ client[e] \in Devices
        BY <1>7, <2>1, AloneBefore, SettingFacts
      <3>2. /\ asked[client[e]] + Len(queue[client[e]]) <= (IF pc[e] = "wait" THEN 1 ELSE 0)
            /\ \A j \in 1..Len(queue[client[e]]) :
                 queue[client[e]][j].from = "start" /\ e \notin queue[client[e]][j].since
        BY <2>1, <3>1 DEF IInv, QueueInv
      <3>3. CASE e # d
        <4>1. client[e] # o
          BY <3>1, <3>3 DEF Alone, o
        <4> QED
          BY <1>4, <1>5, <3>1, <3>2, <3>3, <4>1
      <3>4. CASE e = d
        <4>1. asked[o] + Len(queue[o]) <= 0
          BY <1>1, <3>2, <3>4 DEF o
        <4>2. Len(queue[o]) \in Nat
          BY <1>2 DEF IInv, TypeOK, WireTypeOK
        <4>3. asked'[o] + Len(queue[o]) <= 1
          BY <1>2, <1>5, <4>1, <4>2
        <4> QED
          BY <1>4, <3>2, <3>4, <4>3 DEF o
      <3> QED
        BY <3>3, <3>4
    <2> QED
      BY <1>1, <2>1, SettingsFixed DEF IInv, QueueInv, pool
  <1> QED
    BY <1>6, <1>8, <1>9, <1>10, <1>12 DEF IInv, TypeOK

\* The merge: a reported value is one that was read, and for a point no other
\* can be taken for it is the one read for this point.
LEMMA MergedFacts ==
  ASSUME IInv, NEW d \in Devices
  PROVE  /\ DOMAIN Merged(d) = DOMAIN Points(d)
         /\ \A m \in DOMAIN Points(d) : Merged(d)[m] # Nil =>
              \E n \in 1..Len(results[d]) :
                Merged(d)[m] = results[d][n] /\ (m \in Clean(d) => n = m)
  <1> DEFINE Mine(m) == {n \in DOMAIN results[d] :
                           /\ Matches(d, n, m)
                           /\ \A k \in 1..m - 1 : ~Matches(d, n, k)}
             Last(m) == CHOOSE n \in Mine(m) : \A k \in Mine(m) : k <= n
  <1>1. /\ results[d] \in Seq(Values \cup {Nil}) /\ Len(results[d]) \in Nat
        /\ DOMAIN results[d] = 1..Len(results[d])
    BY DEF IInv, TypeOK, LoopTypeOK
  <1>2. 1..Len(results[d]) \subseteq DOMAIN Points(d)
    <2>1. Len(results[d]) <= Len(Points(d)) /\ Points(d) \in Seq(PointConfs)
      BY SettingFacts DEF IInv, ResultInv, ResultsOK
    <2> QED
      BY <1>1, <2>1
  <1>3. Merged(d) = [m \in DOMAIN Points(d) |-> IF Mine(m) = {} THEN Nil ELSE results[d][Last(m)]]
    BY DEF Merged
  <1>4. ASSUME NEW m \in DOMAIN Points(d), Mine(m) # {}
        PROVE  Last(m) \in Mine(m) /\ Last(m) \in 1..Len(results[d])
    <2>1. Mine(m) \in SUBSET (1..Len(results[d]))
      BY <1>1
    <2> HIDE DEF Mine
    <2>2. \E n \in Mine(m) : \A k \in Mine(m) : k <= n
      BY <1>1, <1>4, <2>1, Greatest
    <2> QED
      BY <2>1, <2>2
  <1>5. ASSUME NEW m \in Clean(d), NEW n \in Mine(m), n \in DOMAIN Points(d)
        PROVE  n = m
    <2>1. PointID(d, n) \in Keys(d, m)
      BY DEF Matches
    <2> QED
      BY <1>5, <2>1 DEF Clean
  <1> HIDE DEF Mine, Last
  <1> QED
    BY <1>2, <1>3, <1>4, <1>5

\* The rule engine's race ends the process, and changes nothing else.
LEMMA RulesRaceInv ==
  ASSUME IInv, ~panicked, NEW d \in Devices, RulesRace(d)
  PROVE  IInv'
  <1>1. UNCHANGED <<pool, wire, pc, loop, upVars>> /\ panicked' = TRUE
    BY DEF RulesRace
  <1>2. Grows
    BY <1>1 DEF Grows, pool, wire
  <1>3. LoopTypeOK' /\ ResultInv' /\ ReportInv'
    BY <1>1, <1>2, LoopFrame DEF IInv, TypeOK, LoopTypeOK
  <1>4. PoolTypeOK' /\ WireTypeOK' /\ PoolInv' /\ QueueInv'
    BY <1>1, WireFrame
  <1>5. SendTypeOK' /\ SendInv'
    BY <1>1, SendFrame
  <1> QED
    BY <1>3, <1>4, <1>5 DEF IInv, TypeOK

\* ReadBatch returns, without an error: the values are merged and SendToAll is
\* called.
LEMMA BatchReturnsInv ==
  ASSUME IInv, ~panicked, NEW d \in Devices, BatchReturns(d)
  PROVE  IInv'
  <1>1. /\ pc[d] = "merge" /\ report' = [report EXCEPT ![d] = Merged(d)]
        /\ results' = [results EXCEPT ![d] = <<>>] /\ pc' = [pc EXCEPT ![d] = "send"]
        /\ at' = [at EXCEPT ![d] = 1] /\ tried' = [tried EXCEPT ![d] = {}]
        /\ UNCHANGED <<pool, wire, retry, channels, built, uplinks, blocked, panicked>>
    BY DEF BatchReturns, ReadBatchErr, Up!SendToAll
  <1>2. /\ \A e \in Devices : pc'[e] = IF e = d THEN "send" ELSE pc[e]
        /\ \A e \in Devices : results'[e] = IF e = d THEN <<>> ELSE results[e]
        /\ \A e \in Devices : report'[e] = IF e = d THEN Merged(d) ELSE report[e]
    BY <1>1 DEF IInv, TypeOK, LoopTypeOK
  <1>3. PoolTypeOK' /\ WireTypeOK' /\ PoolInv' /\ QueueInv'
    BY <1>1, <1>2, WireFrame
  <1>4. LoopTypeOK'
    <2>1. <<>> \in Seq(Values \cup {Nil})
      OBVIOUS
    <2> QED
      BY <1>1, <2>1 DEF IInv, TypeOK, LoopTypeOK, PCs
  <1>5. SendTypeOK'
    BY <1>1 DEF IInv, TypeOK, SendTypeOK
  <1>6. SendInv'
    <2>1. /\ \A e \in Devices : at'[e] = IF e = d THEN 1 ELSE at[e]
          /\ \A e \in Devices : tried'[e] = IF e = d THEN {} ELSE tried[e]
      BY <1>1 DEF IInv, TypeOK, SendTypeOK
    <2>2. 1 <= Len(uplinks) + 1 /\ 1..1 - 1 = {}
      BY DEF IInv, TypeOK, SendTypeOK
    <2>3. \A e \in Devices : pc'[e] # "idle" => built = Len(channels)
      BY <1>1, <1>2 DEF IInv, SendInv, Up!Ready
    <2>4. \A e \in Devices : at'[e] > 0 =>
            pc'[e] = "send" /\ at'[e] <= Len(uplinks) + 1 /\ tried'[e] = 1..at'[e] - 1
      BY <1>2, <2>1, <2>2 DEF IInv, SendInv
    <2> QED
      BY <1>1, <2>3, <2>4 DEF SendInv, Up!Ready
  <1>8. Grows
    BY <1>1 DEF Grows, pool, wire
  <1>9. settings' = settings /\ client' = client /\ Points(d)' = Points(d)
        /\ (Dev(d).protocol)' = Dev(d).protocol /\ Clean(d)' = Clean(d)
    <2>1. client[d] # Nil
      BY <1>1 DEF IInv, PoolInv
    <2> QED
      BY <1>1, <1>8, <2>1, CleanFixed, SettingsFixed DEF pool
  <1>10. ResultInv' /\ ReportInv'
    <2>1. \A e \in Devices : e # d => ResultsOK(e)' /\ ReportOK(e)'
      BY <1>1, <1>2, <1>8, OtherFrame
    <2>2. ResultsOK(d)'
      <3>1. Len(Points(d)) \in Nat
        BY SettingFacts
      <3> QED
        BY <1>2, <1>9, <3>1 DEF ResultsOK
    <2>3. Alone(d)' => Alone(d)
      BY <1>1, <1>9 DEF Alone, wire
    <2>4. ASSUME NEW m \in DOMAIN Points(d), Merged(d)[m] # Nil
          PROVE  /\ Fresh(d, Merged(d)[m])
                 /\ m \in Clean(d) => Merged(d)[m].point = m
      <3>1. PICK n \in 1..Len(results[d]) :
              Merged(d)[m] = results[d][n] /\ (m \in Clean(d) => n = m)
        BY <2>4, MergedFacts
      <3>2. results[d][n].point = n /\ Fresh(d, results[d][n])
        BY <2>4, <3>1 DEF IInv, ResultInv, ResultsOK
      <3> QED
        BY <3>1, <3>2
    <2>5. ReportOK(d)'
      <3>1. report'[d] = Merged(d) /\ DOMAIN Merged(d) = DOMAIN Points(d)
        BY <1>1, <1>2, MergedFacts
      <3>2. \A m \in DOMAIN Points(d) : report'[d][m] # Nil =>
              /\ (m \in Clean(d) => report'[d][m].point = m)
              /\ report'[d][m].size = 2 \/ Dev(d).protocol = "slmp"
              /\ Alone(d)' => report'[d][m].from = "start" /\ ~report'[d][m].stale
        BY <2>3, <2>4, <3>1 DEF Fresh
      <3> QED
        BY <1>9, <3>1, <3>2 DEF ReportOK, Fresh
    <2> QED
      BY <2>1, <2>2, <2>5 DEF ResultInv, ReportInv
  <1> QED
    BY <1>3, <1>4, <1>5, <1>6, <1>10 DEF IInv, TypeOK

\* An uplink returns, blocks for ever, or is the redis one.
LEMMA SendInvariant ==
  ASSUME IInv, ~panicked, NEW d \in Devices, SendStep(d) \/ SendHangs(d)
  PROVE  IInv'
  <1> USE DEF Up!Sending
  <1>1. /\ pc[d] = "send" /\ UNCHANGED <<pool, wire, pc, loop, channels, built, uplinks>>
        /\ Up!SendReturns(d) \/ Up!SendPanics(d) \/ Up!SendBlocks(d)
    BY DEF SendStep, SendHangs, Up!SendReturns, Up!SendPanics, Up!SendBlocks
  <1>2. PoolTypeOK' /\ WireTypeOK' /\ PoolInv' /\ QueueInv'
    BY <1>1, WireFrame
  <1>3. Grows
    BY <1>1 DEF Grows, pool, wire
  <1>4. LoopTypeOK' /\ ResultInv' /\ ReportInv'
    BY <1>1, <1>3, LoopFrame DEF IInv, TypeOK, LoopTypeOK
  <1>6. /\ at[d] \in 1..Len(uplinks) /\ at[d] \in Nat /\ Len(uplinks) \in Nat
        /\ tried[d] = 1..at[d] - 1
    BY <1>1 DEF Up!SendReturns, Up!SendPanics, Up!SendBlocks, IInv, SendInv, TypeOK, SendTypeOK
  <1>7. CASE Up!SendReturns(d)
    <2>1. /\ at' = [at EXCEPT ![d] = at[d] + 1]
          /\ tried' = [tried EXCEPT ![d] = tried[d] \cup {at[d]}]
          /\ UNCHANGED <<blocked, panicked>>
      BY <1>7 DEF Up!SendReturns
    <2>2. SendTypeOK'
      BY <1>1, <1>6, <2>1 DEF IInv, TypeOK, SendTypeOK
    <2>3. /\ \A e \in Devices : at'[e] = IF e = d THEN at[d] + 1 ELSE at[e]
          /\ \A e \in Devices : tried'[e] = IF e = d THEN tried[d] \cup {at[d]} ELSE tried[e]
      BY <2>1 DEF IInv, TypeOK, SendTypeOK
    <2>4. tried[d] \cup {at[d]} = 1..(at[d] + 1) - 1 /\ at[d] + 1 <= Len(uplinks) + 1
      BY <1>6
    <2>5. SendInv'
      BY <1>1, <2>3, <2>4 DEF IInv, SendInv, Up!Ready
    <2> QED
      BY <1>2, <1>4, <2>2, <2>5 DEF IInv, TypeOK
  <1>8. CASE Up!SendPanics(d)
    <2>1. UNCHANGED <<at, tried, blocked>> /\ panicked' = TRUE /\ uplinks[at[d]] = "redis"
      BY <1>8 DEF Up!SendPanics, Up!sendVars
    <2>2. SendTypeOK'
      BY <1>1, <2>1 DEF IInv, TypeOK, SendTypeOK
    <2>3. SendInv'
      BY <1>1, <2>1 DEF IInv, SendInv, Up!Ready
    <2> QED
      BY <1>2, <1>4, <2>2, <2>3 DEF IInv, TypeOK
  <1>9. CASE Up!SendBlocks(d)
    <2>1. UNCHANGED <<at, tried, panicked>> /\ blocked' = blocked \cup {d}
      BY <1>9 DEF Up!SendBlocks
    <2>2. SendTypeOK'
      BY <1>1, <2>1 DEF IInv, TypeOK, SendTypeOK
    <2>3. SendInv'
      BY <1>1, <2>1 DEF IInv, SendInv, Up!Ready
    <2> QED
      BY <1>2, <1>4, <2>2, <2>3 DEF IInv, TypeOK
  <1> QED
    BY <1>1, <1>7, <1>8, <1>9

\* The ticker fires after SendToAll has returned.
LEMMA TickInv ==
  ASSUME IInv, ~panicked, NEW d \in Devices, Tick(d)
  PROVE  IInv'
  <1>1. /\ pc[d] = "send" /\ at' = [at EXCEPT ![d] = 0] /\ tried' = [tried EXCEPT ![d] = {}]
        /\ pc' = [pc EXCEPT ![d] = "cycle"] /\ report' = [report EXCEPT ![d] = <<>>]
        /\ UNCHANGED <<pool, wire, retry, results, channels, built, uplinks, blocked, panicked>>
    BY DEF Tick
  <1>2. /\ \A e \in Devices : pc'[e] = IF e = d THEN "cycle" ELSE pc[e]
        /\ \A e \in Devices : e # d => report'[e] = report[e]
    BY <1>1 DEF IInv, TypeOK, LoopTypeOK
  <1>3. PoolTypeOK' /\ WireTypeOK' /\ PoolInv' /\ QueueInv'
    BY <1>1, <1>2, WireFrame
  <1>4. LoopTypeOK'
    BY <1>1 DEF IInv, TypeOK, LoopTypeOK, PCs
  <1>5. SendTypeOK'
    BY <1>1 DEF IInv, TypeOK, SendTypeOK
  <1>6. SendInv'
    <2>1. \A e \in Devices : at'[e] = (IF e = d THEN 0 ELSE at[e]) /\ (e # d => tried'[e] = tried[e])
      BY <1>1 DEF IInv, TypeOK, SendTypeOK
    <2> QED
      BY <1>1, <1>2, <2>1 DEF IInv, SendInv, Up!Ready
  <1>8. Grows
    BY <1>1 DEF Grows, pool, wire
  <1>9. ResultInv' /\ ReportInv'
    <2>1. \A e \in Devices : e # d => ResultsOK(e)' /\ ReportOK(e)'
      BY <1>1, <1>2, <1>8, OtherFrame
    <2>2. ReportOK(d)'
      BY <1>2 DEF ReportOK
    <2>3. ResultsOK(d)'
      <3>1. results'[d] = <<>> /\ Len(Points(d)) \in Nat /\ Points(d)' = Points(d)
        BY <1>1, SettingFacts, SettingsFixed DEF IInv, ResultInv, ResultsOK, pool
      <3> QED
        BY <1>2, <3>1 DEF ResultsOK
    <2> QED
      BY <2>1, <2>2, <2>3 DEF ResultInv, ReportInv
  <1> QED
    BY <1>3, <1>4, <1>5, <1>6, <1>9 DEF IInv, TypeOK

(***************************************************************************)
(* The theorems                                                            *)
(***************************************************************************)

\* Every step preserves the invariant.
LEMMA NextIInv == IInv /\ [Next]_vars => IInv'
  <1> SUFFICES ASSUME IInv, [Next]_vars PROVE IInv'
    OBVIOUS
  <1>1. CASE UNCHANGED vars
    <2>1. UNCHANGED <<pool, wire, pc, loop, upVars, panicked>>
      BY <1>1 DEF vars
    <2>2. Grows
      BY <2>1 DEF Grows, pool, wire
    <2>3. LoopTypeOK' /\ ResultInv' /\ ReportInv'
      BY <2>1, <2>2, LoopFrame DEF IInv, TypeOK, LoopTypeOK
    <2>4. PoolTypeOK' /\ WireTypeOK' /\ PoolInv' /\ QueueInv'
      BY <2>1, WireFrame
    <2>6. SendTypeOK' /\ SendInv'
      BY <2>1, SendFrame DEF IInv, TypeOK, SendTypeOK
    <2> QED
      BY <2>3, <2>4, <2>6 DEF IInv, TypeOK
  <1>2. CASE Next
    <2>1. ~panicked
      BY <1>2 DEF Next
    <2>2. CASE Build
      BY <2>1, <2>2, BuildInv
    <2>3. ASSUME NEW d \in Devices, Setup(d)
          PROVE  IInv'
      <3>1. pc[d] = "idle" /\ Up!Ready /\ UNCHANGED <<loop, upVars>>
        BY <2>3 DEF Setup
      <3>2. SetupSkips(d) \/ SetupReuses(d) \/ SetupCreates(d) \/ SetupPanics(d)
        BY <2>3 DEF Setup
      <3> QED
        BY <2>1, <3>1, <3>2, SetupEndsInv, SetupReusesInv, SetupCreatesInv
    <2>4. ASSUME NEW d \in Devices, Answer(d) \/ Break(d)
          PROVE  IInv'
      BY <2>1, <2>4, AnswerInv, BreakInv
    <2>5. ASSUME NEW d \in Devices,
                 Loop(d) \/ ReadChunk(d) \/ SendHangs(d) \/ RulesRace(d)
          PROVE  IInv'
      BY <2>1, <2>5, BeginCycleInv, ReadLibraryInv, AskInv, ReadFailsInv, BatchReturnsInv,
         SendInvariant, TickInv, ReadChunkInv, RulesRaceInv DEF Loop
    <2> QED
      BY <1>2, <2>2, <2>3, <2>4, <2>5 DEF Next
  <1> QED
    BY <1>1, <1>2

\* The inductive invariant holds in every behaviour.
THEOREM Invariance == Spec => []IInv
  BY InitIInv, NextIInv, PTL DEF Spec

\* A report that SendToAll returned from was handed to every channel, for any
\* number of goroutines and channels and whichever of them fail.
THEOREM AllUplinksTried == Spec => []EveryUplinkTried
  <1>1. IInv => EveryUplinkTried
    <2> SUFFICES ASSUME IInv, NEW d \in Devices, Up!Sent(d)
                 PROVE  tried[d] = 1..Len(uplinks)
      BY DEF EveryUplinkTried, Up!EveryUplinkTried
    <2>1. at[d] \in Nat /\ Len(uplinks) \in Nat /\ at[d] > Len(uplinks)
      BY DEF IInv, TypeOK, SendTypeOK, Up!Sent
    <2>2. at[d] <= Len(uplinks) + 1 /\ tried[d] = 1..at[d] - 1
      BY <2>1 DEF IInv, SendInv
    <2>3. at[d] - 1 = Len(uplinks)
      BY <2>1, <2>2
    <2> QED
      BY <2>2, <2>3
  <1> QED
    BY <1>1, Invariance, PTL

\* No goroutine is in a read of a nil connection, whatever is lost and whoever
\* shares the client.
THEOREM ReadsAreDialled == Spec => []Dialled
  <1>1. IInv => Dialled
    <2> SUFFICES ASSUME IInv, NEW d \in Devices, pc[d] \in {"ask", "wait"}
                 PROVE  conn[client[d]] # "none"
      BY DEF Dialled
    <2>1. client[d] # Nil /\ client[d] \in pooled
      BY DEF IInv, PoolInv, TypeOK, PoolTypeOK
    <2> QED
      BY <2>1 DEF IInv, PoolInv
  <1> QED
    BY <1>1, Invariance, PTL

\* A port that counts in the key is a number, and the key has its whole part.
LEMMA WholeParts ==
  ASSUME NEW a \in Nat, NEW b \in Nat, NEW x \in BOOLEAN, NEW y \in BOOLEAN,
         (IF x THEN a \div 2 ELSE a) = (IF y THEN b \div 2 ELSE b)
  PROVE  /\ (IF x THEN a ELSE 2 * a) < (IF y THEN b ELSE 2 * b) + 2
         /\ (IF y THEN b ELSE 2 * b) < (IF x THEN a ELSE 2 * a) + 2
  <1>1. \A n \in Nat : n \div 2 \in Nat /\ 2 * (n \div 2) <= n /\ n < 2 * (n \div 2) + 2
    OBVIOUS
  <1> QED
    BY <1>1

\* The ports of a configuration's numeric fields are naturals.
LEMMA PortNat ==
  ASSUME IInv, NEW d \in Devices, Port(d).go \in Numeric
  PROVE  Port(d).v \in Nat
  <1> DEFINE c == settings.device[d]
  <1>1. settings \in Settings
    BY DEF IInv, TypeOK, PoolTypeOK
  <1>2. \A f \in {c.config, c.meta, c.params} :
          ("port" \in DOMAIN f /\ f["port"].go \in Numeric) => f["port"].v \in Nat
    BY <1>1, GatewayAssumption
  <1>3. \/ "port" \in DOMAIN c.config /\ Port(d) = c.config["port"]
        \/ "port" \in DOMAIN c.meta /\ Port(d) = c.meta["port"]
        \/ "port" \in DOMAIN c.params /\ Port(d) = c.params["port"]
        \/ Port(d) = Missing
    BY DEF Port, Effective, Dev
  <1>4. Missing.go \notin Numeric
    BY DEF Missing, Numeric
  <1> HIDE DEF c
  <1> QED
    BY <1>2, <1>3, <1>4

\* The pool gives a device only a client made for its protocol, its ip and the
\* whole part of its port, as far as their Go types let the key tell them apart.
THEOREM EndpointIsOwn == Spec => []OwnEndpoint
  <1>1. IInv => OwnEndpoint
    <2> SUFFICES ASSUME IInv, NEW d \in Devices, client[d] # Nil
                 PROVE  LET o == client[d]
                            goTypes(key) == {Effective(o, key).go, Effective(d, key).go}
                        IN  /\ Dev(o).protocol = Dev(d).protocol
                            /\ goTypes("ip") = {"string"} =>
                                 Effective(o, "ip").v = Effective(d, "ip").v
                            /\ goTypes("port") \subseteq Numeric =>
                                 /\ Amount(Port(o)) < Amount(Port(d)) + 2
                                 /\ Amount(Port(d)) < Amount(Port(o)) + 2
      BY DEF OwnEndpoint
    <2> DEFINE o == client[d]
    <2>1. PoolKey(o) = PoolKey(d) /\ o \in Devices
      BY SettingFacts DEF IInv, PoolInv
    <2> HIDE DEF o
    <2>2. Dev(o).protocol = Dev(d).protocol
      BY <2>1 DEF PoolKey
    <2>3. {Effective(o, "ip").go, Effective(d, "ip").go} = {"string"} =>
            Effective(o, "ip").v = Effective(d, "ip").v
      BY <2>1 DEF PoolKey
    <2>4. ASSUME Port(o).go \in Numeric, Port(d).go \in Numeric
          PROVE  /\ Amount(Port(o)) < Amount(Port(d)) + 2
                 /\ Amount(Port(d)) < Amount(Port(o)) + 2
      <3>1. Port(o).v \in Nat /\ Port(d).v \in Nat
        BY <2>1, <2>4, PortNat
      <3>2. Whole(Port(o)) = Whole(Port(d))
        BY <2>1, <2>4 DEF PoolKey
      <3> QED
        BY <3>1, <3>2, WholeParts DEF Whole, Amount
    <2> QED
      BY <2>2, <2>3, <2>4 DEF Port, o
  <1> QED
    BY <1>1, Invariance, PTL

\* A point no other point can be taken for is reported with its own value or
\* null, for any list of points.
THEOREM ValueIsOwn == Spec => []OwnValue
  <1>1. IInv => OwnValue
    <2>1. \A d \in Devices : Clean(d) \subseteq DOMAIN Points(d)
      BY DEF Clean
    <2> QED
      BY <2>1 DEF IInv, ReportInv, ReportOK, OwnValue
  <1> QED
    BY <1>1, Invariance, PTL

\* A reported value is an answer of this cycle read from its start, unless the
\* connection is shared or an answer on it was split.
THEOREM ReportsFresh == Spec => []FreshUnless
  <1>1. IInv => FreshUnless
    BY DEF IInv, ReportInv, ReportOK, FreshUnless
  <1> QED
    BY <1>1, Invariance, PTL
=============================================================================
