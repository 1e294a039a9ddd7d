------------------------------- MODULE Uplinks -------------------------------
(***************************************************************************)
(* The uplink manager (uplink/manager.go) and its channels.  main builds   *)
(* the channels from uplinks.yaml one after the other; every device's      *)
(* goroutine then calls SendToAll, which hands the report to the channels  *)
(* in order.  The line appended to uplink.log after each is left out.      *)
(***************************************************************************)
EXTENDS Naturals, Sequences

CONSTANTS
  Senders     \* the goroutines that call SendToAll

VARIABLES
  channels,   \* uplinks.yaml: a sequence of [type, enable]
  built,      \* entries NewUplinkManagerFromConfig has gone through
  uplinks,    \* m.uplinks: the types of the channels that were built
  at,         \* [Senders -> Nat]: the uplink SendToAll is at, 0 outside of it
  tried,      \* [Senders -> SUBSET Nat]: uplinks this report was handed to
  blocked,    \* senders whose MQTT token never completes
  panicked

sendVars == <<at, tried, blocked>>
vars == <<channels, built, uplinks, sendVars, panicked>>

Types == {"mqtt", "http", "kafka", "nats", "redis"}

Init ==
  /\ built = 0 /\ uplinks = <<>>
  /\ at = [s \in Senders |-> 0]
  /\ tried = [s \in Senders |-> {}]
  /\ blocked = {}

\* NewUplinkManagerFromConfig, one entry: disabled entries, unknown types and
\* an MQTT client that cannot connect are left out.
AddUplink ==
  /\ built < Len(channels)
  /\ LET c == channels[built + 1]
     IN  \/ /\ c.enable /\ c.type \in Types
            /\ uplinks' = Append(uplinks, c.type)
         \/ /\ ~c.enable \/ c.type \notin Types \/ c.type = "mqtt"
            /\ UNCHANGED uplinks
  /\ built' = built + 1
  /\ UNCHANGED <<channels, sendVars, panicked>>

Ready == built = Len(channels)

SendToAll(s) ==
  /\ at' = [at EXCEPT ![s] = 1]
  /\ tried' = [tried EXCEPT ![s] = {}]
  /\ UNCHANGED <<channels, built, uplinks, blocked, panicked>>

Sending(s) == at[s] \in 1..Len(uplinks) /\ s \notin blocked
Sent(s) == at[s] > Len(uplinks)

\* Mutant of SendReturns: an error ends SendToAll.
SendReturnsStops(s) ==
  /\ Sending(s) /\ uplinks[at[s]] # "redis"
  /\ tried' = [tried EXCEPT ![s] = @ \cup {at[s]}]
  /\ \/ at' = [at EXCEPT ![s] = @ + 1]
     \/ at' = [at EXCEPT ![s] = Len(uplinks) + 1]
  /\ UNCHANGED <<channels, built, uplinks, blocked, panicked>>

\* Send returns; its error, if any, is only logged.
SendReturns(s) ==
  /\ Sending(s) /\ uplinks[at[s]] # "redis"
  /\ tried' = [tried EXCEPT ![s] = @ \cup {at[s]}]
  /\ at' = [at EXCEPT ![s] = @ + 1]
  /\ UNCHANGED <<channels, built, uplinks, blocked, panicked>>

\* MqttUplink waits for its token without a timeout.
SendBlocks(s) ==
  /\ Sending(s) /\ uplinks[at[s]] = "mqtt"
  /\ blocked' = blocked \cup {s}
  /\ UNCHANGED <<channels, built, uplinks, at, tried, panicked>>

\* The manager builds the RedisUplink without a client.
SendPanics(s) ==
  /\ Sending(s) /\ uplinks[at[s]] = "redis"
  /\ panicked' = TRUE
  /\ UNCHANGED <<channels, built, uplinks, sendVars>>

\* manager.go:65: when SendToAll returns, the report was handed to every uplink
\* that was built, whichever of the earlier ones failed.
EveryUplinkTried ==
  \A s \in Senders : Sent(s) => tried[s] = 1..Len(uplinks)
=============================================================================
