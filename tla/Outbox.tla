-------------------------------- MODULE Outbox --------------------------------
(***************************************************************************)
(* What an outbound queue with a store promises its user: a message that   *)
(* reached the store leaves it only once it has been delivered, and only   *)
(* submitted messages are ever delivered.  Publishing may give a message   *)
(* up, a crash empties the memory, and a restart finds the store's         *)
(* messages, or none when the store cannot be read.                        *)
(***************************************************************************)
CONSTANT Msgs

VARIABLES
  up,         \* the process runs
  submitted,  \* messages handed over so far
  pending,    \* messages the process still means to publish
  durable,    \* messages in the store
  delivered   \* messages the broker has received

outboxVars == <<up, submitted, pending, durable, delivered>>

Init ==
  /\ up = TRUE
  /\ submitted = {} /\ pending = {} /\ durable = {} /\ delivered = {}

Submit(m) ==
  /\ up /\ m \notin submitted
  /\ submitted' = submitted \cup {m}
  /\ pending' = pending \cup {m}
  /\ durable' \in {durable, durable \cup {m}}
  /\ UNCHANGED <<up, delivered>>

Publish(m) ==
  /\ up /\ m \in pending
  /\ delivered' \in {delivered, delivered \cup {m}}
  /\ pending' \in {pending, pending \ {m}}
  /\ durable' \in {durable, durable \ (delivered' \cap {m})}
  /\ UNCHANGED <<up, submitted>>

Crash ==
  /\ up /\ up' = FALSE
  /\ pending' = {}
  /\ UNCHANGED <<submitted, durable, delivered>>

Restart ==
  /\ ~up /\ up' = TRUE
  /\ pending' \in {durable, {}}
  /\ UNCHANGED <<submitted, durable, delivered>>

Next == Crash \/ Restart \/ \E m \in Msgs : Submit(m) \/ Publish(m)

Spec == Init /\ [][Next]_outboxVars
===============================================================================
