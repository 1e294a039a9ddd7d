---------------------------- MODULE OutboundQueue ----------------------------
(***************************************************************************)
(* uplink/sparkplugb/queue.go: the outbound message queue, its store and   *)
(* restarts of the process.                                                *)
(*                                                                         *)
(* q.mu makes Enqueue and Process exclude each other, so Process is a loop *)
(* during which only it (and a crash) moves.  The store is the Storage     *)
(* interface; its errors are ignored by the code, so each of its calls may *)
(* silently do nothing.  A publish that returns an error may still have    *)
(* reached the broker.                                                     *)
(***************************************************************************)
EXTENDS Naturals, Sequences, FiniteSets

CONSTANTS
  Msgs,        \* message ids; a user enqueues each of them once
  MaxRetry,    \* maxRetry of Process
  MaxCrashes   \* bound on the crashes explored

ASSUME QueueAssumption == MaxRetry \in Nat \ {0} /\ MaxCrashes \in Nat

VARIABLES
  up,        \* the process runs
  queue,     \* q.queue: a sequence of [id, retry]
  busy,      \* Process holds q.mu
  todo,      \* the messages Process has not ranged over yet
  remain,    \* Process's remain
  storage,   \* ids in the store
  crashes,
  \* History: what happened so far, and what since the process started.
  submitted, saved, delivered,
  life, acked, dropped, attempts

memVars  == <<queue, busy, todo, remain>>
histVars == <<submitted, saved, delivered>>
lifeVars == <<life, acked, dropped, attempts>>
vars == <<up, memVars, storage, crashes, histVars, lifeVars>>

Entry == [id : Msgs, retry : Nat]
Ids(s) == {s[i].id : i \in 1..Len(s)}

\* The messages the process still means to publish, in order.
Pending == IF busy THEN remain \o todo ELSE queue

Init ==
  /\ up = TRUE
  /\ queue = <<>> /\ busy = FALSE /\ todo = <<>> /\ remain = <<>>
  /\ storage = {} /\ crashes = 0
  /\ submitted = {} /\ saved = {} /\ delivered = {}
  /\ life = {} /\ acked = {} /\ dropped = {}
  /\ attempts = [m \in Msgs |-> 0]

\* Storage.Save and Storage.Delete, whose errors nobody looks at.
Save(m) ==
  \/ storage' = storage \cup {m} /\ saved' = saved \cup {m}
  \/ UNCHANGED <<storage, saved>>
Delete(m) == storage' \in {storage, storage \ {m}}

Enqueue(m) ==
  /\ up /\ ~busy /\ m \notin submitted
  /\ queue' = Append(queue, [id |-> m, retry |-> 0])
  /\ Save(m)
  /\ submitted' = submitted \cup {m}
  /\ life' = life \cup {m}
  /\ UNCHANGED <<up, busy, todo, remain, crashes, delivered, acked, dropped, attempts>>

\* Process locks and ranges over the queue it finds.
ProcessBegin ==
  /\ up /\ ~busy
  /\ busy' = TRUE /\ todo' = queue /\ remain' = <<>>
  /\ UNCHANGED <<up, queue, storage, crashes, histVars, lifeVars>>

\* publish succeeds: the message leaves the store, unless Delete fails.
PublishOk ==
  /\ up /\ busy /\ todo # <<>>
  /\ LET m == Head(todo).id IN
       /\ delivered' = delivered \cup {m}
       /\ acked' = acked \cup {m}
       /\ attempts' = [attempts EXCEPT ![m] = @ + 1]
       /\ Delete(m)
  /\ todo' = Tail(todo)
  /\ UNCHANGED <<up, queue, busy, remain, crashes, submitted, saved, life, dropped>>

\* Mutant of PublishErr: one attempt too many.
PublishErrLate ==
  /\ up /\ busy /\ todo # <<>>
  /\ LET m == Head(todo).id
         r == Head(todo).retry + 1 IN
       /\ delivered' \in {delivered, delivered \cup {m}}
       /\ attempts' = [attempts EXCEPT ![m] = @ + 1]
       /\ \/ /\ r <= MaxRetry
             /\ remain' = Append(remain, [id |-> m, retry |-> r])
             /\ UNCHANGED dropped
          \/ /\ r > MaxRetry
             /\ dropped' = dropped \cup {m}
             /\ UNCHANGED remain
  /\ todo' = Tail(todo)
  /\ UNCHANGED <<up, queue, busy, storage, crashes, submitted, saved, life, acked>>

\* Mutant of PublishErr: giving a message up deletes it from the store.
PublishErrDeletes ==
  /\ up /\ busy /\ todo # <<>>
  /\ LET m == Head(todo).id
         r == Head(todo).retry + 1 IN
       /\ delivered' \in {delivered, delivered \cup {m}}
       /\ attempts' = [attempts EXCEPT ![m] = @ + 1]
       /\ \/ /\ r < MaxRetry
             /\ remain' = Append(remain, [id |-> m, retry |-> r])
             /\ UNCHANGED <<dropped, storage>>
          \/ /\ r >= MaxRetry
             /\ dropped' = dropped \cup {m}
             /\ Delete(m)
             /\ UNCHANGED remain
  /\ todo' = Tail(todo)
  /\ UNCHANGED <<up, queue, busy, crashes, submitted, saved, life, acked>>

\* publish fails, with or without the broker having the message: it is kept
\* for the next Process, or given up; the store is not touched either way.
PublishErr ==
  /\ up /\ busy /\ todo # <<>>
  /\ LET m == Head(todo).id
         r == Head(todo).retry + 1 IN
       /\ delivered' \in {delivered, delivered \cup {m}}
       /\ attempts' = [attempts EXCEPT ![m] = @ + 1]
       /\ \/ /\ r < MaxRetry
             /\ remain' = Append(remain, [id |-> m, retry |-> r])
             /\ UNCHANGED dropped
          \/ /\ r >= MaxRetry
             /\ dropped' = dropped \cup {m}
             /\ UNCHANGED remain
  /\ todo' = Tail(todo)
  /\ UNCHANGED <<up, queue, busy, storage, crashes, submitted, saved, life, acked>>

\* Mutant of ProcessEnd: q.queue is not replaced by remain.
ProcessEndKeeps ==
  /\ up /\ busy /\ todo = <<>>
  /\ busy' = FALSE /\ remain' = <<>>
  /\ UNCHANGED <<up, queue, todo, storage, crashes, histVars, lifeVars>>

\* Mutant of ProcessEnd: remain is appended to the queue.
ProcessEndAppends ==
  /\ up /\ busy /\ todo = <<>>
  /\ queue' = queue \o remain
  /\ busy' = FALSE /\ remain' = <<>>
  /\ UNCHANGED <<up, todo, storage, crashes, histVars, lifeVars>>

\* The loop is over: remain becomes the queue and the lock is released.
ProcessEnd ==
  /\ up /\ busy /\ todo = <<>>
  /\ queue' = remain
  /\ busy' = FALSE /\ remain' = <<>>
  /\ UNCHANGED <<up, todo, storage, crashes, histVars, lifeVars>>

\* The process dies, also in the middle of Process.
Crash ==
  /\ up /\ crashes < MaxCrashes
  /\ up' = FALSE /\ crashes' = crashes + 1
  /\ queue' = <<>> /\ busy' = FALSE /\ todo' = <<>> /\ remain' = <<>>
  /\ life' = {} /\ acked' = {} /\ dropped' = {}
  /\ attempts' = [m \in Msgs |-> 0]
  /\ UNCHANGED <<storage, histVars>>

\* Storage.LoadAll returns the stored messages in some order, as saved.
Loaded(s) ==
  /\ \A i \in 1..Len(s) : s[i].retry = 0
  /\ \A i, j \in 1..Len(s) : s[i].id = s[j].id => i = j
  /\ Ids(s) = storage

\* NewOutboundQueue: an error of LoadAll is ignored and leaves no messages.
Restart ==
  /\ ~up /\ up' = TRUE
  /\ \/ \E n \in 0..Cardinality(storage) :
          \E s \in [1..n -> [id : storage, retry : {0}]] :
            Loaded(s) /\ queue' = s /\ life' = storage
     \/ queue' = <<>> /\ life' = {}
  /\ UNCHANGED <<busy, todo, remain, storage, crashes, histVars, acked, dropped, attempts>>

Next ==
  \/ \E m \in Msgs : Enqueue(m)
  \/ ProcessBegin \/ PublishOk \/ PublishErr \/ ProcessEnd
  \/ Crash \/ Restart

Spec == Init /\ [][Next]_vars

(***************************************************************************)
(* Properties                                                              *)
(***************************************************************************)

\* Every variable stays in its range.
TypeOK ==
  /\ up \in BOOLEAN /\ busy \in BOOLEAN
  /\ queue \in Seq(Entry) /\ todo \in Seq(Entry) /\ remain \in Seq(Entry)
  /\ crashes \in 0..MaxCrashes
  /\ storage \subseteq Msgs
  /\ submitted \subseteq Msgs /\ saved \subseteq Msgs /\ delivered \subseteq Msgs
  /\ life \subseteq Msgs /\ acked \subseteq Msgs /\ dropped \subseteq Msgs
  /\ attempts \in [Msgs -> Nat]

\* A message that reached the store stays there until the broker has it,
\* through failed publishes, give-ups, crashes and restarts.
Durable == saved \ delivered \subseteq storage

\* A running process accounts for every message it took over: it is still to
\* be published, acknowledged, or given up, and exactly one of the three.  So
\* Process loses none, and publishes none again that it has an answer for.
Accounted ==
  /\ life = Ids(Pending) \cup acked \cup dropped
  /\ Ids(Pending) \cap (acked \cup dropped) = {}
  /\ acked \cap dropped = {}

\* Process gives a message up after exactly MaxRetry failed attempts of this
\* process, and until then its Retry counts them.
RetryBudget ==
  /\ \A m \in dropped : attempts[m] = MaxRetry
  /\ \A i \in 1..Len(Pending) :
       Pending[i].retry = attempts[Pending[i].id] /\ Pending[i].retry < MaxRetry

\* A message is in the queue at most once, so no Process publishes it twice.
NoDuplicate ==
  \A i, j \in 1..Len(Pending) : Pending[i].id = Pending[j].id => i = j

\* The rest of the inductive invariant: what holds between calls, while the
\* process is down, and of the messages it has not met.
QueueInv ==
  /\ ~busy => todo = <<>> /\ remain = <<>>
  /\ ~up => ~busy /\ queue = <<>> /\ life = {}
  /\ life \cup storage \cup saved \subseteq submitted
  /\ \A m \in Msgs \ life : attempts[m] = 0

IInv == TypeOK /\ QueueInv /\ Durable /\ Accounted /\ RetryBudget /\ NoDuplicate

\* The queue implements the outbox.
Abstract == INSTANCE Outbox WITH pending <- Ids(Pending), durable <- storage
OutboxSpec == Abstract!Spec
=============================================================================
