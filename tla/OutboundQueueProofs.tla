------------------------- MODULE OutboundQueueProofs -------------------------
(***************************************************************************)
(* OutboundQueue's safety properties and its refinement of Outbox, for any *)
(* set of messages, retry limit and number of crashes.                     *)
(***************************************************************************)
EXTENDS OutboundQueue, TLAPS

\* The members of a sequence of messages are messages.
LEMMA EntryAt ==
  ASSUME NEW s \in Seq(Entry), NEW i \in 1..Len(s)
  PROVE  s[i].id \in Msgs
  <1>1. s[i] \in Entry
    OBVIOUS
  <1> QED
    BY <1>1 DEF Entry

\* A published message leaves the front of what is still to publish.
LEMMA DropHead ==
  ASSUME NEW s \in Seq(Entry), NEW t \in Seq(Entry), t # <<>>
  PROVE  /\ s \o t \in Seq(Entry) /\ s \o Tail(t) \in Seq(Entry)
         /\ Head(t) \in Entry
         /\ Len(s) + 1 \in 1..Len(s \o t)
         /\ (s \o t)[Len(s) + 1] = Head(t)
         /\ Len(s \o Tail(t)) = Len(s \o t) - 1
         /\ \A i \in 1..Len(s \o Tail(t)) :
              (s \o Tail(t))[i] = (s \o t)[IF i <= Len(s) THEN i ELSE i + 1]
  OBVIOUS

\* A message kept for later takes the place it had.
LEMMA KeepHead ==
  ASSUME NEW s \in Seq(Entry), NEW t \in Seq(Entry), t # <<>>, NEW e \in Entry
  PROVE  /\ Append(s, e) \o Tail(t) \in Seq(Entry)
         /\ Len(Append(s, e) \o Tail(t)) = Len(s \o t)
         /\ \A i \in 1..Len(s \o t) :
              (Append(s, e) \o Tail(t))[i] = IF i = Len(s) + 1 THEN e ELSE (s \o t)[i]
  OBVIOUS

\* NewOutboundQueue over an empty store satisfies the invariant.
LEMMA InitIInv == Init => IInv
  <1> SUFFICES ASSUME Init PROVE IInv
    OBVIOUS
  <1> USE DEF Init
  <1>1. Pending = <<>> /\ Ids(Pending) = {}
    BY DEF Pending, Ids
  <1>2. TypeOK
    <2>1. up \in BOOLEAN /\ busy \in BOOLEAN
      OBVIOUS
    <2>2. queue \in Seq(Entry) /\ todo \in Seq(Entry) /\ remain \in Seq(Entry)
      OBVIOUS
    <2>3. crashes \in 0..MaxCrashes
      BY QueueAssumption
    <2> QED
      BY <2>1, <2>2, <2>3 DEF TypeOK
  <1>3. QueueInv /\ Durable /\ Accounted
    BY <1>1 DEF QueueInv, Durable, Accounted
  <1>4. RetryBudget /\ NoDuplicate
    BY <1>1 DEF RetryBudget, NoDuplicate
  <1> QED
    BY <1>2, <1>3, <1>4 DEF IInv

\* A step that leaves Pending, the store and the history alone.
LEMMA SamePending ==
  ASSUME IInv, Pending' = Pending, TypeOK', QueueInv',
         UNCHANGED <<storage, histVars, lifeVars>>
  PROVE  IInv'
  <1>1. Ids(Pending') = Ids(Pending)
    OBVIOUS
  <1>2. Accounted' /\ Durable'
    BY <1>1 DEF IInv, Accounted, Durable, histVars, lifeVars, Ids
  <1>3. RetryBudget'
    BY DEF IInv, RetryBudget, lifeVars
  <1>4. NoDuplicate'
    BY DEF IInv, NoDuplicate
  <1> QED
    BY <1>2, <1>3, <1>4 DEF IInv

\* Enqueue keeps the invariant: the new message is pending and unattempted.
LEMMA EnqueueInv ==
  ASSUME IInv, NEW m \in Msgs, Enqueue(m)
  PROVE  IInv'
  <1> DEFINE e == [id |-> m, retry |-> 0]
  <1> USE DEF Enqueue
  <1>1. e \in Entry /\ Pending = queue /\ Pending' = Append(queue, e)
    BY DEF Entry, Pending
  <1>2. m \notin life /\ m \notin storage /\ m \notin saved /\ attempts[m] = 0
    BY DEF IInv, QueueInv
  <1>3. queue \in Seq(Entry) /\ queue' \in Seq(Entry) /\ Len(queue') = Len(queue) + 1
        /\ queue'[Len(queue) + 1] = e /\ \A i \in 1..Len(queue) : queue'[i] = queue[i]
    BY <1>1 DEF IInv, TypeOK
  <1>4. Ids(Pending') = Ids(Pending) \cup {m}
    BY <1>1, <1>3 DEF Ids
  <1>5. TypeOK' /\ QueueInv' /\ Durable'
    BY <1>2, <1>3 DEF IInv, TypeOK, QueueInv, Durable, Save
  <1>6. Accounted'
    BY <1>2, <1>4 DEF IInv, Accounted, Ids
  <1>7. RetryBudget'
    BY <1>1, <1>2, <1>3, QueueAssumption DEF IInv, TypeOK, RetryBudget
  <1>8. m \notin Ids(Pending)
    BY <1>2 DEF IInv, Accounted
  <1>9. NoDuplicate'
    BY <1>1, <1>3, <1>8 DEF IInv, NoDuplicate, Ids
  <1> QED
    BY <1>5, <1>6, <1>7, <1>9 DEF IInv
\* Taking q.mu and ranging over the queue keeps the invariant: what was the
\* queue is now todo.
LEMMA ProcessBeginInv == IInv /\ ProcessBegin => IInv'
  <1> SUFFICES ASSUME IInv, ProcessBegin PROVE IInv'
    OBVIOUS
  <1> USE DEF ProcessBegin
  <1>1. queue \in Seq(Entry) /\ <<>> \o queue = queue
    BY DEF IInv, TypeOK
  <1>2. Pending' = Pending
    BY <1>1 DEF Pending
  <1>3. TypeOK' /\ QueueInv'
    BY DEF IInv, TypeOK, QueueInv, histVars, lifeVars
  <1> QED
    BY <1>2, <1>3, SamePending

\* Replacing the queue by remain keeps the invariant.
LEMMA ProcessEndInv == IInv /\ ProcessEnd => IInv'
  <1> SUFFICES ASSUME IInv, ProcessEnd PROVE IInv'
    OBVIOUS
  <1> USE DEF ProcessEnd
  <1>1. remain \in Seq(Entry) /\ remain \o <<>> = remain
    BY DEF IInv, TypeOK
  <1>2. Pending' = Pending
    BY <1>1 DEF Pending
  <1>3. TypeOK' /\ QueueInv'
    BY DEF IInv, TypeOK, QueueInv, histVars, lifeVars
  <1> QED
    BY <1>2, <1>3, SamePending

\* What the loop of Process knows of the message it publishes next.
LEMMA HeadFacts ==
  ASSUME IInv, busy, todo # <<>>
  PROVE  /\ remain \in Seq(Entry) /\ todo \in Seq(Entry) /\ Pending = remain \o todo
         /\ Head(todo) \in Entry /\ Head(todo).id \in Msgs
         /\ Head(todo).id \in Ids(Pending) /\ Head(todo).id \in life
         /\ Head(todo).id \notin acked /\ Head(todo).id \notin dropped
         /\ Head(todo).retry = attempts[Head(todo).id] /\ Head(todo).retry < MaxRetry
         /\ Head(todo).retry \in Nat
  <1>1. remain \in Seq(Entry) /\ todo \in Seq(Entry) /\ Pending = remain \o todo
    BY DEF IInv, TypeOK, Pending
  <1>2. Head(todo) \in Entry /\ Len(remain) + 1 \in 1..Len(Pending)
        /\ Pending[Len(remain) + 1] = Head(todo)
    BY <1>1, DropHead
  <1>3. Head(todo).id \in Ids(Pending)
    BY <1>2 DEF Ids
  <1>4. Head(todo).retry = attempts[Head(todo).id] /\ Head(todo).retry < MaxRetry
    BY <1>2 DEF IInv, RetryBudget
  <1> QED
    BY <1>1, <1>2, <1>3, <1>4 DEF IInv, Accounted, Entry

\* Taking the head away takes exactly its id away.
LEMMA DropIds ==
  ASSUME IInv, busy, todo # <<>>
  PROVE  /\ Ids(remain \o Tail(todo)) = Ids(Pending) \ {Head(todo).id}
         /\ \A i, j \in 1..Len(remain \o Tail(todo)) :
              (remain \o Tail(todo))[i].id = (remain \o Tail(todo))[j].id => i = j
         /\ \A i \in 1..Len(remain \o Tail(todo)) : \E j \in 1..Len(Pending) :
              j # Len(remain) + 1 /\ (remain \o Tail(todo))[i] = Pending[j]
  <1> DEFINE q == remain \o Tail(todo)
             n == Len(remain) + 1
             f(i) == IF i <= Len(remain) THEN i ELSE i + 1
  <1>1. remain \in Seq(Entry) /\ todo \in Seq(Entry) /\ Pending = remain \o todo
    BY HeadFacts
  <1>2. /\ Len(remain) \in Nat /\ Len(Pending) \in Nat /\ n \in 1..Len(Pending)
        /\ Pending[n] = Head(todo) /\ Len(q) = Len(Pending) - 1
        /\ \A i \in 1..Len(q) : q[i] = Pending[f(i)]
    BY <1>1, DropHead
  <1>3. \A i \in 1..Len(q) : f(i) \in 1..Len(Pending) /\ f(i) # n
    BY <1>2
  <1>4. \A j \in 1..Len(Pending) : j # n => \E i \in 1..Len(q) : f(i) = j
    <2> SUFFICES ASSUME NEW j \in 1..Len(Pending), j # n
                 PROVE  \E i \in 1..Len(q) : f(i) = j
      OBVIOUS
    <2>1. CASE j <= Len(remain)
      BY <1>2, <2>1
    <2>2. CASE j > Len(remain)
      <3>1. j - 1 \in 1..Len(q) /\ f(j - 1) = j
        BY <1>2, <2>2
      <3> QED
        BY <3>1
    <2> QED
      BY <1>2, <2>1, <2>2
  <1> HIDE DEF q, n, f
  <1>5. \A j \in 1..Len(Pending) : Pending[j].id = Pending[n].id => j = n
    BY <1>2 DEF IInv, NoDuplicate
  <1>6. Ids(q) = Ids(Pending) \ {Pending[n].id}
    <2>1. \A i \in 1..Len(q) : q[i].id \in Ids(Pending) /\ q[i].id # Pending[n].id
      BY <1>2, <1>3, <1>5 DEF Ids
    <2>2. \A j \in 1..Len(Pending) : Pending[j].id # Pending[n].id => Pending[j].id \in Ids(q)
      <3> SUFFICES ASSUME NEW j \in 1..Len(Pending), Pending[j].id # Pending[n].id
                   PROVE  Pending[j].id \in Ids(q)
        OBVIOUS
      <3>1. PICK i \in 1..Len(q) : f(i) = j
        BY <1>4
      <3> QED
        BY <1>2, <3>1 DEF Ids
    <2> QED
      BY <2>1, <2>2 DEF Ids
  <1>7. \A i, j \in 1..Len(q) : f(i) = f(j) => i = j
    BY <1>2 DEF f
  <1>8. \A i, j \in 1..Len(q) : q[i].id = q[j].id => i = j
    BY <1>2, <1>3, <1>7 DEF IInv, NoDuplicate
  <1>9. \A i \in 1..Len(q) : \E j \in 1..Len(Pending) : j # n /\ q[i] = Pending[j]
    BY <1>2, <1>3
  <1> QED
    BY <1>2, <1>6, <1>8, <1>9 DEF q, n

\* The step is over with the head: acknowledged, or given up after its last
\* attempt.
LEMMA SettleInv ==
  ASSUME IInv, busy, todo # <<>>,
         UNCHANGED <<up, queue, busy, remain, crashes, submitted, saved, life>>,
         todo' = Tail(todo),
         attempts' = [attempts EXCEPT ![Head(todo).id] = @ + 1],
         delivered' \in {delivered, delivered \cup {Head(todo).id}},
         storage' \in {storage, storage \ (delivered' \cap {Head(todo).id})},
         \/ acked' = acked \cup {Head(todo).id} /\ dropped' = dropped
         \/ /\ dropped' = dropped \cup {Head(todo).id} /\ acked' = acked
            /\ Head(todo).retry + 1 >= MaxRetry
  PROVE  IInv'
  <1> DEFINE m == Head(todo).id
             q == remain \o Tail(todo)
  <1>1. Pending' = q /\ Tail(todo) \in Seq(Entry)
    BY HeadFacts DEF Pending
  <1>2. TypeOK'
    BY <1>1, HeadFacts DEF IInv, TypeOK
  <1>3. QueueInv' /\ Durable'
    BY HeadFacts DEF IInv, TypeOK, QueueInv, Durable
  <1>4. Ids(Pending') = Ids(Pending) \ {m}
    BY <1>1, DropIds
  <1>5. Accounted'
    <2>1. Ids(Pending)' = Ids(Pending) \ {m}
      BY <1>4 DEF Ids
    <2> QED
      BY <2>1, HeadFacts DEF IInv, Accounted
  <1>6. NoDuplicate'
    BY <1>1, DropIds DEF NoDuplicate
  <1>7. RetryBudget'
    <2>1. \A x \in dropped' : attempts'[x] = MaxRetry
      BY HeadFacts, QueueAssumption DEF IInv, TypeOK, RetryBudget
    <2>2. \A i \in 1..Len(q) : q[i].id # m /\ \E j \in 1..Len(Pending) : q[i] = Pending[j]
      <3>1. \A i \in 1..Len(q) : q[i].id \in Ids(q)
        BY DEF Ids
      <3> QED
        BY <3>1, DropIds
    <2>3. \A i \in 1..Len(q) : q[i].id \in Msgs
      <3>1. remain \in Seq(Entry) /\ Tail(todo) \in Seq(Entry)
        BY <1>1, HeadFacts
      <3>2. q \in Seq(Entry)
        BY <3>1
      <3> QED
        BY <3>2, EntryAt
    <2>4. \A i \in 1..Len(q) : q[i].retry = attempts'[q[i].id] /\ q[i].retry < MaxRetry
      BY <2>2, <2>3 DEF IInv, TypeOK, RetryBudget
    <2> QED
      BY <1>1, <2>1, <2>4 DEF RetryBudget
  <1> QED
    BY <1>2, <1>3, <1>5, <1>6, <1>7 DEF IInv

\* A successful publish keeps the invariant: the message moves from todo to
\* acked, and leaves the store only once it is delivered.
LEMMA PublishOkInv == IInv /\ PublishOk => IInv'
  <1> SUFFICES ASSUME IInv, PublishOk PROVE IInv'
    OBVIOUS
  <1>1. storage' \in {storage, storage \ (delivered' \cap {Head(todo).id})}
    BY DEF PublishOk, Delete
  <1> QED
    BY <1>1, SettleInv DEF PublishOk

\* The head is kept for the next Process, with its retry counted.
LEMMA KeepInv ==
  ASSUME IInv, PublishErr, Head(todo).retry + 1 < MaxRetry
  PROVE  IInv'
  <1> DEFINE m == Head(todo).id
             n == Len(remain) + 1
             e == [id |-> m, retry |-> Head(todo).retry + 1]
             q == Append(remain, e) \o Tail(todo)
  <1>1. busy /\ todo # <<>> /\ e \in Entry
    BY HeadFacts DEF PublishErr, Entry
  <1>2. remain' = Append(remain, e) /\ dropped' = dropped
    BY <1>1, HeadFacts, QueueAssumption DEF PublishErr
  <1>3. /\ n \in 1..Len(Pending) /\ Pending[n] = Head(todo) /\ Len(q) = Len(Pending)
        /\ \A i \in 1..Len(q) : q[i] = IF i = n THEN e ELSE Pending[i]
    BY <1>1, HeadFacts, DropHead, KeepHead
  <1>4. Pending' = q
    BY <1>1, <1>2 DEF PublishErr, Pending
  <1> HIDE DEF q, n
  <1>5. \A i \in 1..Len(q) : q[i].id = Pending[i].id
    BY <1>3
  <1>6. TypeOK'
    <2>1. remain' \in Seq(Entry) /\ todo' \in Seq(Entry)
      BY <1>1, <1>2, HeadFacts DEF PublishErr
    <2>2. attempts' \in [Msgs -> Nat]
      BY <1>1, HeadFacts DEF IInv, TypeOK, PublishErr
    <2> QED
      BY <1>1, <1>2, <2>1, <2>2, HeadFacts DEF IInv, TypeOK, PublishErr
  <1>7. QueueInv' /\ Durable'
    BY <1>1, HeadFacts DEF IInv, TypeOK, QueueInv, Durable, PublishErr
  <1>8. Ids(Pending)' = Ids(Pending)
    BY <1>3, <1>4, <1>5 DEF Ids
  <1>9. Accounted'
    BY <1>2, <1>8 DEF IInv, Accounted, PublishErr
  <1>10. NoDuplicate'
    BY <1>3, <1>4, <1>5 DEF IInv, NoDuplicate
  <1>11. RetryBudget'
    <2>1. \A x \in dropped' : attempts'[x] = MaxRetry
      BY <1>1, <1>2, HeadFacts DEF IInv, TypeOK, RetryBudget, PublishErr
    <2>2. \A i \in 1..Len(Pending) : i # n => Pending[i].id # m
      BY <1>3 DEF IInv, NoDuplicate
    <2>3. \A i \in 1..Len(Pending) : Pending[i].id \in Msgs
      <3>1. Pending \in Seq(Entry)
        BY <1>1, HeadFacts, DropHead
      <3> QED
        BY <3>1, EntryAt
    <2>4. attempts'[m] = Head(todo).retry + 1 /\ \A x \in Msgs \ {m} : attempts'[x] = attempts[x]
      BY <1>1, HeadFacts DEF IInv, TypeOK, PublishErr
    <2>5. \A i \in 1..Len(q) : q[i].retry = attempts'[q[i].id] /\ q[i].retry < MaxRetry
      BY <1>3, <2>2, <2>3, <2>4 DEF IInv, RetryBudget
    <2> QED
      BY <1>4, <2>1, <2>5 DEF RetryBudget
  <1> QED
    BY <1>6, <1>7, <1>9, <1>10, <1>11 DEF IInv

\* A failed publish keeps the invariant: the message moves from todo to
\* remain with its Retry increased, or to dropped at the limit.
LEMMA PublishErrInv == IInv /\ PublishErr => IInv'
  <1> SUFFICES ASSUME IInv, PublishErr PROVE IInv'
    OBVIOUS
  <1>1. CASE Head(todo).retry + 1 < MaxRetry
    BY <1>1, KeepInv
  <1>2. CASE ~(Head(todo).retry + 1 < MaxRetry)
    <2>1. busy /\ todo # <<>>
      BY DEF PublishErr
    <2>2. Head(todo).retry + 1 >= MaxRetry
      BY <1>2, <2>1, HeadFacts, QueueAssumption
    <2>3. dropped' = dropped \cup {Head(todo).id} /\ remain' = remain
      BY <1>2 DEF PublishErr
    <2> QED
      BY <2>1, <2>2, <2>3, SettleInv DEF PublishErr
  <1> QED
    BY <1>1, <1>2

\* A crash keeps the invariant: memory is lost, the store is not.
LEMMA CrashInv == IInv /\ Crash => IInv'
  <1> SUFFICES ASSUME IInv, Crash PROVE IInv'
    OBVIOUS
  <1> USE DEF Crash, histVars
  <1>1. Pending' = <<>> /\ Ids(Pending)' = {}
    BY DEF Pending, Ids
  <1>2. TypeOK'
    <2>1. up' \in BOOLEAN /\ busy' \in BOOLEAN
      OBVIOUS
    <2>2. queue' \in Seq(Entry) /\ todo' \in Seq(Entry) /\ remain' \in Seq(Entry)
      OBVIOUS
    <2>3. crashes' \in 0..MaxCrashes
      BY QueueAssumption DEF IInv, TypeOK
    <2> QED
      BY <2>1, <2>2, <2>3 DEF IInv, TypeOK
  <1>3. QueueInv' /\ Durable' /\ Accounted'
    BY <1>1 DEF IInv, QueueInv, Durable, Accounted
  <1>4. RetryBudget' /\ NoDuplicate'
    BY <1>1 DEF RetryBudget, NoDuplicate
  <1> QED
    BY <1>2, <1>3, <1>4 DEF IInv

\* NewOutboundQueue after a crash keeps the invariant: it takes over what
\* LoadAll returns, or nothing.
LEMMA RestartInv == IInv /\ Restart => IInv'
  <1> SUFFICES ASSUME IInv, Restart PROVE IInv'
    OBVIOUS
  <1> USE DEF Restart, histVars
  <1>1. ~busy /\ ~busy' /\ Pending' = queue' /\ queue = <<>> /\ Ids(Pending) = {}
    BY DEF IInv, QueueInv, Pending, Ids
  <1>2. acked = {} /\ dropped = {} /\ \A m \in Msgs : attempts[m] = 0
    BY <1>1 DEF IInv, QueueInv, Accounted
  <1>3. /\ queue' \in Seq(Entry)
        /\ Ids(queue') = life' /\ life' \subseteq storage
        /\ \A i \in 1..Len(queue') : queue'[i].retry = 0 /\ queue'[i].id \in Msgs
        /\ \A i, j \in 1..Len(queue') : queue'[i].id = queue'[j].id => i = j
    <2>1. CASE queue' = <<>> /\ life' = {}
      BY <2>1 DEF Ids
    <2>2. CASE ~(queue' = <<>> /\ life' = {})
      <3>1. PICK n \in 0..Cardinality(storage) :
              \E s \in [1..n -> [id : storage, retry : {0}]] :
                Loaded(s) /\ queue' = s /\ life' = storage
        BY <2>2
      <3>2. PICK s \in [1..n -> [id : storage, retry : {0}]] :
              Loaded(s) /\ queue' = s /\ life' = storage
        BY <3>1
      <3>3. n \in Nat /\ storage \subseteq Msgs
        BY DEF IInv, TypeOK
      <3>4. s \in Seq(Entry) /\ Len(s) = n
        <4>1. [id : storage, retry : {0}] \subseteq Entry
          BY <3>3 DEF Entry
        <4>2. s \in [1..n -> Entry]
          BY <3>2, <4>1
        <4> QED
          BY <3>3, <4>2
      <3>5. \A i \in 1..Len(s) : s[i].id \in Msgs
        BY <3>4, EntryAt
      <3> QED
        BY <3>2, <3>4, <3>5 DEF Loaded
    <2> QED
      BY <2>1, <2>2
  <1>4. Ids(Pending)' = life'
    BY <1>1, <1>3 DEF Ids
  <1>5. TypeOK' /\ QueueInv' /\ Durable'
    BY <1>2, <1>3 DEF IInv, TypeOK, QueueInv, Durable
  <1>6. Accounted'
    BY <1>2, <1>4 DEF Accounted
  <1>7. RetryBudget' /\ NoDuplicate'
    BY <1>1, <1>2, <1>3, QueueAssumption DEF RetryBudget, NoDuplicate
  <1> QED
    BY <1>5, <1>6, <1>7 DEF IInv

\* A step that changes no variable keeps the invariant.
LEMMA StutterInv == IInv /\ UNCHANGED vars => IInv'
  <1> SUFFICES ASSUME IInv, UNCHANGED vars PROVE IInv'
    OBVIOUS
  <1> USE DEF vars, memVars, histVars, lifeVars
  <1>1. Pending' = Pending
    BY DEF Pending
  <1>2. TypeOK' /\ QueueInv'
    BY DEF IInv, TypeOK, QueueInv
  <1> QED
    BY <1>1, <1>2, SamePending

\* IInv is an invariant of the queue.
THEOREM Inductive == Spec => []IInv
  <1>1. IInv /\ [Next]_vars => IInv'
    BY EnqueueInv, ProcessBeginInv, PublishOkInv, PublishErrInv, ProcessEndInv,
       CrashInv, RestartInv, StutterInv DEF Next
  <1> QED
    BY <1>1, InitIInv, PTL DEF Spec

\* A saved message stays in the store until the broker has it, whatever
\* publish, the store and crashes do.
THEOREM DurableSafe == Spec => []Durable
  <1>1. IInv => Durable
    BY DEF IInv
  <1> QED
    BY <1>1, Inductive, PTL

\* Process neither loses a message nor publishes one again that it has an
\* answer for: pending, acknowledged and given up partition what it took over.
THEOREM AccountedSafe == Spec => []Accounted
  <1>1. IInv => Accounted
    BY DEF IInv
  <1> QED
    BY <1>1, Inductive, PTL

\* A message is given up after exactly MaxRetry attempts, for every MaxRetry.
THEOREM RetryBudgetSafe == Spec => []RetryBudget
  <1>1. IInv => RetryBudget
    BY DEF IInv
  <1> QED
    BY <1>1, Inductive, PTL

\* No message is queued twice.
THEOREM NoDuplicateSafe == Spec => []NoDuplicate
  <1>1. IInv => NoDuplicate
    BY DEF IInv
  <1> QED
    BY <1>1, Inductive, PTL

\* The queue implements the outbox: publishes, give-ups, crashes and restarts
\* of the code are steps the promise allows, and nothing else is visible.
THEOREM Refinement == Spec => OutboxSpec
  <1> DEFINE V == Abstract!outboxVars
  <1>1. Init => Abstract!Init
    BY DEF Init, Abstract!Init, Pending, Ids
  <1>2. IInv /\ IInv' /\ [Next]_vars => [Abstract!Next]_V
    <2> SUFFICES ASSUME IInv, IInv', [Next]_vars
                 PROVE  Abstract!Next \/ UNCHANGED V
      OBVIOUS
    <2> USE DEF Abstract!Next, Abstract!outboxVars
    <2>1. /\ Ids(Pending) = life \ (acked \cup dropped)
          /\ Ids(Pending)' = life' \ (acked' \cup dropped')
          /\ acked \cup dropped \subseteq life
      BY DEF IInv, Accounted
    <2>2. ASSUME NEW m \in Msgs, Enqueue(m) PROVE Abstract!Submit(m)
      <3>1. m \notin life
        BY <2>2 DEF Enqueue, IInv, QueueInv
      <3> QED
        BY <2>1, <2>2, <3>1 DEF Enqueue, Save, Abstract!Submit
    <2>3. CASE ProcessBegin \/ ProcessEnd \/ UNCHANGED vars
      BY <2>1, <2>3 DEF ProcessBegin, ProcessEnd, vars, histVars, lifeVars
    <2>4. CASE PublishOk \/ PublishErr
      <3>1. busy /\ todo # <<>> /\ up
        BY <2>4 DEF PublishOk, PublishErr
      <3>2. Head(todo).id \in Msgs /\ Head(todo).id \in Ids(Pending)
        BY <3>1, HeadFacts
      <3>3. Ids(Pending)' \in {Ids(Pending), Ids(Pending) \ {Head(todo).id}}
        BY <2>1, <2>4 DEF PublishOk, PublishErr
      <3>4. Abstract!Publish(Head(todo).id)
        BY <2>4, <3>1, <3>2, <3>3 DEF PublishOk, PublishErr, Delete, Abstract!Publish
      <3> QED
        BY <3>2, <3>4
    <2>5. CASE Crash
      BY <2>1, <2>5 DEF Crash, histVars, Abstract!Crash
    <2>6. CASE Restart
      <3>1. life' \in {storage, {}} /\ acked' \cup dropped' = {}
        BY <2>1, <2>6 DEF Restart, IInv, QueueInv
      <3> QED
        BY <2>1, <2>6, <3>1 DEF Restart, histVars, Abstract!Restart
    <2> QED
      BY <2>2, <2>3, <2>4, <2>5, <2>6 DEF Next
  <1> QED
    BY <1>1, <1>2, Inductive, PTL DEF Spec, OutboxSpec, Abstract!Spec
=============================================================================
