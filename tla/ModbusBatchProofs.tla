-------------------------- MODULE ModbusBatchProofs --------------------------
(***************************************************************************)
(* ModbusBatch's properties for any points, addresses and formats, and any *)
(* address width and request limits that satisfy BatchAssumption.          *)
(***************************************************************************)
EXTENDS ModbusBatch, TLAPS

\* uint16 arithmetic stays in range.
LEMMA WrapType ==
  ASSUME NEW a \in Addr, NEW b \in Addr
  PROVE  Add(a, b) \in Addr /\ Sub(a, b) \in Addr
  BY BatchAssumption DEF Addr, Add, Sub

\* A request of one point asks for exactly the registers of the point.
LEMMA OpenArith ==
  ASSUME NEW a \in Addr, NEW n \in 1..MaxRegs
  PROVE  /\ Sub(Add(a, n), 1) \in Addr
         /\ Add(Sub(Sub(Add(a, n), 1), a), 1) = n
         /\ Sub(a, a) = 0
  BY BatchAssumption DEF Addr, Add, Sub

\* The merge of registers: the point starts inside the request or right after
\* it, and the request grows to its end or stays as it is.
LEMMA MergeArith ==
  ASSUME NEW a \in Addr, NEW b \in Addr, NEW m \in Addr, NEW n \in 1..MaxRegs,
         NEW q, q = Add(Sub(m, a), 1), q \in 1..MaxRegs,
         a <= b, b <= Add(m, 1), Sub(Add(b, n), a) < MaxRegs,
         NEW l, l = Sub(Add(b, n), 1),
         NEW m2, m2 = IF l > m THEN l ELSE m
  PROVE  /\ m2 \in Addr
         /\ Sub(b, a) = b - a /\ b - a <= q
         /\ q <= Add(Sub(m2, a), 1) /\ Add(Sub(m2, a), 1) \in 1..MaxRegs
         /\ Add(Sub(m2, a), 1) \in {q, b - a + n}
         /\ b + n <= U16 => b - a + n <= Add(Sub(m2, a), 1)
  BY BatchAssumption DEF Addr, Add, Sub

\* The merge of bits: the point is the next bit.
LEMMA MergeBitsArith ==
  ASSUME NEW a \in Addr, NEW b \in Addr, NEW m \in Addr,
         NEW q, q = Add(Sub(m, a), 1), q \in 1..MaxBits,
         a <= b, b = Add(m, 1), Sub(b, a) < MaxBits,
         NEW m2, m2 = Sub(Add(b, 1), 1)
  PROVE  /\ m2 \in Addr
         /\ Sub(b, a) = b - a /\ b - a = q
         /\ Add(Sub(m2, a), 1) = q + 1 /\ q + 1 \in 1..MaxBits
  BY BatchAssumption DEF Addr, Add, Sub

\* A register that only the grown request has lies beyond the old one.
LEMMA Beyond ==
  ASSUME NEW q \in Nat, NEW q2 \in Nat, NEW r \in 0..(q2 - 1), r \notin 0..(q - 1)
  PROVE  q <= r /\ r < q2 /\ q2 # q
  OBVIOUS

\* The points of the call have addresses and register counts.
LEMMA PointFacts ==
  ASSUME TypeOK, NEW k \in 1..Len(pts)
  PROVE  pts[k] \in Points /\ A(k) \in Addr /\ N(k) \in 1..MaxRegs
         /\ (kind = "bits" => N(k) = 1)
  BY DEF TypeOK, A, N

\* The initial states of a call.
LEMMA InitIInv == Init => IInv
  <1> SUFFICES ASSUME Init PROVE IInv
    OBVIOUS
  <1> USE BatchAssumption DEF Init
  <1>1. need \in [Points -> 1..MaxRegs] /\ (kind = "bits" => \A p \in Points : need[p] = 1)
    <2>1. CASE kind = "regs"
      BY <2>1
    <2>2. CASE kind = "bits"
      BY <2>2
    <2> QED
      BY <2>1, <2>2
  <1>2. TypeOK
    BY <1>1 DEF TypeOK, Addr
  <1> QED
    BY <1>2 DEF IInv, OrderInv, LoopInv, QuantityLegal, Covers, NoStrayRegister,
                EveryPointOnce

\* sort.Slice.
LEMMA SortInv == IInv /\ Sort => IInv'
  <1> SUFFICES ASSUME IInv, Sort PROVE IInv'
    OBVIOUS
  <1>1. PICK n \in 1..Cardinality(Points) :
          \E s \in [1..n -> Points] : Sorted(s) /\ pts' = s
    BY DEF Sort
  <1>2. PICK s \in [1..n -> Points] : Sorted(s) /\ pts' = s
    BY <1>1
  <1>3. n \in Nat /\ n >= 1 /\ s \in Seq(Points) /\ Len(s) = n
    BY <1>2
  <1>4. TypeOK'
    BY <1>2, <1>3 DEF IInv, TypeOK, Sort, input, scan
  <1>5. OrderInv'
    BY <1>2 DEF Sorted, OrderInv, Sort, input, A
  <1>6. i = 1 /\ results = <<>>
    BY DEF IInv, LoopInv, Sort
  <1>7. LoopInv'
    BY <1>2, <1>3, <1>6 DEF LoopInv, Sort, scan
  <1> QED
    BY <1>4, <1>5, <1>7
    DEF IInv, Sort, QuantityLegal, Covers, NoStrayRegister, EveryPointOnce

\* A new batch.
LEMMA OpenInv == IInv /\ Open => IInv'
  <1> SUFFICES ASSUME IInv, Open PROVE IInv'
    OBVIOUS
  <1> USE DEF Open, input
  <1>1. i \in 1..Len(pts) /\ TypeOK
    BY DEF IInv, LoopInv
  <1>2. A(i) \in Addr /\ N(i) \in 1..MaxRegs /\ (kind = "bits" => N(i) = 1)
    BY <1>1, PointFacts
  <1>3. maxAddr' \in Addr /\ Quantity' = N(i) /\ Offset(i)' = 0
    BY <1>2, OpenArith DEF Last, Quantity, Offset, A, N
  <1>4. TypeOK' /\ OrderInv' /\ LoopInv'
    BY <1>1, <1>3 DEF IInv, TypeOK, OrderInv, LoopInv, A
  <1>5. end' = i /\ i' = i /\ N(i)' = N(i) /\ A(i)' = A(i)
    BY DEF A, N
  <1>6. QuantityLegal'
    BY <1>1, <1>2, <1>3, BatchAssumption DEF QuantityLegal, Limit, TypeOK
  <1>7. i' \in i'..end' /\ \A k \in i'..end' : k = i
    BY <1>1, <1>5
  <1>8. Covers'
    BY <1>2, <1>3, <1>5, <1>7 DEF Covers
  <1>9. NoStrayRegister'
    BY <1>2, <1>3, <1>5, <1>7 DEF NoStrayRegister
  <1> QED
    BY <1>4, <1>6, <1>8, <1>9 DEF IInv, EveryPointOnce

\* What a merge does to the request, for both algorithms.
LEMMA MergeFacts ==
  ASSUME IInv, Merge
  PROVE  /\ i \in 1..Len(pts) /\ end \in i..Len(pts) /\ j = end + 1 /\ j \in 1..Len(pts)
         /\ maxAddr' \in Addr
         /\ Offset(j) <= Quantity /\ Offset(j) \in Nat
         /\ Quantity <= Quantity' /\ Quantity' \in 1..Limit
         /\ Quantity' \in {Quantity, Offset(j) + N(j)}
         /\ A(j) + N(j) <= U16 => Offset(j) + N(j) <= Quantity'
  <1> USE DEF Merge, input
  <1>1. i \in 1..Len(pts) /\ end \in i..Len(pts) /\ j = end + 1 /\ j \in 1..Len(pts) /\ TypeOK
    BY DEF IInv, TypeOK, LoopInv
  <1>2. A(i) \in Addr /\ A(j) \in Addr /\ N(j) \in 1..MaxRegs /\ (kind = "bits" => N(j) = 1)
    BY <1>1, PointFacts
  <1>3. A(i) <= A(j) /\ maxAddr \in Addr
    BY <1>1 DEF IInv, OrderInv, TypeOK
  <1>4. Quantity \in 1..Limit
    BY DEF IInv, QuantityLegal
  <1>5. Quantity' = Add(Sub(maxAddr', A(i)), 1)
    BY DEF Quantity, A
  <1>6. CASE kind = "regs"
    <2>1. A(j) <= Add(maxAddr, 1) /\ Sub(Add(A(j), N(j)), A(i)) < MaxRegs
      BY <1>6 DEF Joins
    <2>2. maxAddr' = IF Last(j) > maxAddr THEN Last(j) ELSE maxAddr
      BY <1>6
    <2>3. Quantity \in 1..MaxRegs /\ Limit = MaxRegs
      BY <1>4, <1>6 DEF Limit
    <2>4. /\ maxAddr' \in Addr
          /\ Offset(j) = A(j) - A(i) /\ A(j) - A(i) <= Quantity
          /\ Quantity <= Quantity' /\ Quantity' \in 1..MaxRegs
          /\ Quantity' \in {Quantity, A(j) - A(i) + N(j)}
          /\ A(j) + N(j) <= U16 => A(j) - A(i) + N(j) <= Quantity'
      BY <1>2, <1>3, <1>5, <2>1, <2>2, <2>3, MergeArith DEF Quantity, Last, Offset
    <2>5. Offset(j) \in Nat
      BY <1>2, <1>3, <2>4 DEF Addr
    <2> QED
      BY <1>1, <2>3, <2>4, <2>5
  <1>7. CASE kind = "bits"
    <2>1. A(j) = Add(maxAddr, 1) /\ Sub(A(j), A(i)) < MaxBits /\ N(j) = 1
      BY <1>2, <1>7 DEF Joins
    <2>2. maxAddr' = Sub(Add(A(j), 1), 1)
      BY <1>7, <2>1 DEF Last
    <2>3. Quantity \in 1..MaxBits /\ Limit = MaxBits /\ Limit' = MaxBits
      BY <1>4, <1>7 DEF Limit
    <2>4. /\ maxAddr' \in Addr
          /\ Offset(j) = A(j) - A(i) /\ A(j) - A(i) = Quantity
          /\ Quantity' = Quantity + 1 /\ Quantity + 1 \in 1..MaxBits
      BY <1>2, <1>3, <1>5, <2>1, <2>2, <2>3, MergeBitsArith DEF Quantity, Offset
    <2>5. Offset(j) \in Nat
      BY <1>2, <1>3, <2>4 DEF Addr
    <2> QED
      BY <1>1, <2>1, <2>3, <2>4, <2>5
  <1> QED
    BY <1>6, <1>7 DEF IInv, TypeOK

\* A point joins the batch.
LEMMA MergeInv == IInv /\ Merge => IInv'
  <1> SUFFICES ASSUME IInv, Merge PROVE IInv'
    OBVIOUS
  <1>1. /\ i' = i /\ pts' = pts /\ addr' = addr /\ need' = need /\ kind' = kind
        /\ results' = results /\ pc' = pc /\ pc = "scan" /\ end' = j /\ j' = j + 1
    BY DEF Merge, input
  <1>2. \A k : A(k)' = A(k) /\ N(k)' = N(k) /\ Offset(k)' = Offset(k)
    BY <1>1 DEF A, N, Offset
  <1>3. TypeOK' /\ OrderInv' /\ LoopInv'
    <2>1. TypeOK'
      BY <1>1, MergeFacts DEF IInv, TypeOK
    <2>2. OrderInv'
      BY <1>1, <1>2 DEF IInv, OrderInv
    <2>3. LoopInv'
      BY <1>1, MergeFacts DEF IInv, TypeOK, LoopInv
    <2> QED
      BY <2>1, <2>2, <2>3
  <1>4. QuantityLegal'
    BY <1>1, MergeFacts DEF QuantityLegal, Limit
  <1>5. \A k \in i'..end' : k = j \/ k \in i..end
    BY <1>1, MergeFacts
  <1>6. \A k \in i..end : k \in i'..end' /\ k \in 1..Len(pts)
    BY <1>1, MergeFacts
  <1>7. Quantity \in Nat /\ Quantity' \in Nat /\ j \in i'..end'
    BY <1>1, MergeFacts DEF IInv, QuantityLegal, Limit
  <1>8. Covers'
    <2> SUFFICES ASSUME NEW k \in i'..end', A(k) + N(k) <= U16
                 PROVE  Offset(k) + N(k) <= Quantity'
      BY <1>1, <1>2 DEF Covers
    <2>1. CASE k = j
      BY <2>1, MergeFacts
    <2>2. CASE k \in i..end
      <3>1. Offset(k) + N(k) <= Quantity
        BY <1>1, <2>2 DEF IInv, Covers
      <3>2. Offset(k) \in Int /\ N(k) \in Int
        <4>1. A(i) \in Addr /\ A(k) \in Addr /\ N(k) \in 1..MaxRegs
          BY <1>6, <2>2, PointFacts, MergeFacts DEF IInv
        <4>2. Offset(k) \in Addr
          BY <4>1, WrapType DEF Offset
        <4> QED
          BY <4>1, <4>2 DEF Addr
      <3> QED
        BY <1>7, <3>1, <3>2, MergeFacts
    <2> QED
      BY <1>5, <2>1, <2>2
  <1>9. NoStrayRegister'
    <2> SUFFICES ASSUME NEW r \in 0..(Quantity' - 1)
                 PROVE  \E k \in i'..end' : Offset(k) <= r /\ r < Offset(k) + N(k)
      BY <1>1, <1>2 DEF NoStrayRegister
    <2>1. CASE r \in 0..(Quantity - 1)
      <3>1. PICK k \in i..end : Offset(k) <= r /\ r < Offset(k) + N(k)
        BY <1>1, <2>1 DEF IInv, NoStrayRegister
      <3> QED
        BY <1>6, <3>1
    <2>2. CASE r \notin 0..(Quantity - 1)
      <3>1. Quantity' = Offset(j) + N(j) /\ Quantity <= r
        BY <1>7, <2>2, Beyond, MergeFacts
      <3> QED
        BY <1>7, <3>1, MergeFacts
    <2> QED
      BY <2>1, <2>2
  <1> QED
    BY <1>1, <1>3, <1>4, <1>8, <1>9 DEF IInv, EveryPointOnce

\* A member of a sequence, and a sequence given by its members.
LEMMA SeqAt ==
  ASSUME NEW S, NEW s \in Seq(S), NEW k \in 1..Len(s)
  PROVE  s[k] \in S
  OBVIOUS

\* A function over 1..m is a sequence of length m.
LEMMA SeqOf ==
  ASSUME NEW S, NEW m \in Nat, NEW s \in [1..m -> S]
  PROVE  s \in Seq(S) /\ Len(s) = m
  OBVIOUS

\* Appending m members to a sequence.
LEMMA CatAt ==
  ASSUME NEW S, NEW s \in Seq(S), NEW t \in Seq(S)
  PROVE  /\ s \o t \in Seq(S) /\ Len(s \o t) = Len(s) + Len(t)
         /\ \A k \in 1..Len(s) : (s \o t)[k] = s[k]
         /\ \A k \in 1..Len(t) : (s \o t)[Len(s) + k] = t[k]
  OBVIOUS

\* The points cut out of a reply of any length are the points of the batch.
LEMMA CutFacts ==
  ASSUME IInv, Request, NEW n \in Int
  PROVE  /\ results \o Cut(n) \in Seq([pt : Points, good : BOOLEAN])
         /\ Len(results \o Cut(n)) = end
         /\ \A k \in 1..end : (results \o Cut(n))[k].pt = pts[k]
  <1> DEFINE R == [pt : Points, good : BOOLEAN]
             m == end - i + 1
             g(k) == Offset(i + k - 1) + N(i + k - 1) <= n
             c == Cut(n)
  <1>1. /\ i \in 1..Len(pts) /\ end \in i..Len(pts) /\ Len(results) = i - 1
        /\ \A k \in 1..Len(results) : results[k].pt = pts[k]
    BY DEF IInv, LoopInv, Request
  <1>2. results \in Seq(R) /\ pts \in Seq(Points)
    BY DEF IInv, TypeOK
  <1>3. i \in Nat /\ end \in Nat /\ m \in Nat /\ end <= Len(pts) /\ Len(pts) \in Nat
    BY <1>1, <1>2
  <1>4. \A k \in 1..m : pts[i + k - 1] \in Points
    <2>1. \A k \in 1..m : i + k - 1 \in 1..Len(pts)
      BY <1>1, <1>3
    <2> QED
      BY <1>2, <2>1, SeqAt
  <1>5. \A k : g(k) \in BOOLEAN
    OBVIOUS
  <1>6. c = [k \in 1..m |-> [pt |-> pts[i + k - 1], good |-> g(k)]]
    BY DEF Cut
  <1> HIDE DEF c, g, m
  <1>7. c \in [1..m -> R] /\ \A k \in 1..m : c[k].pt = pts[i + k - 1]
    BY <1>4, <1>5, <1>6
  <1> HIDE DEF R
  <1>8. c \in Seq(R) /\ Len(c) = m
    BY <1>3, <1>7, SeqOf
  <1>9. /\ results \o c \in Seq(R) /\ Len(results \o c) = Len(results) + m
        /\ \A k \in 1..Len(results) : (results \o c)[k] = results[k]
        /\ \A k \in 1..m : (results \o c)[Len(results) + k] = c[k]
    BY <1>2, <1>8, CatAt
  <1>10. Len(results \o c) = end
    BY <1>1, <1>3, <1>9 DEF m
  <1>11. \A k \in 1..end : (results \o c)[k].pt = pts[k]
    <2> SUFFICES ASSUME NEW k \in 1..end PROVE (results \o c)[k].pt = pts[k]
      OBVIOUS
    <2>1. CASE k \in 1..Len(results)
      BY <1>1, <1>9, <2>1
    <2>2. CASE k \notin 1..Len(results)
      <3>1. k - Len(results) \in 1..m /\ Len(results) + (k - Len(results)) = k
            /\ i + (k - Len(results)) - 1 = k
        BY <1>1, <1>3, <2>2 DEF m
      <3> QED
        BY <1>7, <1>9, <3>1
    <2> QED
      BY <2>1, <2>2
  <1> QED
    BY <1>9, <1>10, <1>11 DEF c, R

\* A batch is answered, in full or short.
LEMMA AnswerInv ==
  ASSUME IInv, Request, NEW n \in Int, results' = results \o Cut(n), NextBatch
  PROVE  IInv'
  <1>1. /\ i \in 1..Len(pts) /\ end \in i..Len(pts) /\ pts \in Seq(Points) /\ pc = "scan"
    BY DEF IInv, TypeOK, LoopInv, Request
  <1>2. /\ pts' = pts /\ addr' = addr /\ need' = need /\ kind' = kind /\ i' = end + 1
        /\ j' = j /\ end' = end /\ maxAddr' = maxAddr
        /\ pc' = IF end < Len(pts) THEN "open" ELSE "done"
    BY DEF NextBatch, input
  <1>3. /\ results' \in Seq([pt : Points, good : BOOLEAN]) /\ Len(results') = end
        /\ \A k \in 1..end : results'[k].pt = pts[k]
    BY CutFacts
  <1>4. TypeOK'
    BY <1>2, <1>3 DEF IInv, TypeOK
  <1>5. OrderInv'
    BY <1>2 DEF IInv, OrderInv, A
  <1>6. LoopInv' /\ EveryPointOnce'
    BY <1>1, <1>2, <1>3 DEF LoopInv, EveryPointOnce
  <1>7. QuantityLegal' /\ Covers' /\ NoStrayRegister'
    BY <1>2 DEF QuantityLegal, Covers, NoStrayRegister
  <1> QED
    BY <1>4, <1>5, <1>6, <1>7 DEF IInv

\* The call ends early, or nothing changes.
LEMMA EndInv ==
  ASSUME IInv, UNCHANGED <<input, scan, pts>>,
         \/ pc' \in {"panic", "failed"} /\ results' \in {results, <<>>}
         \/ pc' = pc /\ results' = results
  PROVE  IInv'
  <1> USE DEF input, scan
  <1>1. TypeOK'
    <2>1. results' \in Seq([pt : Points, good : BOOLEAN])
      <3> DEFINE R == [pt : Points, good : BOOLEAN]
      <3>1. results \in Seq(R)
        BY DEF IInv, TypeOK
      <3> HIDE DEF R
      <3>2. results' \in Seq(R)
        <4>1. CASE results' = results
          BY <3>1, <4>1
        <4>2. CASE results' = <<>>
          BY <4>2
        <4> QED
          BY <4>1, <4>2
      <3> QED
        BY <3>2 DEF R
    <2>2. pc' \in {"sort", "open", "scan", "done", "failed", "panic"}
      BY DEF IInv, TypeOK
    <2> QED
      BY <2>1, <2>2 DEF IInv, TypeOK
  <1>2. OrderInv' /\ LoopInv'
    BY DEF IInv, OrderInv, LoopInv, A
  <1>3. QuantityLegal' /\ EveryPointOnce'
    BY DEF IInv, QuantityLegal, EveryPointOnce, Quantity, Limit, A
  <1>4. Covers' /\ NoStrayRegister'
    BY DEF IInv, Covers, NoStrayRegister, Quantity, Offset, A, N
  <1> QED
    BY <1>1, <1>2, <1>3, <1>4 DEF IInv

\* IInv is an invariant of every call of ReadBatch.
THEOREM Inductive == Spec => []IInv
  <1>1. IInv /\ [Next]_vars => IInv'
    <2> SUFFICES ASSUME IInv, [Next]_vars PROVE IInv'
      OBVIOUS
    <2>1. CASE Sort \/ Open \/ Merge
      BY <2>1, SortInv, OpenInv, MergeInv
    <2>2. Request => Quantity \in Int
      BY DEF IInv, QuantityLegal, Request
    <2>3. CASE Reply
      BY <2>2, <2>3, AnswerInv DEF Reply
    <2>4. CASE ShortRegs
      <3>1. PICK n \in 0..(Quantity - 1) : results' = results \o Cut(n)
        BY <2>4 DEF ShortRegs
      <3> QED
        BY <2>4, <3>1, AnswerInv DEF ShortRegs
    <2>5. CASE ShortBits
      BY <2>5, EndInv DEF ShortBits
    <2>6. CASE Fail
      BY <2>6, EndInv DEF Fail
    <2>7. CASE UNCHANGED vars
      BY <2>7, EndInv DEF vars
    <2> QED
      BY <2>1, <2>3, <2>4, <2>5, <2>6, <2>7 DEF Next
  <1> QED
    BY <1>1, InitIInv, PTL DEF Spec

\* No request exceeds the protocol's limit or asks for nothing, for any
\* addresses and formats, also at the end of the uint16 address space.
THEOREM QuantitySafe == Spec => []QuantityLegal
  <1>1. IInv => QuantityLegal
    BY DEF IInv
  <1> QED
    BY <1>1, Inductive, PTL

\* A request covers all of its points.
THEOREM CoversSafe == Spec => []Covers
  <1>1. IInv => Covers
    BY DEF IInv
  <1> QED
    BY <1>1, Inductive, PTL

\* A request touches only registers of its points.
THEOREM NoStraySafe == Spec => []NoStrayRegister
  <1>1. IInv => NoStrayRegister
    BY DEF IInv
  <1> QED
    BY <1>1, Inductive, PTL

\* A call that succeeds returns every point exactly once.
THEOREM EveryPointSafe == Spec => []EveryPointOnce
  <1>1. IInv => EveryPointOnce
    BY DEF IInv
  <1> QED
    BY <1>1, Inductive, PTL
=============================================================================
