----------------------------- MODULE ModbusBatch -----------------------------
(***************************************************************************)
(* One call of ReadBatch of protocols/modbus/modbus_tcp.go: how points are *)
(* sorted, merged into requests and cut out of the replies.                *)
(*                                                                         *)
(* ReadBatchWithFormat and readInputRegistersBatch ("regs") run one        *)
(* algorithm, readCoilsBatch and readDiscreteInputsBatch ("bits") another; *)
(* both are the greedy scan below with a different merge condition.        *)
(* Addresses are uint16 and wrap at U16.                                   *)
(***************************************************************************)
EXTENDS Integers, Sequences, FiniteSets

CONSTANTS
  Points,    \* the points of the call
  Needs,     \* register counts of the formats: 1, 2, 4
  U16,       \* 65536
  MaxRegs,   \* 125
  MaxBits,   \* 2000
  ByteBits   \* 8: bits of a reply byte

ASSUME BatchAssumption ==
  /\ Points # {}
  /\ U16 \in Nat /\ MaxRegs \in Nat \ {0} /\ MaxBits \in Nat \ {0} /\ ByteBits \in Nat \ {0}
  /\ Needs \subseteq 1..MaxRegs
  /\ 2 * MaxRegs < U16 /\ MaxBits < U16

Addr == 0..(U16 - 1)

\* uint16 addition and subtraction.
Add(a, b) == IF a + b >= U16 THEN a + b - U16 ELSE a + b
Sub(a, b) == IF a < b THEN a - b + U16 ELSE a - b

VARIABLES
  kind,      \* "regs" or "bits", the function code's algorithm
  addr,      \* [Points -> Addr], what parseAddress gave
  need,      \* [Points -> Nat], getRegCount of the format; 1 for bits
  pts,       \* addrPoints, sorted
  i, j, end, \* loop variables: first point of the batch, scanned point, last
  maxAddr,
  pc,        \* "sort", "open", "scan", "done", "failed", "panic"
  results    \* sequence of [pt, good]

input == <<kind, addr, need>>
scan  == <<i, j, end, maxAddr>>
vars  == <<input, scan, pts, pc, results>>

Init ==
  /\ kind \in {"regs", "bits"}
  /\ addr \in [Points -> Addr]
  /\ need \in [Points -> IF kind = "regs" THEN Needs ELSE {1}]
  /\ pts = <<>> /\ results = <<>>
  /\ i = 1 /\ j = 1 /\ end = 1 /\ maxAddr = 0
  /\ pc = "sort"

\* An order sort.Slice may leave the points in.
Sorted(s) ==
  /\ \A p \in Points : \E k \in 1..Len(s) : s[k] = p
  /\ \A k, l \in 1..Len(s) : s[k] = s[l] => k = l
  /\ \A k, l \in 1..Len(s) : k < l => addr[s[k]] <= addr[s[l]]

Sort ==
  /\ pc = "sort"
  /\ \E n \in 1..Cardinality(Points) : \E s \in [1..n -> Points] : Sorted(s) /\ pts' = s
  /\ pc' = "open"
  /\ UNCHANGED <<input, scan, results>>

A(k) == addr[pts[k]]
N(k) == need[pts[k]]

\* The highest register of point k.
Last(k) == Sub(Add(A(k), N(k)), 1)

\* A new batch starts at point i.
Open ==
  /\ pc = "open"
  /\ end' = i /\ j' = i + 1
  /\ maxAddr' = Last(i)
  /\ pc' = "scan"
  /\ UNCHANGED <<input, i, pts, results>>

\* Mutant of Joins: the registers of the point itself are not counted.
JoinsByStart ==
  IF kind = "regs"
  THEN A(j) <= Add(maxAddr, 1) /\ Sub(A(j), A(i)) < MaxRegs
  ELSE A(j) = Add(maxAddr, 1) /\ Sub(A(j), A(i)) < MaxBits

\* Mutant of Joins: a gap of one register is bridged.
JoinsOverGap ==
  IF kind = "regs"
  THEN A(j) <= Add(maxAddr, 2) /\ Sub(Add(A(j), N(j)), A(i)) < MaxRegs
  ELSE A(j) = Add(maxAddr, 1) /\ Sub(A(j), A(i)) < MaxBits

\* Does point j join the batch?
Joins ==
  IF kind = "regs"
  THEN A(j) <= Add(maxAddr, 1) /\ Sub(Add(A(j), N(j)), A(i)) < MaxRegs
  ELSE A(j) = Add(maxAddr, 1) /\ Sub(A(j), A(i)) < MaxBits

\* Mutant of Merge: maxAddr follows the last point, also downwards.
MergeTakesLast ==
  /\ pc = "scan" /\ j <= Len(pts) /\ Joins
  /\ maxAddr' = Last(j)
  /\ end' = j /\ j' = j + 1
  /\ UNCHANGED <<input, i, pts, pc, results>>

\* Point j joins and the request grows to its end.
Merge ==
  /\ pc = "scan" /\ j <= Len(pts) /\ Joins
  /\ maxAddr' = IF kind = "bits" \/ Last(j) > maxAddr THEN Last(j) ELSE maxAddr
  /\ end' = j /\ j' = j + 1
  /\ UNCHANGED <<input, i, pts, pc, results>>

\* The scan is over and the request goes out: A(i), Quantity.
Request == pc = "scan" /\ (j <= Len(pts) => ~Joins)
Quantity == Add(Sub(maxAddr, A(i)), 1)
Offset(k) == Sub(A(k), A(i))

\* The reply holds n registers or bits; what is beyond it is "bad".
Cut(n) == [k \in 1..(end - i + 1) |->
             [pt |-> pts[i + k - 1], good |-> Offset(i + k - 1) + N(i + k - 1) <= n]]

\* Mutant of NextBatch: the next batch starts one point later.
NextBatchOverlaps ==
  /\ i' = i + 1
  /\ pc' = IF end < Len(pts) THEN "open" ELSE "done"
  /\ UNCHANGED <<input, j, end, maxAddr, pts>>

\* The next batch starts after the last point of this one.
NextBatch ==
  /\ i' = end + 1
  /\ pc' = IF end < Len(pts) THEN "open" ELSE "done"
  /\ UNCHANGED <<input, j, end, maxAddr, pts>>

\* The device answers what was asked.
Reply ==
  /\ Request
  /\ results' = results \o Cut(Quantity)
  /\ NextBatch

\* A reply with fewer registers than asked passes the library's checks and
\* gives "bad" points ...
ShortRegs ==
  /\ Request /\ kind = "regs"
  /\ \E n \in 0..(Quantity - 1) : results' = results \o Cut(n)
  /\ NextBatch

\* ... while the bit loops index a short reply beyond its last byte: the
\* highest point's bit is in the byte that is missing.
ShortBits ==
  /\ Request /\ kind = "bits"
  /\ \E bytes \in 0..((Quantity - 1) \div ByteBits) :
       \E k \in i..end : Offset(k) \div ByteBits >= bytes
  /\ pc' = "panic"
  /\ UNCHANGED <<input, scan, pts, results>>

\* The request fails: everything read so far is dropped.
Fail ==
  /\ Request
  /\ results' = <<>>
  /\ pc' = "failed"
  /\ UNCHANGED <<input, scan, pts>>

Next == Sort \/ Open \/ Merge \/ Reply \/ ShortRegs \/ ShortBits \/ Fail

Spec == Init /\ [][Next]_vars

(***************************************************************************)
(* Properties                                                              *)
(***************************************************************************)

Limit == IF kind = "regs" THEN MaxRegs ELSE MaxBits

\* Every request asks for at least one and at most the protocol's number of
\* registers or bits, also where addresses wrap.
QuantityLegal == pc = "scan" => Quantity \in 1..Limit

\* A request covers each of its points, except a point that runs over the end
\* of the address space.
Covers ==
  pc = "scan" => \A k \in i..end : A(k) + N(k) <= U16 => Offset(k) + N(k) <= Quantity

\* A request asks for no register that none of its points needs: a device
\* rejects a request that touches a register it does not have.
NoStrayRegister ==
  pc = "scan" =>
    \A r \in 0..(Quantity - 1) : \E k \in i..end :
      Offset(k) <= r /\ r < Offset(k) + N(k)

\* A call that succeeds returns every point exactly once, in address order.
EveryPointOnce ==
  pc = "done" => Len(results) = Len(pts) /\ \A k \in 1..Len(pts) : results[k].pt = pts[k]

\* The inductive invariant: types, the order of the points, where the loops
\* are, and the results of the batches before the one being scanned.
TypeOK ==
  /\ kind \in {"regs", "bits"}
  /\ addr \in [Points -> Addr]
  /\ need \in [Points -> 1..MaxRegs]
  /\ kind = "bits" => \A p \in Points : need[p] = 1
  /\ pts \in Seq(Points) /\ results \in Seq([pt : Points, good : BOOLEAN])
  /\ maxAddr \in Addr /\ i \in Nat /\ j \in Nat /\ end \in Nat
  /\ pc \in {"sort", "open", "scan", "done", "failed", "panic"}

OrderInv == \A k, l \in 1..Len(pts) : k < l => A(k) <= A(l)

LoopInv ==
  /\ pc = "sort" => i = 1 /\ results = <<>>
  /\ pc \in {"open", "scan"} => i \in 1..Len(pts) /\ Len(results) = i - 1
  /\ pc = "scan" => j = end + 1 /\ end \in i..Len(pts)
  /\ pc = "done" => Len(results) = Len(pts)
  /\ pc \in {"open", "scan", "done"} =>
       \A k \in 1..Len(results) : results[k].pt = pts[k]

IInv ==
  /\ TypeOK /\ OrderInv /\ LoopInv
  /\ QuantityLegal /\ Covers /\ NoStrayRegister /\ EveryPointOnce
=============================================================================
