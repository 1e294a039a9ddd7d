--------------------------- MODULE EdgeRulesProofs ---------------------------
(***************************************************************************)
(* The windows of EdgeRules, for any devices, groups, rules, windows and   *)
(* reloads, and any interleaving of the goroutines.  IInv is the inductive *)
(* invariant; AggRule, one rule applied to one value, is the only step     *)
(* that changes a window.                                                  *)
(***************************************************************************)
EXTENDS EdgeRules, Integers, TLAPS

(***************************************************************************)
(* Facts about the operators                                               *)
(***************************************************************************)

\* The places of a suffix of length b in a sequence of length a.
LEMMA SuffixPlaces ==
  ASSUME NEW a \in Nat, NEW b \in Nat, b <= a, NEW n \in 1..b
  PROVE  /\ a - b + n \in 1..a /\ n \in Nat
         /\ n # b => n \in 1..(b - 1) /\ a - b + n \in 1..(a - 1)
         /\ n = b => a - b + n = a
  OBVIOUS

\* The same place counted from three starts.
LEMMA SamePlace ==
  ASSUME NEW s \in Int, NEW t \in Int, NEW w \in Int, NEW x \in Int, NEW n \in Int
  PROVE  /\ s + 1 - t + (t - x + n) = s + 1 - x + n
         /\ s - w + (w + 1 - x + n) = s + 1 - x + n
  OBVIOUS

\* Lengths of a window and of a history that one sample is added to.
LEMMA AddLengths ==
  ASSUME NEW w \in Nat, NEW s \in Nat, NEW size \in Nat, NEW max \in Nat,
         size <= max, s <= max, w = IF s < size THEN s ELSE size,
         NEW x, x = IF w < size THEN w + 1 ELSE size,
         NEW t, t = IF s < max THEN s + 1 ELSE max
  PROVE  /\ x \in Nat /\ t \in Nat /\ t <= max
         /\ x = IF t < size THEN t ELSE size
         /\ x <= t /\ x <= w + 1 /\ t <= s + 1 /\ w <= s
  OBVIOUS

\* Head and Tail of a sequence that is not empty.
LEMMA HeadTail ==
  ASSUME NEW S, NEW q \in Seq(S), q # <<>>
  PROVE  /\ Head(q) \in S /\ Tail(q) \in Seq(S)
         /\ Len(q) # 1 => Tail(q) # <<>>
  <1>1. Head(q) \in S /\ Tail(q) \in Seq(S)
    OBVIOUS
  <1>2. Len(Tail(q)) = Len(q) - 1
    OBVIOUS
  <1>3. Len(<<>>) = 0 /\ Len(q) \in Nat
    OBVIOUS
  <1> QED
    BY <1>1, <1>2, <1>3

\* t is s with v added at its end, and without its first sample if it had n.
Added(s, v, n, t) ==
  /\ t \in Seq(Sample)
  /\ Len(t) = IF Len(s) < n THEN Len(s) + 1 ELSE n
  /\ \A i \in 1..Len(t) : t[i] = Append(s, v)[Len(s) + 1 - Len(t) + i]

\* The window w, of this size, is the end of the history s.
Suffixed(w, size, s) ==
  /\ w \in Seq(Sample) /\ s \in Seq(Sample) /\ size \in 0..MaxWindow /\ Len(s) <= MaxWindow
  /\ Len(w) = IF Len(s) < size THEN Len(s) ELSE size
  /\ \A n \in 1..Len(w) : w[n] = s[Len(s) - Len(w) + n]

\* A sequence with a sample at its end, whole or without its first one.
LEMMA AddedFacts ==
  ASSUME NEW s \in Seq(Sample), NEW v \in Sample, NEW n \in Nat, Len(s) <= n
  PROVE  /\ Len(s) < n => Added(s, v, n, Append(s, v))
         /\ ~(Len(s) < n) => Added(s, v, n, Tail(Append(s, v)))
  <1> DEFINE a == Append(s, v)
  <1>1. a \in Seq(Sample) /\ Len(a) = Len(s) + 1 /\ Len(s) \in Nat
    OBVIOUS
  <1>2. Len(s) < n => Added(s, v, n, a)
    <2> HIDE DEF a
    <2>1. \A i \in 1..Len(a) : Len(s) + 1 - Len(a) + i = i
      BY <1>1
    <2> QED
      BY <1>1, <2>1 DEF Added, a
  <1>3. ASSUME ~(Len(s) < n) PROVE Added(s, v, n, Tail(a))
    <2>1. a # <<>>
      <3>1. Len(<<>>) = 0
        OBVIOUS
      <3> QED
        BY <1>1, <3>1
    <2>2. /\ Tail(a) \in Seq(Sample) /\ Len(Tail(a)) = Len(s)
          /\ \A i \in 1..Len(s) : Tail(a)[i] = a[1 + i]
      BY <1>1, <2>1
    <2> HIDE DEF a
    <2>3. Len(s) = n
      BY <1>1, <1>3
    <2>4. \A i \in 1..Len(s) : Len(s) + 1 - Len(s) + i = 1 + i
      BY <1>1
    <2> DEFINE t == Tail(a)
    <2>5. Len(t) = Len(s) /\ \A i \in 1..Len(s) : t[i] = a[Len(s) + 1 - Len(s) + i]
      BY <2>2, <2>4
    <2>6. t \in Seq(Sample)
      BY <2>2
    <2> HIDE DEF t
    <2>7. Added(s, v, n, t)
      BY <1>3, <2>3, <2>5, <2>6 DEF Added, a
    <2> QED
      BY <2>7 DEF t
  <1> QED
    BY <1>2, <1>3

\* A window one too long loses its first sample (PointBuffer.Add).
LEMMA TrimAdds ==
  ASSUME NEW s \in Seq(Sample), NEW v \in Sample, NEW n \in Nat, Len(s) <= n
  PROVE  Added(s, v, n, Trim(Append(s, v), n))
  <1>1. Len(Append(s, v)) = Len(s) + 1 /\ Len(s) \in Nat
    OBVIOUS
  <1>2. Trim(Append(s, v), n) = IF Len(s) < n THEN Append(s, v) ELSE Tail(Append(s, v))
    BY <1>1 DEF Trim
  <1> QED
    BY <1>2, AddedFacts

\* So does the history.
LEMMA RecentAdds ==
  ASSUME NEW s \in Seq(Sample), NEW v \in Sample, Len(s) <= MaxWindow
  PROVE  Added(s, v, MaxWindow, Recent(Append(s, v)))
  <1> DEFINE a == Append(s, v)
  <1>1. a \in Seq(Sample) /\ Len(a) = Len(s) + 1 /\ Len(s) \in Nat
    OBVIOUS
  <1>2. MaxWindow \in Nat
    BY RulesAssumption
  <1> HIDE DEF a
  <1>3. CASE Len(s) < MaxWindow
    <2>1. ~(Len(a) > MaxWindow)
      BY <1>1, <1>2, <1>3
    <2>2. Recent(a) = SubSeq(a, 1, Len(a))
      BY <2>1 DEF Recent
    <2>3. SubSeq(a, 1, Len(a)) = a
      BY <1>1
    <2> QED
      BY <1>2, <1>3, <2>2, <2>3, AddedFacts DEF a
  <1>4. CASE ~(Len(s) < MaxWindow)
    <2>1. Len(a) > MaxWindow /\ Len(a) - MaxWindow + 1 = 2
      BY <1>1, <1>2, <1>4
    <2>2. Recent(a) = SubSeq(a, 2, Len(a))
      BY <2>1 DEF Recent
    <2>3. SubSeq(a, 2, Len(a)) = Tail(a)
      <3>1. a # <<>>
        <4>1. Len(<<>>) = 0
          OBVIOUS
        <4> QED
          BY <1>1, <4>1
      <3> QED
        BY <1>1, <3>1
    <2> QED
      BY <1>2, <1>4, <2>2, <2>3, AddedFacts DEF a
  <1> QED
    BY <1>3, <1>4 DEF a

\* A sample added to the window and to the history keeps the one the end of the
\* other.
LEMMA AddKeepsSuffix ==
  ASSUME NEW w, NEW size, NEW s, NEW v, NEW x, NEW t,
         Suffixed(w, size, s), Added(w, v, size, x), Added(s, v, MaxWindow, t)
  PROVE  Suffixed(x, size, t)
  <1>1. /\ MaxWindow \in Nat /\ size \in Nat /\ size <= MaxWindow
        /\ Len(w) \in Nat /\ Len(s) \in Nat /\ Len(s) <= MaxWindow
        /\ w \in Seq(Sample) /\ s \in Seq(Sample) /\ size \in 0..MaxWindow
    BY RulesAssumption DEF Suffixed
  <1>2. Len(w) = IF Len(s) < size THEN Len(s) ELSE size
    BY DEF Suffixed
  <1>3. Len(x) = IF Len(w) < size THEN Len(w) + 1 ELSE size
    BY DEF Added
  <1>4. Len(t) = IF Len(s) < MaxWindow THEN Len(s) + 1 ELSE MaxWindow
    BY DEF Added
  <1>5. /\ Len(x) \in Nat /\ Len(t) \in Nat /\ Len(t) <= MaxWindow
        /\ Len(x) = IF Len(t) < size THEN Len(t) ELSE size
        /\ Len(x) <= Len(t) /\ Len(x) <= Len(w) + 1 /\ Len(t) <= Len(s) + 1
        /\ Len(w) <= Len(s)
    BY <1>1, <1>2, <1>3, <1>4, AddLengths
  <1>6. /\ \A i \in 1..Len(w) : Append(w, v)[i] = w[i]
        /\ Append(w, v)[Len(w) + 1] = v
    BY <1>1
  <1>7. /\ \A i \in 1..Len(s) : Append(s, v)[i] = s[i]
        /\ Append(s, v)[Len(s) + 1] = v
    BY <1>1
  <1>8. ASSUME NEW n \in 1..Len(x) PROVE x[n] = t[Len(t) - Len(x) + n]
    <2> DEFINE p == Len(w) + 1 - Len(x) + n
               q == Len(t) - Len(x) + n
               r == Len(s) + 1 - Len(x) + n
    <2>1. x[n] = Append(w, v)[p]
      BY DEF Added
    <2>2. q \in 1..Len(t)
      BY <1>5, SuffixPlaces
    <2>3. n \in Int /\ Len(x) \in Int /\ Len(t) \in Int /\ Len(s) \in Int /\ Len(w) \in Int
      BY <1>1, <1>5
    <2>4. Len(s) + 1 - Len(t) + q = r /\ Len(s) - Len(w) + p = r
      BY <2>3, SamePlace
    <2>5. t[q] = Append(s, v)[r]
      BY <2>2, <2>4 DEF Added
    <2>6. CASE n = Len(x)
      <3>1. p = Len(w) + 1 /\ r = Len(s) + 1
        BY <2>3, <2>6
      <3> QED
        BY <1>6, <1>7, <2>1, <2>5, <3>1
    <2>7. CASE n # Len(x)
      <3>1. p \in 1..Len(w)
        BY <1>1, <1>5, <2>7
      <3>2. r \in 1..Len(s)
        BY <1>1, <1>5, <2>7
      <3> HIDE DEF p, q, r
      <3>3. Append(w, v)[p] = w[p] /\ Append(s, v)[r] = s[r]
        BY <1>6, <1>7, <3>1, <3>2
      <3>4. w[p] = s[r]
        BY <2>4, <3>1 DEF Suffixed
      <3> QED
        BY <2>1, <2>5, <3>3, <3>4 DEF q
    <2> QED
      BY <2>6, <2>7
  <1>9. x \in Seq(Sample) /\ t \in Seq(Sample)
    BY DEF Added
  <1> QED
    BY <1>1, <1>5, <1>8, <1>9 DEF Suffixed

(***************************************************************************)
(* The steps                                                               *)
(***************************************************************************)

\* The rules a goroutine takes are windows within the bound.
LEMMA RulesFacts ==
  ASSUME TypeOK, NEW d \in Devices
  PROVE  Rules(d) \in Seq(0..MaxWindow)
  <1>1. <<>> \in Seq(0..MaxWindow)
    OBVIOUS
  <1>2. aggRules # Nil => aggRules \in Versions \cup {First}
    BY DEF TypeOK
  <1> QED
    BY <1>1, <1>2, RulesAssumption DEF Rules

\* A device's key is one of the keys of the configurations.
LEMMA KeyFacts ==
  ASSUME TypeOK, NEW d \in Devices
  PROVE  Key(d) \in Keys
  BY DEF TypeOK, Key, Keys

LEMMA InitInv ==
  ASSUME Init
  PROVE  IInv
  <1>1. <<>> \in Seq(Sample) /\ <<>> \in Seq(0..MaxWindow)
    OBVIOUS
  <1>2. TypeOK
    BY <1>1 DEF Init, TypeOK
  <1>3. /\ \A k \in Keys : buffers[k] = Nil
        /\ \A d \in Devices : fed[d] = <<>> /\ pc[d] = "read"
    BY DEF Init
  <1>4. WindowOK(Nil, <<>>)
    BY DEF WindowOK
  <1>5. WindowInv
    <2>1. buffers = [k \in Keys |-> buffers[k]]
      BY DEF Init
    <2>2. Len(<<>>) = 0 /\ MaxWindow \in Nat
      BY RulesAssumption
    <2>3. \A d \in Devices : Key(d) \in Keys
      BY <1>2, KeyFacts
    <2> QED
      BY <1>3, <1>4, <2>1, <2>2, <2>3 DEF WindowInv
  <1>6. LoopInv
    BY <1>3 DEF LoopInv
  <1> QED
    BY <1>2, <1>5, <1>6 DEF IInv

\* What Add leaves of a device's own window: the buffer is made if it is missing, and
\* the value added to the window and to the history.
LEMMA WindowAdds ==
  ASSUME IInv, NEW d \in Devices, pc[d] = "rule", Sole(d)
  PROVE  /\ WindowOK(BufferAdd(Found(d), val[d]), Recent(Append(fed[d], val[d])))
         /\ Recent(Append(fed[d], val[d])) \in Seq(Sample)
         /\ Len(Recent(Append(fed[d], val[d]))) <= MaxWindow
  <1> DEFINE b == Found(d)
             v == val[d]
             s == fed[d]
  <1>2. /\ todo[d] \in Seq(0..MaxWindow) /\ todo[d] # <<>>
        /\ v \in Sample /\ s \in Seq(Sample)
    BY DEF IInv, TypeOK, LoopInv
  <1>3. WindowOK(buffers[Key(d)], s)
    BY DEF IInv, WindowInv
  <1>4. /\ b \in [size : 0..MaxWindow, values : Seq(Sample)]
        /\ Len(b.values) = IF Len(s) < b.size THEN Len(s) ELSE b.size
        /\ \A n \in 1..Len(b.values) : b.values[n] = s[Len(s) - Len(b.values) + n]
    <2>1. CASE buffers[Key(d)] = Nil
      <3>1. s = <<>> /\ b = [size |-> Head(todo[d]), values |-> <<>>]
        BY <1>3, <2>1 DEF WindowOK, Found
      <3>2. Head(todo[d]) \in 0..MaxWindow /\ <<>> \in Seq(Sample)
        <4>1. <<>> \in Seq(Sample)
          OBVIOUS
        <4> QED
          BY <1>2, <4>1, HeadTail
      <3> HIDE DEF b, s
      <3>3. b.values = <<>> /\ b.size = Head(todo[d])
            /\ b \in [size : 0..MaxWindow, values : Seq(Sample)]
        BY <3>1, <3>2
      <3>4. Len(<<>>) = 0 /\ Head(todo[d]) \in Nat
        BY <3>2, RulesAssumption
      <3> QED
        BY <3>1, <3>3, <3>4
    <2>2. CASE buffers[Key(d)] # Nil
      <3>1. b = buffers[Key(d)]
        BY <2>2 DEF Found
      <3> HIDE DEF b
      <3> QED
        BY <1>3, <2>2, <3>1 DEF WindowOK
    <2> QED
      BY <2>1, <2>2
  <1>5. Len(s) <= MaxWindow
    BY DEF IInv, WindowInv
  <1>6. Nil \notin [size : Nat, values : Seq(Sample)]
    BY RulesAssumption DEF Sample
  <1> DEFINE x == Trim(Append(b.values, v), b.size)
             t == Recent(Append(s, v))
  <1>7. BufferAdd(b, v) = [size |-> b.size, values |-> x]
    <2> HIDE DEF b, v
    <2> QED
      BY <1>4 DEF BufferAdd
  <1> HIDE DEF b, v, s
  <1>8. b.size \in 0..MaxWindow /\ b.values \in Seq(Sample) /\ b.size \in Nat
    BY <1>4, RulesAssumption
  <1>9. /\ x \in Seq(Sample) /\ t \in Seq(Sample)
        /\ Len(t) <= MaxWindow
        /\ Len(x) = IF Len(t) < b.size THEN Len(t) ELSE b.size
        /\ \A n \in 1..Len(x) : x[n] = t[Len(t) - Len(x) + n]
    <2>1. Suffixed(b.values, b.size, s) /\ MaxWindow \in Nat /\ Len(b.values) <= b.size
      BY <1>2, <1>4, <1>5, <1>8, RulesAssumption DEF Suffixed
    <2>2. Added(b.values, v, b.size, x)
      BY <1>2, <1>8, <2>1, TrimAdds
    <2>3. Added(s, v, MaxWindow, t)
      BY <1>2, <1>5, RecentAdds
    <2> HIDE DEF x, t
    <2>4. Suffixed(x, b.size, t)
      BY <2>1, <2>2, <2>3, AddKeepsSuffix
    <2> QED
      BY <2>4 DEF Suffixed
  <1> HIDE DEF x, t
  <1> DEFINE c == [size |-> b.size, values |-> x]
  <1>10. /\ c \in [size : 0..MaxWindow, values : Seq(Sample)]
         /\ c \in [size : Nat, values : Seq(Sample)]
         /\ c.size = b.size /\ c.values = x
    BY <1>8, <1>9
  <1> HIDE DEF c
  <1>11. c # Nil
    BY <1>6, <1>10
  <1>12. WindowOK(c, t)
    BY <1>9, <1>10, <1>11 DEF WindowOK
  <1> QED
    BY <1>7, <1>9, <1>12 DEF c, b, v, s, t

\* A device's own buffer has no race, so there is one outcome of its Add.
LEMMA SoleAdds ==
  ASSUME NEW d \in Devices, Sole(d), NEW b
  PROVE  Adds(d, b) = {BufferAdd(b, val[d])}
  BY DEF Adds, Racing, Sole

\* One aggregate rule changes the window of its own key, and the history with it
\* when no other device has the key.
LEMMA AggRuleInv ==
  ASSUME IInv, NEW d \in Devices, AggRule(d)
  PROVE  IInv'
  <1> DEFINE t == Recent(Append(fed[d], val[d]))
  <1>1. /\ pc[d] = "rule"
        /\ fed' = [fed EXCEPT ![d] = IF Sole(d) THEN t ELSE fed[d]]
        /\ todo' = [todo EXCEPT ![d] = Tail(todo[d])]
        /\ pc' = [pc EXCEPT ![d] = IF Len(todo[d]) = 1 THEN "alarm" ELSE "rule"]
        /\ UNCHANGED <<aggRules, cycle, val, naming>>
    BY DEF AggRule
  <1>2. PICK b \in Adds(d, Found(d)) : buffers' = [buffers EXCEPT ![Key(d)] = b]
    BY DEF AggRule
  <1>3. todo[d] \in Seq(0..MaxWindow) /\ todo[d] # <<>>
    BY <1>1 DEF IInv, TypeOK, LoopInv
  <1>4. /\ DOMAIN buffers = Keys /\ fed \in [Devices -> Seq(Sample)]
        /\ todo \in [Devices -> Seq(0..MaxWindow)]
        /\ \A e \in Devices : Key(e) \in Keys
    BY KeyFacts DEF IInv, TypeOK, WindowInv
  <1>5. \A e \in Devices : Key(e)' = Key(e)
    BY <1>1 DEF Key
  <1>6. \A e \in Devices : Sole(e)' <=> Sole(e)
    BY <1>5 DEF Sole
  <1>7. Sole(d) => WindowOK(b, t) /\ t \in Seq(Sample) /\ Len(t) <= MaxWindow
    BY <1>1, <1>2, WindowAdds, SoleAdds
  <1> HIDE DEF t
  <1>8. \A e \in Devices : fed'[e] = IF e = d /\ Sole(d) THEN t ELSE fed[e]
    BY <1>1, <1>4
  <1>9. fed' \in [Devices -> Seq(Sample)] /\ \A e \in Devices : Len(fed'[e]) <= MaxWindow
    <2>1. fed' \in [Devices -> Seq(Sample)]
      BY <1>1, <1>4, <1>7
    <2>2. \A e \in Devices : Len(fed[e]) <= MaxWindow
      BY DEF IInv, WindowInv
    <2> QED
      BY <1>7, <1>8, <2>1, <2>2
  <1>10. WindowInv'
    <2>1. buffers' = [k \in Keys |-> buffers'[k]]
      BY <1>2, <1>4
    <2>2. ASSUME NEW e \in Devices, Sole(e) PROVE WindowOK(buffers'[Key(e)], fed'[e])
      <3>1. CASE e = d
        <4>1. buffers'[Key(e)] = b /\ fed'[e] = t
          BY <1>2, <1>4, <1>8, <2>2, <3>1
        <4> QED
          BY <1>7, <2>2, <3>1, <4>1
      <3>2. CASE e # d
        <4>1. Key(d) # Key(e)
          BY <2>2, <3>2 DEF Sole
        <4>2. buffers'[Key(e)] = buffers[Key(e)] /\ fed'[e] = fed[e]
          BY <1>2, <1>4, <1>8, <3>2, <4>1
        <4> QED
          BY <2>2, <4>2 DEF IInv, WindowInv
      <3> QED
        BY <3>1, <3>2
    <2>3. \A e \in Devices : Sole(e)' => WindowOK(buffers[Key(e)], fed[e])'
      <3> SUFFICES ASSUME NEW e \in Devices, Sole(e)'
                   PROVE  WindowOK(buffers[Key(e)], fed[e])'
        OBVIOUS
      <3>1. Sole(e) /\ Key(e)' = Key(e)
        BY <1>5, <1>6
      <3>2. WindowOK(buffers'[Key(e)], fed'[e])
        BY <2>2, <3>1
      <3> DEFINE w == buffers'[Key(e)]
                 f == fed'[e]
      <3>3. buffers[Key(e)]' = w /\ fed[e]' = f
        BY <3>1
      <3> HIDE DEF w, f
      <3>4. WindowOK(w, f)
        BY <3>2 DEF w, f
      <3> QED
        BY <3>3, <3>4 DEF WindowOK
    <2> QED
      BY <1>9, <2>1, <2>3 DEF WindowInv
  <1>11. Tail(todo[d]) \in Seq(0..MaxWindow) /\ (Len(todo[d]) # 1 => Tail(todo[d]) # <<>>)
    BY <1>3, HeadTail
  <1>12. TypeOK'
    <2>1. todo' \in [Devices -> Seq(0..MaxWindow)]
      BY <1>1, <1>4, <1>11
    <2> QED
      BY <1>1, <1>9, <2>1 DEF IInv, TypeOK
  <1>13. LoopInv'
    <2>1. \A e \in Devices : /\ pc'[e] = "rule" /\ e # d => pc[e] = "rule"
                             /\ e # d => todo'[e] = todo[e]
      BY <1>1, <1>4 DEF IInv, TypeOK
    <2>2. pc'[d] = "rule" => Len(todo[d]) # 1
      BY <1>1 DEF IInv, TypeOK
    <2>3. todo'[d] = Tail(todo[d])
      BY <1>1, <1>4
    <2>4. val[d] # Nil
      BY <1>1 DEF IInv, LoopInv
    <2> QED
      BY <1>1, <1>11, <2>1, <2>2, <2>3, <2>4 DEF IInv, LoopInv
  <1> QED
    BY <1>10, <1>12, <1>13 DEF IInv

\* A step that changes no name, window or history.
LEMMA SameWindows ==
  ASSUME WindowInv, UNCHANGED <<buffers, fed, naming>>
  PROVE  WindowInv'
  <1>1. \A d \in Devices : Key(d)' = Key(d)
    BY DEF Key
  <1>2. \A d \in Devices : Sole(d)' <=> Sole(d)
    BY <1>1 DEF Sole
  <1>3. ASSUME NEW d \in Devices, Sole(d)' PROVE WindowOK(buffers[Key(d)], fed[d])'
    <2>1. WindowOK(buffers[Key(d)], fed[d]) /\ Key(d)' = Key(d)
      BY <1>1, <1>2, <1>3 DEF WindowInv
    <2> QED
      BY <2>1 DEF WindowOK
  <1> QED
    BY <1>3 DEF WindowInv

\* The other steps of the loop leave windows and histories alone.
LEMMA LoopStepInv ==
  ASSUME IInv, NEW d \in Devices, Loop(d), ~AggRule(d)
  PROVE  IInv'
  <1>1. /\ UNCHANGED <<buffers, fed, aggRules, naming>>
        /\ \/ ReadGroup(d) \/ Aggregate(d) \/ Tick(d)
           \/ /\ UNCHANGED <<todo, val, cycle>>
              /\ \E p \in {"read", "agg", "collect", "send", "blocked", "tick"} :
                   pc' = [pc EXCEPT ![d] = p]
    BY DEF Loop, ReadGroup, Reset, Aggregate, Alarm, Collect, Send, SendBlocks, Tick,
           engine, loop, ghost
  <1>2. WindowInv'
    BY <1>1, SameWindows DEF IInv
  <1>3. CASE ReadGroup(d)
    <2>1. /\ val' = [val EXCEPT ![d] = <<d, cycle[d]>>] \/ val' = val
          /\ UNCHANGED <<todo, cycle>> /\ pc' = [pc EXCEPT ![d] = "reset"]
      BY <1>3 DEF ReadGroup
    <2>2. <<d, cycle[d]>> \in Sample /\ <<d, cycle[d]>> # Nil
      BY RulesAssumption DEF IInv, TypeOK, Sample
    <2>3. TypeOK'
      BY <1>1, <2>1, <2>2 DEF IInv, TypeOK
    <2>4. LoopInv'
      BY <2>1, <2>2 DEF IInv, TypeOK, LoopInv
    <2> QED
      BY <1>2, <2>3, <2>4 DEF IInv
  <1>4. CASE Aggregate(d)
    <2>1. Rules(d) \in Seq(0..MaxWindow)
      BY RulesFacts DEF IInv
    <2>2. /\ UNCHANGED <<val, cycle>>
          /\ \/ /\ val[d] # Nil /\ Rules(d) # <<>>
                /\ todo' = [todo EXCEPT ![d] = Rules(d)] /\ pc' = [pc EXCEPT ![d] = "rule"]
             \/ todo' = todo /\ pc' = [pc EXCEPT ![d] = "alarm"]
      BY <1>4 DEF Aggregate
    <2>3. TypeOK'
      BY <1>1, <2>1, <2>2 DEF IInv, TypeOK
    <2>4. LoopInv'
      BY <2>2 DEF IInv, TypeOK, LoopInv
    <2> QED
      BY <1>2, <2>3, <2>4 DEF IInv
  <1>5. CASE Tick(d)
    <2>1. /\ cycle' = [cycle EXCEPT ![d] = IF Sole(d) THEN (cycle[d] + 1) % Cycles[d] ELSE 0]
          /\ val' = [val EXCEPT ![d] = Nil] /\ todo' = todo
          /\ pc' = [pc EXCEPT ![d] = "read"]
      BY <1>5 DEF Tick
    <2>2. (cycle[d] + 1) % Cycles[d] \in Nat
      <3>1. cycle[d] + 1 \in Nat /\ Cycles[d] \in Nat /\ Cycles[d] > 0
        BY RulesAssumption DEF IInv, TypeOK
      <3> QED
        BY <3>1
    <2>3. TypeOK'
      BY <1>1, <2>1, <2>2 DEF IInv, TypeOK
    <2>4. LoopInv'
      BY <2>1 DEF IInv, TypeOK, LoopInv
    <2> QED
      BY <1>2, <2>3, <2>4 DEF IInv
  <1>6. ASSUME UNCHANGED <<todo, val, cycle>>,
               NEW p \in {"read", "agg", "collect", "send", "blocked", "tick"},
               pc' = [pc EXCEPT ![d] = p]
        PROVE  IInv'
    <2>1. TypeOK'
      BY <1>1, <1>6 DEF IInv, TypeOK
    <2>2. LoopInv'
      BY <1>6 DEF IInv, TypeOK, LoopInv
    <2> QED
      BY <1>2, <2>1, <2>2 DEF IInv
  <1> QED
    BY <1>1, <1>3, <1>4, <1>5, <1>6

\* SIGHUP and a race change no window.
LEMMA OtherInv ==
  ASSUME IInv, Race \/ ReloadAgg \/ ReloadAlarm \/ UNCHANGED vars
  PROVE  IInv'
  <1>1. /\ UNCHANGED <<buffers, fed, todo, cycle, val, pc, naming>>
        /\ aggRules' \in Versions \cup {First, Nil}
    BY DEF IInv, TypeOK, Race, ReloadAgg, ReloadAlarm, vars, engine, loop
  <1>2. WindowInv'
    BY <1>1, SameWindows DEF IInv
  <1> QED
    BY <1>1, <1>2 DEF IInv, TypeOK, LoopInv

\* The invariant of the windows.
THEOREM Invariance == Spec => []IInv
  <1>1. Init => IInv
    BY InitInv
  <1>2. IInv /\ [Next]_vars => IInv'
    <2> SUFFICES ASSUME IInv, [Next]_vars PROVE IInv'
      OBVIOUS
    <2>1. CASE Next
      BY <2>1, AggRuleInv, LoopStepInv, OtherInv DEF Next
    <2>2. CASE UNCHANGED vars
      BY <2>2, OtherInv
    <2> QED
      BY <2>1, <2>2
  <1> QED
    BY <1>1, <1>2, PTL DEF Spec

(***************************************************************************)
(* The properties                                                          *)
(***************************************************************************)

\* The window of a device whose key no other device spells holds exactly the last
\* Size samples of that device, in order and no other's (PointBuffer.Add and the keys
\* of Buffers), whatever goroutines, races and reloads come in between.
THEOREM WindowsAreSuffixes == Spec => []WindowSuffix
  <1>1. IInv => WindowSuffix
    <2> SUFFICES ASSUME IInv, NEW d \in Devices, Sole(d), buffers[Key(d)] # Nil
                 PROVE  LET b == buffers[Key(d)]
                            n == IF Len(fed[d]) < b.size THEN Len(fed[d]) ELSE b.size
                        IN  b.values = SubSeq(fed[d], Len(fed[d]) - n + 1, Len(fed[d]))
      BY DEF WindowSuffix
    <2> DEFINE w == buffers[Key(d)].values
               s == fed[d]
               n == IF Len(s) < buffers[Key(d)].size THEN Len(s) ELSE buffers[Key(d)].size
               u == SubSeq(s, Len(s) - n + 1, Len(s))
    <2>1. WindowOK(buffers[Key(d)], s) /\ s \in Seq(Sample) /\ MaxWindow \in Nat
      BY RulesAssumption DEF IInv, TypeOK, WindowInv
    <2>2. /\ w \in Seq(Sample) /\ Len(w) = n /\ n \in Nat /\ n <= Len(s)
          /\ \A i \in 1..n : w[i] = s[Len(s) - n + i]
      <3>1. /\ w \in Seq(Sample) /\ Len(w) = n /\ buffers[Key(d)].size \in 0..MaxWindow
            /\ \A i \in 1..Len(w) : w[i] = s[Len(s) - Len(w) + i]
        BY <2>1 DEF WindowOK
      <3>2. n \in Nat /\ n <= Len(s)
        BY <2>1, <3>1
      <3> HIDE DEF n, w, s
      <3> QED
        BY <3>1, <3>2
    <2> HIDE DEF n, w, s
    <2>3. u \in Seq(Sample) /\ Len(u) = n /\ \A i \in 1..n : u[i] = s[Len(s) - n + i]
      <3>1. Len(s) - n + 1 \in 1..(Len(s) + 1) /\ Len(s) \in Nat
        BY <2>1, <2>2
      <3> QED
        BY <2>1, <2>2, <3>1
    <2> HIDE DEF u
    <2>4. w = u
      BY <2>2, <2>3
    <2> QED
      BY <2>4 DEF w, u, n, s
  <1> QED
    BY <1>1, Invariance, PTL
=============================================================================
