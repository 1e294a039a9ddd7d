------------------------- MODULE PointPipelineProofs -------------------------
(***************************************************************************)
(* PointPipeline's properties, for every value a driver may return: octet  *)
(* strings of any length, numbers with any bytes, and values of the types  *)
(* the pipeline has no case for.                                           *)
(***************************************************************************)
EXTENDS PointPipeline, TLAPS

\* A value is a record of these three fields.
IsRecord(v) == v = [go |-> v.go, sem |-> v.sem, b |-> v.b]
IsValue(v) == IsRecord(v) /\ v.b \in Seq(Nat)

(***************************************************************************)
(* Formats                                                                 *)
(***************************************************************************)

\* The fourteen formats, by family: their length, and the places they name.
LEMMA FormatFacts ==
  ASSUME NEW f \in Formats
  PROVE  /\ f.exact \in BOOLEAN
         /\ \/ f.family = "none"
            \/ f.family \in {"INT", "UINT"} /\ f.order = <<1, 2>>
            \/ f.family \in {"LONG", "FLOAT"} /\ f.order \in {ABCD, CDAB, BADC, DCBA}
            \/ f.family = "DOUBLE" /\ f.order \in {<<1, 2, 3, 4, 5, 6, 7, 8>>, <<7, 8, 5, 6, 3, 4, 1, 2>>,
                                                   <<2, 1, 4, 3, 6, 5, 8, 7>>, <<8, 7, 6, 5, 4, 3, 2, 1>>}
  <1>1. DOMAIN Orders = {"INT", "UINT", "LONG", "FLOAT", "DOUBLE"}
    BY DEF Orders
  <1>2. CASE f = NoFormat
    BY <1>2 DEF NoFormat
  <1>3. CASE f # NoFormat
    <2>1. PICK g \in DOMAIN Orders : f \in [family : {g}, order : Orders[g], exact : BOOLEAN]
      BY <1>3 DEF Formats
    <2>2. f.family = g /\ f.order \in Orders[g]
      BY <2>1
    <2>3. f.exact \in BOOLEAN
      BY <2>1
    <2>4. /\ Orders["INT"] = {<<1, 2>>} /\ Orders["UINT"] = {<<1, 2>>}
          /\ Orders["LONG"] = {ABCD, CDAB, BADC, DCBA} /\ Orders["FLOAT"] = {ABCD, CDAB, BADC, DCBA}
          /\ Orders["DOUBLE"] = {<<1, 2, 3, 4, 5, 6, 7, 8>>, <<7, 8, 5, 6, 3, 4, 1, 2>>,
                                 <<2, 1, 4, 3, 6, 5, 8, 7>>, <<8, 7, 6, 5, 4, 3, 2, 1>>}
      BY DEF Orders
    <2> QED
      BY <1>1, <2>1, <2>2, <2>3, <2>4
  <1> QED
    BY <1>2, <1>3

\* o names each of the places 1..m once.
Names(o, m) ==
  /\ Len(o) = m /\ \A n \in 1..m : o[n] \in 1..m
  /\ \A n \in 1..m : \E k \in 1..m : o[k] = n

\* The names have two, four or eight letters.
LEMMA OrderLengths ==
  /\ Names(<<1, 2>>, 2)
  /\ \A o \in {ABCD, CDAB, BADC, DCBA} : Names(o, 4)
  /\ \A o \in {<<1, 2, 3, 4, 5, 6, 7, 8>>, <<7, 8, 5, 6, 3, 4, 1, 2>>,
               <<2, 1, 4, 3, 6, 5, 8, 7>>, <<8, 7, 6, 5, 4, 3, 2, 1>>} : Names(o, 8)
  <1>1. Names(<<1, 2>>, 2)
    BY DEF Names
  <1>2. Names(ABCD, 4) /\ Names(CDAB, 4) /\ Names(BADC, 4) /\ Names(DCBA, 4)
    <2>1. Names(ABCD, 4)
      BY DEF Names, ABCD
    <2>2. Names(CDAB, 4)
      BY DEF Names, CDAB
    <2>3. Names(BADC, 4)
      BY DEF Names, BADC
    <2>4. Names(DCBA, 4)
      BY DEF Names, DCBA
    <2> QED
      BY <2>1, <2>2, <2>3, <2>4
  <1>3. /\ Names(<<1, 2, 3, 4, 5, 6, 7, 8>>, 8) /\ Names(<<7, 8, 5, 6, 3, 4, 1, 2>>, 8)
        /\ Names(<<2, 1, 4, 3, 6, 5, 8, 7>>, 8) /\ Names(<<8, 7, 6, 5, 4, 3, 2, 1>>, 8)
    <2>1. Names(<<1, 2, 3, 4, 5, 6, 7, 8>>, 8)
      BY DEF Names
    <2>2. Names(<<7, 8, 5, 6, 3, 4, 1, 2>>, 8)
      BY DEF Names
    <2>3. Names(<<2, 1, 4, 3, 6, 5, 8, 7>>, 8)
      BY DEF Names
    <2>4. Names(<<8, 7, 6, 5, 4, 3, 2, 1>>, 8)
      BY DEF Names
    <2> QED
      BY <2>1, <2>2, <2>3, <2>4
  <1> QED
    BY <1>1, <1>2, <1>3

\* p and q, of length m, are each other's reverse.
Mirror(p, q, m) == Len(p) = m /\ Len(q) = m /\ \A n \in 1..m : p[m + 1 - n] = q[n]

\* Bytes picked and read in little endian are those of the reversed name.
LEMMA Reversed ==
  ASSUME NEW b, NEW m \in Nat, NEW p, NEW q, Mirror(p, q, m)
  PROVE  LE(Pick(b, p)) = Pick(b, q)
  <1> DEFINE s == Pick(b, p)
  <1>1. s = [n \in 1..m |-> b[p[n]]]
    BY DEF Pick, Mirror
  <1>2. Len(s) = m
    BY <1>1
  <1>3. LE(s) = [n \in 1..m |-> s[m + 1 - n]]
    BY <1>2 DEF LE
  <1>4. \A n \in 1..m : s[m + 1 - n] = b[q[n]]
    BY <1>1 DEF Mirror
  <1> HIDE DEF s
  <1>5. Pick(b, q) = [n \in 1..m |-> b[q[n]]]
    BY DEF Pick, Mirror
  <1> QED
    BY <1>3, <1>4, <1>5 DEF s

\* The order in which a format's bytes are read: the one its name spells, except
\* for "Long CD AB".
ReadOrder(f) == IF f.family = "LONG" /\ f.order = CDAB THEN BADC ELSE f.order

LEMMA DecodeOrder ==
  ASSUME NEW f \in Formats, f.family # "none", NEW b
  PROVE  Decode(f, b) = Pick(b, ReadOrder(f))
  <1> DEFINE Up8 == <<1, 2, 3, 4, 5, 6, 7, 8>>
             Down8 == <<8, 7, 6, 5, 4, 3, 2, 1>>
  <1>1. /\ LE(Pick(b, CDAB)) = Pick(b, BADC)
        /\ LE(Pick(b, ABCD)) = Pick(b, DCBA)
    <2>1. /\ \A n \in 1..4 : CDAB[4 + 1 - n] = BADC[n]
          /\ \A n \in 1..4 : ABCD[4 + 1 - n] = DCBA[n]
      BY DEF ABCD, CDAB, BADC, DCBA
    <2>2. Mirror(CDAB, BADC, 4) /\ Mirror(ABCD, DCBA, 4)
      BY <2>1, OrderLengths DEF Mirror, Names
    <2> QED
      BY <2>2, Reversed
  <1>2. LE(Pick(b, Up8)) = Pick(b, Down8)
    <2>1. \A n \in 1..8 : Up8[8 + 1 - n] = Down8[n]
      OBVIOUS
    <2>2. Len(Up8) = 8 /\ Len(Down8) = 8
      OBVIOUS
    <2> HIDE DEF Up8, Down8
    <2>3. Mirror(Up8, Down8, 8)
      BY <2>1, <2>2 DEF Mirror
    <2> QED
      BY <2>3, Reversed
  <1>3. /\ ABCD # CDAB /\ ABCD # BADC /\ ABCD # DCBA /\ CDAB # BADC /\ CDAB # DCBA /\ BADC # DCBA
    BY DEF ABCD, CDAB, BADC, DCBA
  <1>4. CASE f.family \in {"INT", "UINT"}
    <2>1. f.order = <<1, 2>>
      BY <1>4, FormatFacts
    <2>2. f.order # DCBA
      BY <2>1 DEF DCBA
    <2> QED
      BY <1>4, <2>2 DEF Decode, BE, ReadOrder
  <1>5. CASE f.family = "LONG"
    <2>1. f.order \in {ABCD, CDAB, BADC, DCBA}
      BY <1>5, FormatFacts
    <2> QED
      BY <1>1, <1>3, <1>5, <2>1 DEF Decode, BE, ReadOrder
  <1>6. CASE f.family = "FLOAT"
    <2>1. f.order \in {ABCD, CDAB, BADC, DCBA}
      BY <1>6, FormatFacts
    <2> QED
      BY <1>1, <1>3, <1>6, <2>1 DEF Decode, BE, ReadOrder
  <1>7. CASE f.family = "DOUBLE"
    <2>1. f.order \in {Up8, <<7, 8, 5, 6, 3, 4, 1, 2>>, <<2, 1, 4, 3, 6, 5, 8, 7>>, Down8}
      BY <1>7, FormatFacts
    <2>2. f.order # DCBA /\ (f.order[1] = 8 <=> f.order = Down8)
      BY <2>1 DEF DCBA
    <2> HIDE DEF Up8, Down8
    <2>3. CASE f.order = Down8
      <3>1. Decode(f, b) = LE(Pick(b, Up8))
        BY <1>7, <2>2, <2>3 DEF Decode, Up8
      <3> QED
        BY <1>2, <1>7, <2>3, <3>1 DEF ReadOrder
    <2>4. CASE f.order # Down8
      BY <1>7, <2>2, <2>4 DEF Decode, BE, ReadOrder
    <2> QED
      BY <2>3, <2>4
  <1> QED
    BY <1>4, <1>5, <1>6, <1>7, FormatFacts

(***************************************************************************)
(* The stages                                                              *)
(***************************************************************************)

\* Converted keeps the bytes, and its result is a float64 iff it was a number.
LEMMA ConvertedFacts ==
  ASSUME NEW v, IsRecord(v), NEW type
  PROVE  /\ Converted(type, v).b = v.b
         /\ type = "float" => (Converted(type, v).go = "float64" <=> Numeric(v))
  <1>1. CASE type = "float" /\ Numeric(v)
    <2>1. Converted(type, v) = [v EXCEPT !.go = "float64"]
      BY <1>1 DEF Converted
    <2> QED
      BY <1>1, <2>1 DEF IsRecord
  <1>2. CASE type = "int" /\ Numeric(v) /\ v.go \in {"float32", "float64", "string"}
    <2>1. Converted(type, v) = [v EXCEPT !.go = "int"]
      BY <1>2 DEF Converted
    <2> QED
      BY <1>2, <2>1 DEF IsRecord
  <1>3. CASE /\ ~(type = "float" /\ Numeric(v))
             /\ ~(type = "int" /\ Numeric(v) /\ v.go \in {"float32", "float64", "string"})
    <2>1. Converted(type, v) = v
      BY <1>3 DEF Converted
    <2> QED
      BY <1>3, <2>1 DEF Numeric
  <1> QED
    BY <1>1, <1>2, <1>3

\* The bytes of a number: those of a single register are followed by zeros.
Padded(r) == IF r.go = "uint16" THEN r.b \o <<0, 0>> ELSE r.b

\* What main.go hands to ParseAndCastFormat.
Handed(f, r) ==
  IF f.family = "FLOAT" /\ r.go \in {"uint16", "uint32"}
  THEN Bytes(r, Padded(r))
  ELSE r

LEMMA RawFacts ==
  ASSUME NEW r \in Raws
  PROVE  /\ IsValue(r)
         /\ r.go \in {"nil", "bool", "other", "string", "[]byte", "int", "int32", "int64", "uint",
                      "uint16", "uint32", "uint64", "float32", "float64"}
         /\ r.go = "uint16" => Len(r.b) = 2
         /\ r.go = "uint32" => Len(r.b) = 4
  <1>1. r \in [go : {"nil", "bool", "other", "string", "[]byte", "int", "int32", "int64", "uint",
                    "uint16", "uint32", "uint64", "float32", "float64"},
               sem : STRING, b : Seq(Nat)]
    BY RawsAssumption
  <1>2. /\ r.go = "uint16" => Len(r.b) = 2
        /\ r.go = "uint32" => Len(r.b) = 4
    BY RawsAssumption
  <1>3. r.go \in {"nil", "bool", "other", "string", "[]byte", "int", "int32", "int64", "uint",
                  "uint16", "uint32", "uint64", "float32", "float64"}
    BY <1>1
  <1>4. IsValue(r)
    BY <1>1 DEF IsValue, IsRecord
  <1> QED
    BY <1>2, <1>3, <1>4

\* The bytes of two strings, one after the other.
LEMMA Concat ==
  ASSUME NEW s \in Seq(Nat), NEW z \in Seq(Nat)
  PROVE  /\ s \o z \in Seq(Nat) /\ Len(s \o z) = Len(s) + Len(z)
         /\ \A n \in 1..(Len(s) + Len(z)) :
              (s \o z)[n] = IF n <= Len(s) THEN s[n] ELSE z[n - Len(s)]
  OBVIOUS

\* Bytes makes an octet string.
LEMMA OctetString ==
  ASSUME NEW v, IsValue(v), NEW c \in Seq(Nat)
  PROVE  IsValue(Bytes(v, c)) /\ Bytes(v, c).go = "[]byte" /\ Bytes(v, c).b = c
  <1>1. Bytes(v, c) = [go |-> "[]byte", sem |-> "[]byte", b |-> c]
    <2>1. PICK g, s, b : v = [go |-> g, sem |-> s, b |-> b]
      BY DEF IsValue, IsRecord
    <2> DEFINE t == "[]byte"
    <2>2. Bytes(v, c) = [v EXCEPT !.go = t, !.sem = t, !.b = c]
      BY DEF Bytes
    <2> HIDE DEF t
    <2>3. Bytes(v, c) = [go |-> t, sem |-> t, b |-> c]
      BY <2>1, <2>2
    <2> QED
      BY <2>3 DEF t
  <1> DEFINE w == [go |-> "[]byte", sem |-> "[]byte", b |-> c]
  <1>2. w.go = "[]byte" /\ w.sem = "[]byte" /\ w.b = c /\ IsValue(w)
    BY DEF IsValue, IsRecord
  <1> HIDE DEF w
  <1>3. Bytes(v, c) = w
    BY <1>1 DEF w
  <1> QED
    BY <1>2, <1>3

LEMMA AdaptedFacts ==
  ASSUME NEW f \in Formats, NEW r \in Raws
  PROVE  Adapted(f, r) = Handed(f, r)
  <1>1. CASE r.go = "uint16"
    BY <1>1, RawFacts DEF Adapted, Handed, Padded
  <1>2. CASE r.go = "uint32"
    BY <1>2, RawFacts DEF Adapted, Handed, Padded
  <1>3. CASE r.go \notin {"uint16", "uint32"}
    <2>1. r.go # "[]uint16"
      BY RawFacts
    <2>2. Adapted(f, r) = r
      BY <1>3, <2>1 DEF Adapted
    <2> QED
      BY <1>3, <2>2 DEF Handed
  <1> QED
    BY <1>1, <1>2, <1>3

\* A number handed on as bytes has four of them.
LEMMA BytesFacts ==
  ASSUME NEW r \in Raws, r.go \in {"uint16", "uint32"}
  PROVE  /\ Padded(r) \in Seq(Nat) /\ Len(Padded(r)) = 4
         /\ \A n \in 1..4 : Padded(r)[n] = IF n > Len(r.b) THEN 0 ELSE r.b[n]
         /\ IsValue(Bytes(r, Padded(r))) /\ Bytes(r, Padded(r)).go = "[]byte"
         /\ Bytes(r, Padded(r)).b = Padded(r)
  <1> DEFINE c == Padded(r)
  <1>1. c \in Seq(Nat) /\ Len(c) = 4 /\ \A n \in 1..4 : c[n] = IF n > Len(r.b) THEN 0 ELSE r.b[n]
    <2>1. r.b \in Seq(Nat)
      BY RawFacts DEF IsValue, IsRecord
    <2>2. CASE r.go = "uint16"
      <3> DEFINE z == <<0, 0>>
      <3>1. Len(r.b) = 2 /\ c = r.b \o z
        BY <2>2, RawFacts DEF Padded
      <3>2. z \in Seq(Nat) /\ Len(z) = 2 /\ z[1] = 0 /\ z[2] = 0
        OBVIOUS
      <3> HIDE DEF z, c
      <3>3. /\ r.b \o z \in Seq(Nat) /\ Len(r.b \o z) = Len(r.b) + Len(z)
            /\ \A n \in 1..(Len(r.b) + Len(z)) :
                 (r.b \o z)[n] = IF n <= Len(r.b) THEN r.b[n] ELSE z[n - Len(r.b)]
        BY <2>1, <3>2, Concat
      <3>4. Len(r.b) + Len(z) = 4
        BY <3>1, <3>2
      <3>5. \A n \in 1..4 : n <= 2 \/ n - 2 = 1 \/ n - 2 = 2
        OBVIOUS
      <3>6. \A n \in 1..4 : (r.b \o z)[n] = IF n > Len(r.b) THEN 0 ELSE r.b[n]
        BY <3>1, <3>2, <3>3, <3>4, <3>5
      <3> QED
        BY <3>1, <3>3, <3>4, <3>6
    <2>3. CASE r.go = "uint32"
      <3>1. c = r.b /\ Len(r.b) = 4
        BY <2>3, RawFacts DEF Padded
      <3> HIDE DEF c
      <3> QED
        BY <2>1, <3>1
    <2> QED
      BY <2>2, <2>3
  <1> HIDE DEF c
  <1>2. IsValue(Bytes(r, c)) /\ Bytes(r, c).go = "[]byte" /\ Bytes(r, c).b = c
    BY <1>1, RawFacts, OctetString
  <1> QED
    BY <1>1, <1>2 DEF c

\* The result of ParseAndCastFormat, one case for each way through it.
LEMMA ParsedFacts ==
  ASSUME NEW f \in Formats, NEW v, IsValue(v), v.go # "int16"
  PROVE  /\ v.go = "[]byte" /\ Parses(f, v.b) =>
              ParseAndCastFormat(f, v) = ParseFormat(f, v)
         /\ v.go = "[]byte" /\ ~Parses(f, v.b) => ParseAndCastFormat(f, v) = v
         /\ v.go \in {"int", "uint16", "uint"} /\ f.family = "INT" =>
              ParseAndCastFormat(f, v) = [v EXCEPT !.go = "int", !.sem = "int16", !.b = Low16(v.b)]
         /\ v.go = "uint16" /\ f.family = "UINT" => ParseAndCastFormat(f, v) = [v EXCEPT !.go = "uint"]
         /\ v.go = "uint" /\ f.family = "UINT" =>
              ParseAndCastFormat(f, v) = [v EXCEPT !.go = "uint16", !.sem = "uint16", !.b = Low16(v.b)]
         /\ v.go \in {"uint16", "uint"} /\ f.family \notin {"INT", "UINT"} => ParseAndCastFormat(f, v) = v
         /\ v.go = "int" /\ f.family # "INT" => ParseAndCastFormat(f, v) = v
         /\ v.go \notin {"[]byte", "int", "uint16", "uint"} => ParseAndCastFormat(f, v) = v
  <1>1. v.go = "[]byte" /\ Parses(f, v.b) => ParseAndCastFormat(f, v) = ParseFormat(f, v)
    BY DEF ParseAndCastFormat
  <1>2. v.go = "[]byte" /\ ~Parses(f, v.b) => ParseAndCastFormat(f, v) = v
    BY DEF ParseAndCastFormat
  <1>3. v.go \in {"int", "uint16", "uint"} /\ f.family = "INT" =>
          ParseAndCastFormat(f, v) = [v EXCEPT !.go = "int", !.sem = "int16", !.b = Low16(v.b)]
    BY DEF ParseAndCastFormat
  <1>4. v.go = "uint16" /\ f.family = "UINT" => ParseAndCastFormat(f, v) = [v EXCEPT !.go = "uint"]
    BY DEF ParseAndCastFormat
  <1>5. v.go = "uint" /\ f.family = "UINT" =>
          ParseAndCastFormat(f, v) = [v EXCEPT !.go = "uint16", !.sem = "uint16", !.b = Low16(v.b)]
    BY DEF ParseAndCastFormat
  <1>6. v.go \in {"uint16", "uint"} /\ f.family \notin {"INT", "UINT"} => ParseAndCastFormat(f, v) = v
    BY DEF ParseAndCastFormat
  <1>7. v.go = "int" /\ f.family # "INT" => ParseAndCastFormat(f, v) = v
    BY DEF ParseAndCastFormat
  <1>8. v.go \notin {"[]byte", "int", "uint16", "uint"} => ParseAndCastFormat(f, v) = v
    BY DEF ParseAndCastFormat
  <1> QED
    BY <1>1, <1>2, <1>3, <1>4, <1>5, <1>6, <1>7, <1>8

\* ParseFormat gives each family its Go type.
LEMMA ParseFormatFacts ==
  ASSUME NEW f \in Formats, NEW v, IsValue(v), Parses(f, v.b), NEW p, p = ParseFormat(f, v)
  PROVE  /\ p.b = Pick(v.b, ReadOrder(f))
         /\ p.go = GoType[f.family] /\ p.go # "string"
         /\ p.go \in {"int32", "float32", "float64", "uint16"} <=> f.family # "INT"
         /\ f.family = "INT" => p.go = "int16"
         /\ f.family \in {"INT", "UINT", "LONG", "FLOAT", "DOUBLE"}
         /\ \E s \in {"int16", "uint16", "int32", "float32", "float64"} : p.go = s /\ p.sem = s
  <1>1. DOMAIN Orders = {"INT", "UINT", "LONG", "FLOAT", "DOUBLE"}
    BY DEF Orders
  <1>2. f.family \in {"INT", "UINT", "LONG", "FLOAT", "DOUBLE"}
    BY <1>1 DEF Parses
  <1>3. /\ GoType["INT"] = "int16" /\ GoType["UINT"] = "uint16" /\ GoType["LONG"] = "int32"
        /\ GoType["FLOAT"] = "float32" /\ GoType["DOUBLE"] = "float64"
    BY DEF GoType
  <1>4. p = [v EXCEPT !.go = GoType[f.family], !.sem = GoType[f.family], !.b = Decode(f, v.b)]
    BY DEF ParseFormat
  <1>5. p.go = GoType[f.family] /\ p.sem = GoType[f.family] /\ p.b = Decode(f, v.b)
    BY <1>4 DEF IsValue, IsRecord
  <1>6. Decode(f, v.b) = Pick(v.b, ReadOrder(f))
    BY <1>2, DecodeOrder
  <1> QED
    BY <1>2, <1>3, <1>5, <1>6

\* ParseAndCastFormat returns a value.
LEMMA ParsedIsRecord ==
  ASSUME NEW f \in Formats, NEW v, IsValue(v), v.go # "int16"
  PROVE  IsRecord(ParseAndCastFormat(f, v))
  <1>1. PICK g, s, b : v = [go |-> g, sem |-> s, b |-> b]
    BY DEF IsValue, IsRecord
  <1>2. \E h, t, c : ParseAndCastFormat(f, v) = [go |-> h, sem |-> t, b |-> c]
    <2>1. CASE v.go = "[]byte" /\ Parses(f, v.b)
      <3>1. ParseAndCastFormat(f, v) = ParseFormat(f, v)
        BY <2>1, ParsedFacts
      <3> DEFINE t == GoType[f.family]
                 c == Decode(f, v.b)
      <3>2. ParseFormat(f, v) = [v EXCEPT !.go = t, !.sem = t, !.b = c]
        BY DEF ParseFormat
      <3> HIDE DEF t, c
      <3>3. ParseFormat(f, v) = [go |-> t, sem |-> t, b |-> c]
        BY <1>1, <3>2
      <3> QED
        BY <3>1, <3>3
    <2>2. CASE v.go = "[]byte" /\ ~Parses(f, v.b)
      <3>1. ParseAndCastFormat(f, v) = v
        BY <2>2, ParsedFacts
      <3> QED
        BY <1>1, <3>1
    <2>3. CASE v.go \in {"int", "uint16", "uint"} /\ f.family = "INT"
      <3>1. ParseAndCastFormat(f, v) = [v EXCEPT !.go = "int", !.sem = "int16", !.b = Low16(v.b)]
        BY <2>3, ParsedFacts
      <3>2. ParseAndCastFormat(f, v) = [go |-> "int", sem |-> "int16", b |-> Low16(v.b)]
        BY <1>1, <3>1
      <3> QED
        BY <3>2
    <2>4. CASE v.go = "uint16" /\ f.family = "UINT"
      <3>1. ParseAndCastFormat(f, v) = [v EXCEPT !.go = "uint"]
        BY <2>4, ParsedFacts
      <3>2. ParseAndCastFormat(f, v) = [go |-> "uint", sem |-> s, b |-> b]
        BY <1>1, <3>1
      <3> QED
        BY <3>2
    <2>5. CASE v.go = "uint" /\ f.family = "UINT"
      <3>1. ParseAndCastFormat(f, v) = [v EXCEPT !.go = "uint16", !.sem = "uint16", !.b = Low16(v.b)]
        BY <2>5, ParsedFacts
      <3>2. ParseAndCastFormat(f, v) = [go |-> "uint16", sem |-> "uint16", b |-> Low16(v.b)]
        BY <1>1, <3>1
      <3> QED
        BY <3>2
    <2>6. CASE \/ v.go \in {"uint16", "uint"} /\ f.family \notin {"INT", "UINT"}
               \/ v.go = "int" /\ f.family # "INT"
               \/ v.go \notin {"[]byte", "int", "uint16", "uint"}
      <3>1. ParseAndCastFormat(f, v) = v
        BY <2>6, ParsedFacts
      <3> QED
        BY <1>1, <3>1
    <2> QED
      BY <2>1, <2>2, <2>3, <2>4, <2>5, <2>6
  <1>3. PICK h, t, c : ParseAndCastFormat(f, v) = [go |-> h, sem |-> t, b |-> c]
    BY <1>2
  <1> QED
    BY <1>3 DEF IsRecord

(***************************************************************************)
(* The properties                                                          *)
(***************************************************************************)

\* val is what the stages passed so far make of raw.
THEOREM Invariance == Spec => []IInv
  <1>1. Init => IInv
    BY DEF Init, IInv, StageInv
  <1>2. IInv /\ [Next]_vars => IInv'
    <2> SUFFICES ASSUME IInv, [Next]_vars PROVE IInv'
      OBVIOUS
    <2>1. CASE Adapt
      BY <2>1 DEF IInv, StageInv, Adapt
    <2>2. CASE Format
      BY <2>2 DEF IInv, StageInv, Format
    <2>3. CASE Transform
      BY <2>3 DEF IInv, StageInv, Transform
    <2>4. CASE Type
      BY <2>4 DEF IInv, StageInv, Type
    <2>5. CASE UNCHANGED vars
      BY <2>5 DEF IInv, StageInv, vars
    <2> QED
      BY <2>1, <2>2, <2>3, <2>4, <2>5 DEF Next
  <1> QED
    BY <1>1, <1>2, PTL DEF Spec

\* A value that decodes reaches ParseFormat as enough bytes, its own and zeros.
LEMMA DecodesFacts ==
  ASSUME IInv, NEW v, v = Handed(point.format, raw)
  PROVE  /\ IsValue(v) /\ (Decodes => v.go = "[]byte")
         /\ v.go = "[]byte" => (Decodes <=> Parses(point.format, v.b))
         /\ Decodes => \A n \in 1..Len(point.format.order) :
                         v.b[n] = IF n > Len(raw.b) THEN 0 ELSE raw.b[n]
  <1> DEFINE f == point.format
             num == f.family = "FLOAT" /\ raw.go \in {"uint16", "uint32"}
             len == IF raw.go = "[]byte" THEN Len(raw.b) ELSE IF num THEN 4 ELSE 0
  <1>1. f \in Formats /\ raw \in Raws /\ IsValue(raw)
    BY RawFacts DEF IInv, Points
  <1>2. Decodes <=> f.family # "none" /\ f.exact /\ len >= Len(f.order)
    BY DEF Decodes
  <1>3. DOMAIN Orders = {"INT", "UINT", "LONG", "FLOAT", "DOUBLE"}
    BY DEF Orders
  <1>4. /\ f.family = "none" \/ f.family \in DOMAIN Orders
        /\ f.family # "none" => Len(f.order) \in {2, 4, 8}
        /\ f.family = "FLOAT" => Len(f.order) = 4
    <2>1. /\ Len(<<1, 2>>) = 2 /\ \A o \in {ABCD, CDAB, BADC, DCBA} : Len(o) = 4
          /\ \A o \in {<<1, 2, 3, 4, 5, 6, 7, 8>>, <<7, 8, 5, 6, 3, 4, 1, 2>>,
                       <<2, 1, 4, 3, 6, 5, 8, 7>>, <<8, 7, 6, 5, 4, 3, 2, 1>>} : Len(o) = 8
      BY OrderLengths DEF Names
    <2> QED
      BY <1>1, <1>3, <2>1, FormatFacts
  <1>5. Parses(f, v.b) <=> f.exact /\ f.family # "none" /\ Len(v.b) >= Len(f.order)
    BY <1>3, <1>4 DEF Parses
  <1>6. raw.b \in Seq(Nat)
    BY <1>1 DEF IsValue, IsRecord
  <1> HIDE DEF f
  <1>7. CASE num
    <2> DEFINE c == Padded(raw)
    <2>1. v = Bytes(raw, c)
      BY <1>7 DEF Handed, f
    <2>2. /\ Len(c) = 4 /\ \A n \in 1..4 : c[n] = IF n > Len(raw.b) THEN 0 ELSE raw.b[n]
          /\ IsValue(v) /\ v.go = "[]byte" /\ v.b = c
      <3>1. raw.go \in {"uint16", "uint32"}
        BY <1>7
      <3> HIDE DEF num, len
      <3> QED
        BY <1>1, <2>1, <3>1, BytesFacts
    <2> HIDE DEF c
    <2>3. raw.go # "[]byte" /\ len = 4 /\ Len(f.order) = 4
      BY <1>4, <1>7
    <2> QED
      BY <1>2, <1>5, <2>2, <2>3 DEF f
  <1>8. CASE ~num
    <2>1. v = raw
      BY <1>8 DEF Handed, f
    <2>2. raw.go # "[]byte" => ~Decodes
      <3>1. ASSUME raw.go # "[]byte", Decodes PROVE f.family # "none" /\ 0 >= Len(f.order)
        BY <1>2, <1>8, <3>1
      <3>2. f.family # "none" => ~(0 >= Len(f.order))
        BY <1>4
      <3> QED
        BY <3>1, <3>2
    <2>3. raw.go = "[]byte" => len = Len(raw.b) /\ Len(raw.b) \in Nat
      BY <1>6
    <2>4. raw.go = "[]byte" => (Decodes <=> Parses(f, v.b))
      BY <1>2, <1>5, <2>1, <2>3
    <2>5. ASSUME Decodes, NEW n \in 1..Len(f.order)
          PROVE  v.b[n] = IF n > Len(raw.b) THEN 0 ELSE raw.b[n]
      <3>1. Len(f.order) \in Nat /\ Len(raw.b) \in Nat /\ Len(raw.b) >= Len(f.order)
        BY <1>2, <1>4, <2>2, <2>3, <2>5
      <3>2. ~(n > Len(raw.b))
        BY <3>1
      <3> QED
        BY <2>1, <3>2
    <2> QED
      BY <1>1, <2>1, <2>2, <2>4, <2>5 DEF f
  <1> QED
    BY <1>7, <1>8

\* The value that is reported.
LEMMA DoneFacts ==
  ASSUME IInv, stage = "done", NEW v, v = Handed(point.format, raw),
         NEW p, p = ParseAndCastFormat(point.format, v)
  PROVE  val = Converted(point.type, p)
  <1>1. point.format \in Formats /\ raw \in Raws
    BY DEF IInv, Points
  <1>2. v = Adapted(point.format, raw)
    BY <1>1, AdaptedFacts
  <1> QED
    BY <1>2 DEF IInv, StageInv

\* The value of a point without Transform that is decoded is reported with every
\* byte its Format reads, and, "Long CD AB" left out, in the order the Format's name
\* spells (format_parser.go, main.go).
THEOREM BytesInOrder == Spec => []NamedOrder
  <1>1. IInv => NamedOrder
    <2> SUFFICES ASSUME IInv, stage = "done", Decodes
                 PROVE  LET f == point.format
                            byte(n) == IF n > Len(raw.b) THEN 0 ELSE raw.b[n]
                        IN  /\ Len(val.b) = Len(f.order)
                            /\ \A n \in 1..Len(f.order) :
                                 \E m \in 1..Len(f.order) : val.b[m] = byte(n)
                            /\ ~(f.family = "LONG" /\ f.order = CDAB) =>
                                 val.b = [n \in 1..Len(f.order) |-> byte(f.order[n])]
      BY DEF NamedOrder
    <2> DEFINE f == point.format
               v == Handed(f, raw)
               p == ParseAndCastFormat(f, v)
               o == ReadOrder(f)
               byte(n) == IF n > Len(raw.b) THEN 0 ELSE raw.b[n]
    <2>1. f \in Formats /\ IsValue(v) /\ v.go = "[]byte" /\ Parses(f, v.b)
      BY DecodesFacts DEF IInv, Points
    <2>2. \A n \in 1..Len(f.order) : v.b[n] = byte(n)
      BY DecodesFacts
    <2>3. val = Converted(point.type, p)
      BY DoneFacts
    <2> HIDE DEF v, p
    <2>4. p = ParseFormat(f, v)
      BY <2>1, ParsedFacts DEF p
    <2>5. p.b = Pick(v.b, o) /\ f.family \in {"INT", "UINT", "LONG", "FLOAT", "DOUBLE"}
      BY <2>1, <2>4, ParseFormatFacts
    <2>6. val.b = Pick(v.b, o)
      <3>1. IsRecord(p)
        BY <2>1, ParsedIsRecord DEF p
      <3> QED
        BY <2>3, <2>5, <3>1, ConvertedFacts
    <2>7. Len(o) = Len(f.order) /\ Names(o, Len(f.order)) /\ Len(f.order) \in Nat
      <3>1. CASE f.family \in {"INT", "UINT"}
        <4>1. f.order = <<1, 2>> /\ o = f.order
          BY <2>1, <3>1, FormatFacts DEF ReadOrder
        <4> HIDE DEF o, f
        <4>2. Len(f.order) = 2
          BY <4>1
        <4> QED
          BY <4>1, <4>2, OrderLengths
      <3>2. CASE f.family \in {"LONG", "FLOAT"}
        <4>1. f.order \in {ABCD, CDAB, BADC, DCBA}
          BY <2>1, <3>2, FormatFacts
        <4>2. o \in {ABCD, CDAB, BADC, DCBA}
          BY <4>1 DEF ReadOrder
        <4> HIDE DEF o, f
        <4>3. Names(o, 4) /\ Names(f.order, 4)
          BY <4>1, <4>2, OrderLengths
        <4>4. Len(o) = 4 /\ Len(f.order) = 4
          BY <4>3 DEF Names
        <4> QED
          BY <4>3, <4>4
      <3>3. CASE f.family = "DOUBLE"
        <4>1. o = f.order
          BY <3>3 DEF ReadOrder
        <4>2. Names(f.order, 8)
          BY <2>1, <3>3, FormatFacts, OrderLengths
        <4> HIDE DEF o, f
        <4>3. Len(f.order) = 8
          BY <4>2 DEF Names
        <4> QED
          BY <4>1, <4>2, <4>3
      <3> QED
        BY <2>5, <3>1, <3>2, <3>3
    <2>8. ~(f.family = "LONG" /\ f.order = CDAB) => o = f.order
      BY DEF ReadOrder
    <2> HIDE DEF f, o, byte
    <2>9. \A n \in 1..Len(o) : o[n] \in 1..Len(o)
      BY <2>7 DEF Names
    <2>10. Pick(v.b, o) = [n \in 1..Len(o) |-> byte(o[n])]
      BY <2>2, <2>7, <2>9 DEF Pick
    <2>11. val.b = [n \in 1..Len(o) |-> byte(o[n])]
      BY <2>6, <2>10
    <2>12. Len(val.b) = Len(f.order)
      BY <2>7, <2>11
    <2>13. ASSUME NEW n \in 1..Len(f.order)
           PROVE  \E m \in 1..Len(f.order) : val.b[m] = byte(n)
      <3>1. PICK m \in 1..Len(f.order) : o[m] = n
        BY <2>7 DEF Names
      <3>2. val.b[m] = byte(n)
        BY <2>7, <2>11, <3>1
      <3> QED
        BY <3>2
    <2>14. ~(f.family = "LONG" /\ f.order = CDAB) =>
             val.b = [n \in 1..Len(f.order) |-> byte(f.order[n])]
      BY <2>8, <2>11
    <2> QED
      BY <2>12, <2>13, <2>14 DEF f, byte
  <1> QED
    BY <1>1, Invariance, PTL

\* Whether a driver's value ends as a number, by its Go type.
LEMMA NumericFacts ==
  ASSUME IInv, NEW v, v = Handed(point.format, raw)
  PROVE  ~Numeric(ParseAndCastFormat(point.format, v)) <=>
           \/ raw.go \in {"nil", "bool", "other"}
           \/ raw.go = "string" /\ raw.sem # "number"
           \/ raw.go = "[]byte" /\ (~Decodes \/ point.format.family = "INT")
           \/ raw.go \in {"uint16", "uint32"} /\ point.format.family = "FLOAT" /\ ~Decodes
           \/ raw.go = "uint16" /\ point.format.family = "UINT"
           \/ raw.go = "uint" /\ point.format.family \notin {"INT", "UINT"}
  <1> DEFINE f == point.format
             p == ParseAndCastFormat(f, v)
  <1>1. f \in Formats /\ raw \in Raws /\ IsValue(raw) /\ IsValue(v)
    BY RawFacts, DecodesFacts DEF IInv, Points
  <1>2. raw.go \in {"nil", "bool", "other", "string", "[]byte", "int", "int32", "int64", "uint",
                    "uint16", "uint32", "uint64", "float32", "float64"}
    BY <1>1, RawFacts
  <1>3. /\ v.go = "[]byte" => (Decodes <=> Parses(f, v.b))
        /\ Decodes => v.go = "[]byte"
    BY DecodesFacts
  <1> HIDE DEF f
  <1>4. CASE f.family = "FLOAT" /\ raw.go \in {"uint16", "uint32"}
    <2>1. v.go = "[]byte"
      BY <1>1, <1>4, BytesFacts DEF Handed, f
    <2>2. CASE Decodes
      <3>1. p = ParseFormat(f, v) /\ Parses(f, v.b)
        BY <1>1, <1>3, <2>1, <2>2, ParsedFacts
      <3>2. p.go \in {"int32", "float32", "float64", "uint16"}
        BY <1>1, <1>4, <3>1, ParseFormatFacts
      <3> HIDE DEF p
      <3>3. Numeric(p)
        BY <3>2 DEF Numeric
      <3> QED
        BY <1>4, <2>2, <3>3 DEF f, p
    <2>3. CASE ~Decodes
      <3>1. p = v
        BY <1>1, <1>3, <2>1, <2>3, ParsedFacts
      <3> HIDE DEF p
      <3>2. ~Numeric(p)
        BY <2>1, <3>1 DEF Numeric
      <3> QED
        BY <1>4, <2>3, <3>2 DEF f, p
    <2> QED
      BY <2>2, <2>3
  <1>5. CASE ~(f.family = "FLOAT" /\ raw.go \in {"uint16", "uint32"})
    <2>1. v = raw
      BY <1>5 DEF Handed, f
    <2>2. CASE raw.go = "[]byte" /\ Decodes
      <3>1. p = ParseFormat(f, v) /\ Parses(f, v.b)
        BY <1>1, <1>3, <2>1, <2>2, ParsedFacts
      <3>2. /\ p.go \in {"int32", "float32", "float64", "uint16"} <=> f.family # "INT"
            /\ f.family = "INT" => p.go = "int16"
        BY <1>1, <3>1, ParseFormatFacts
      <3> HIDE DEF p
      <3>3. Numeric(p) <=> f.family # "INT"
        BY <3>2 DEF Numeric
      <3> QED
        BY <2>2, <3>3 DEF f, p
    <2>3. CASE raw.go = "[]byte" /\ ~Decodes
      <3>1. p = v
        BY <1>1, <1>3, <2>1, <2>3, ParsedFacts
      <3> HIDE DEF p
      <3>2. ~Numeric(p)
        BY <2>1, <2>3, <3>1 DEF Numeric
      <3> QED
        BY <2>3, <3>2 DEF f, p
    <2>4. CASE raw.go \in {"int", "uint16", "uint"}
      <3>1. PICK g, s, b : v = [go |-> g, sem |-> s, b |-> b]
        BY <1>1 DEF IsValue, IsRecord
      <3>2. v.go = raw.go /\ v.go # "int16" /\ v.go # "[]byte"
        BY <2>1, <2>4
      <3>3. CASE f.family = "INT"
        <4>1. p = [v EXCEPT !.go = "int", !.sem = "int16", !.b = Low16(v.b)]
          BY <1>1, <2>4, <3>2, <3>3, ParsedFacts
        <4>2. p.go = "int"
          BY <3>1, <4>1
        <4> HIDE DEF p
        <4>3. Numeric(p)
          BY <4>2 DEF Numeric
        <4> QED
          BY <2>4, <3>3, <4>3 DEF f, p
      <3>4. CASE f.family = "UINT" /\ raw.go = "uint16"
        <4>1. p = [v EXCEPT !.go = "uint"]
          BY <1>1, <3>2, <3>4, ParsedFacts
        <4>2. p.go = "uint"
          BY <3>1, <4>1
        <4> HIDE DEF p
        <4>3. ~Numeric(p)
          BY <4>2 DEF Numeric
        <4> QED
          BY <2>4, <3>4, <4>3 DEF f, p
      <3>5. CASE f.family = "UINT" /\ raw.go = "uint"
        <4>1. v.go = "uint" /\ f.family = "UINT"
          BY <3>2, <3>5
        <4>4. p = [v EXCEPT !.go = "uint16", !.sem = "uint16", !.b = Low16(v.b)]
          BY <1>1, <3>2, <4>1, ParsedFacts
        <4>2. p.go = "uint16"
          BY <3>1, <4>4
        <4> HIDE DEF p
        <4>3. Numeric(p)
          BY <4>2 DEF Numeric
        <4> QED
          BY <2>4, <3>5, <4>3 DEF f, p
      <3>6. CASE f.family \notin {"INT", "UINT"} \/ (f.family = "UINT" /\ raw.go = "int")
        <4>1. p = v
          BY <1>1, <2>4, <3>2, <3>6, ParsedFacts
        <4> HIDE DEF p
        <4>2. Numeric(p) <=> raw.go # "uint"
          BY <2>4, <3>2, <4>1 DEF Numeric
        <4> QED
          BY <1>5, <2>4, <3>6, <4>2 DEF f, p
      <3>7. \/ f.family = "INT"
            \/ f.family = "UINT" /\ raw.go = "uint16"
            \/ f.family = "UINT" /\ raw.go = "uint"
            \/ f.family \notin {"INT", "UINT"} \/ (f.family = "UINT" /\ raw.go = "int")
        BY <2>4
      <3> QED
        BY <3>3, <3>4, <3>5, <3>6, <3>7
    <2>5. CASE raw.go \in {"nil", "bool", "other", "string", "int32", "int64", "uint32", "uint64",
                           "float32", "float64"}
      <3>1. p = raw
        BY <1>1, <2>1, <2>5, ParsedFacts
      <3> HIDE DEF p
      <3>2. Numeric(p) <=> ~(raw.go \in {"nil", "bool", "other"} \/ (raw.go = "string" /\ raw.sem # "number"))
        <4>1. CASE raw.go = "string"
          BY <3>1, <4>1 DEF Numeric
        <4>2. CASE raw.go \in {"nil", "bool", "other"}
          BY <3>1, <4>2 DEF Numeric
        <4>3. CASE raw.go \in {"int32", "int64", "uint32", "uint64", "float32", "float64"}
          BY <3>1, <4>3 DEF Numeric
        <4> QED
          BY <2>5, <4>1, <4>2, <4>3
      <3>3. raw.go \notin {"[]byte", "uint16", "uint"}
            /\ ~(raw.go \in {"uint16", "uint32"} /\ f.family = "FLOAT")
        BY <1>5, <2>5
      <3> QED
        BY <3>2, <3>3 DEF f, p
    <2> QED
      BY <1>2, <2>2, <2>3, <2>4, <2>5
  <1> QED
    BY <1>4, <1>5

\* A point of type float is reported as a float64 unless its value is not a
\* number or has a Go type main.go's conversion leaves out (main.go:451).
THEOREM FloatsConverted == Spec => []FloatUnless
  <1>1. IInv => FloatUnless
    <2> SUFFICES ASSUME IInv, stage = "done", point.type = "float"
                 PROVE  FloatUnless
      BY DEF FloatUnless
    <2> DEFINE v == Handed(point.format, raw)
               p == ParseAndCastFormat(point.format, v)
    <2>1. val = Converted("float", p)
      BY DoneFacts
    <2>2. IsRecord(p)
      <3>1. point.format \in Formats /\ IsValue(v)
        BY DecodesFacts DEF IInv, Points
      <3>2. v.go # "int16"
        <4>1. raw \in Raws
          BY DEF IInv
        <4> QED
          BY <4>1, RawFacts, BytesFacts DEF Handed
      <3> QED
        BY <3>1, <3>2, ParsedIsRecord
    <2> HIDE DEF p
    <2>3. val.go = "float64" <=> Numeric(p)
      BY <2>1, <2>2, ConvertedFacts
    <2> QED
      BY <2>3, NumericFacts DEF FloatUnless, p
  <1> QED
    BY <1>1, Invariance, PTL
=============================================================================
