---------------------------- MODULE PointPipeline ----------------------------
(***************************************************************************)
(* What main.go does to one value between the driver and the report: adapt *)
(* it to the point's Format, parse it (utils/format_parser.go), apply      *)
(* Transform, convert it to Type.                                          *)
(*                                                                         *)
(* A value is [go, sem, b]: its Go type, how its bits are read, and its    *)
(* bytes from the most significant one.  A byte is its place 1..8 in what  *)
(* the device sent, or 0 for a byte filled in.  The numbers themselves do  *)
(* not matter.                                                             *)
(***************************************************************************)
EXTENDS Integers, Sequences

CONSTANTS
  Raws      \* values as drivers return them from ReadBatch

\* The Go types of the drivers' values, "other" for those the pipeline has no case
\* for: the []bool, ObjectID, lists and maps of BACnet's init_value and writes.  None
\* is the []uint16 that main.go also looks for, nor an int16.
ASSUME RawsAssumption ==
  \A r \in Raws :
    /\ r \in [go : {"nil", "bool", "other", "string", "[]byte", "int", "int32", "int64", "uint",
                   "uint16", "uint32", "uint64", "float32", "float64"},
              sem : STRING, b : Seq(Nat)]
    /\ r.go = "uint16" => Len(r.b) = 2
    /\ r.go = "uint32" => Len(r.b) = 4

\* A Format: its family, the byte order its name spells, and whether it is
\* written with the exact letters of the constant (ParseFormat compares the
\* name as it is, the rest of the pipeline in upper case).
NoFormat == [family |-> "none", order |-> <<>>, exact |-> TRUE]

ABCD == <<1, 2, 3, 4>>
CDAB == <<3, 4, 1, 2>>
BADC == <<2, 1, 4, 3>>
DCBA == <<4, 3, 2, 1>>
Orders ==
  [INT |-> {<<1, 2>>}, UINT |-> {<<1, 2>>},
   LONG |-> {ABCD, CDAB, BADC, DCBA}, FLOAT |-> {ABCD, CDAB, BADC, DCBA},
   DOUBLE |-> {<<1, 2, 3, 4, 5, 6, 7, 8>>, <<7, 8, 5, 6, 3, 4, 1, 2>>,
               <<2, 1, 4, 3, 6, 5, 8, 7>>, <<8, 7, 6, 5, 4, 3, 2, 1>>}]

Formats ==
  {NoFormat} \cup
  UNION {[family : {f}, order : Orders[f], exact : BOOLEAN] : f \in DOMAIN Orders}

Points == [format : Formats, type : {"float", "int", "other"}, transform : BOOLEAN]

VARIABLES
  point,   \* the point's configuration
  raw,     \* the driver's value
  val,     \* val in the loop over values
  stage    \* "adapt", "format", "transform", "type", "done"

vars == <<point, raw, val, stage>>

Init ==
  /\ point \in Points
  /\ raw \in Raws
  /\ val = raw
  /\ stage = "adapt"

(***************************************************************************)
(* Words and numbers become bytes where the Format is a float or a double. *)
(***************************************************************************)
Bytes(v, b) == [v EXCEPT !.go = "[]byte", !.sem = "[]byte", !.b = b]

Adapted(f, v) ==
  CASE v.go = "[]uint16" /\ Len(v.b) = 4 /\ f.family = "FLOAT" -> Bytes(v, v.b)
    [] v.go = "[]uint16" /\ Len(v.b) = 8 /\ f.family = "DOUBLE" -> Bytes(v, v.b)
    [] v.go = "uint32" /\ f.family = "FLOAT" -> Bytes(v, v.b)
    [] v.go \in {"uint16", "[]uint16"} /\ Len(v.b) = 2 /\ f.family = "FLOAT"
         -> Bytes(v, v.b \o <<0, 0>>)
    [] OTHER -> v

(***************************************************************************)
(* ParseFormat on bytes.  BE and LE are binary.BigEndian and LittleEndian: *)
(* the bytes of a number from the most significant one.                    *)
(***************************************************************************)
Pick(b, order) == [n \in 1..Len(order) |-> b[order[n]]]
BE(b) == b
LE(b) == [n \in 1..Len(b) |-> b[Len(b) + 1 - n]]

\* Mutant of Decode: two letters of a double are swapped.
DecodeSwapped(f, b) ==
  CASE f.family = "LONG" /\ f.order = CDAB -> LE(Pick(b, CDAB))
    [] f.family = "DOUBLE" /\ f.order[1] = 7 -> BE(Pick(b, <<7, 8, 5, 6, 1, 2, 3, 4>>))
    [] OTHER -> BE(Pick(b, f.order))

\* One case per format of the code.  "Long CD AB" swaps the words and then
\* reads them in little endian.
Decode(f, b) ==
  CASE f.family = "LONG" /\ f.order = CDAB -> LE(Pick(b, CDAB))
    [] f.order = DCBA -> LE(Pick(b, ABCD))
    [] f.family = "DOUBLE" /\ f.order[1] = 8 -> LE(Pick(b, <<1, 2, 3, 4, 5, 6, 7, 8>>))
    [] OTHER -> BE(Pick(b, f.order))

GoType == [INT |-> "int16", UINT |-> "uint16", LONG |-> "int32",
           FLOAT |-> "float32", DOUBLE |-> "float64"]

\* An unknown name, or too few bytes, is an error.
Parses(f, b) == f.exact /\ f.family \in DOMAIN Orders /\ Len(b) >= Len(f.order)

ParseFormat(f, v) ==
  [v EXCEPT !.go = GoType[f.family], !.sem = GoType[f.family], !.b = Decode(f, v.b)]

Low16(b) == SubSeq(b, Len(b) - 1, Len(b))

\* Mutant of ParseAndCastFormat: UINT is not told from INT.
CastsSigned(f, v) ==
  CASE f.family \in {"INT", "UINT"} /\ v.go \in {"int16", "int", "uint16", "uint"}
         -> [v EXCEPT !.go = "int", !.sem = "int16", !.b = Low16(v.b)]
    [] v.go = "[]byte" /\ Parses(f, v.b) -> ParseFormat(f, v)
    [] OTHER -> v

\* ParseAndCastFormat; main.go keeps the value when it returns an error.
ParseAndCastFormat(f, v) ==
  CASE f.family = "INT" /\ v.go \in {"int16", "int", "uint16", "uint"}
         -> [v EXCEPT !.go = "int", !.sem = "int16", !.b = Low16(v.b)]
    [] f.family = "UINT" /\ v.go = "uint16" -> [v EXCEPT !.go = "uint"]
    [] f.family = "UINT" /\ v.go = "uint"
         -> [v EXCEPT !.go = "uint16", !.sem = "uint16", !.b = Low16(v.b)]
    [] v.go = "[]byte" /\ Parses(f, v.b) -> ParseFormat(f, v)
    [] OTHER -> v

(***************************************************************************)
(* Transform and Type                                                      *)
(***************************************************************************)

\* The types parseTransform and the conversion to float take.
Numeric(v) ==
  \/ v.go \in {"int", "int32", "int64", "float32", "float64", "uint16", "uint32", "uint64"}
  \/ v.go = "string" /\ v.sem = "number"

Converted(type, v) ==
  CASE type = "float" /\ Numeric(v) -> [v EXCEPT !.go = "float64"]
    [] type = "int" /\ Numeric(v) /\ v.go \in {"float32", "float64", "string"}
         -> [v EXCEPT !.go = "int"]
    [] OTHER -> v

Adapt ==
  /\ stage = "adapt"
  /\ val' = Adapted(point.format, val)
  /\ stage' = "format"
  /\ UNCHANGED <<point, raw>>

Format ==
  /\ stage = "format"
  /\ val' = ParseAndCastFormat(point.format, val)
  /\ stage' = "transform"
  /\ UNCHANGED <<point, raw>>

\* val, err := parseTransform(...) declares a val of the inner block: the outer
\* one, which is reported, keeps its value.
Transform ==
  /\ stage = "transform"
  /\ stage' = "type"
  /\ UNCHANGED <<point, raw, val>>

Type ==
  /\ stage = "type"
  /\ val' = Converted(point.type, val)
  /\ stage' = "done"
  /\ UNCHANGED <<point, raw>>

Next == Adapt \/ Format \/ Transform \/ Type

Spec == Init /\ [][Next]_vars

(***************************************************************************)
(* Properties                                                              *)
(***************************************************************************)

\* Whether the value reaches ParseFormat as enough bytes: an octet string, or a
\* number that a FLOAT format turns into bytes.
Decodes ==
  LET f == point.format
      n == IF raw.go = "[]byte" THEN Len(raw.b)
           ELSE IF f.family = "FLOAT" /\ raw.go \in {"uint16", "uint32"} THEN 4 ELSE 0
  IN  f.family # "none" /\ f.exact /\ n >= Len(f.order)

\* format_parser.go:11: the value of a point without Transform that is decoded is
\* reported with every byte its Format reads, none lost and none put in for another,
\* with zeros for the second register of a float, which is never read, and in the
\* order the Format's name spells.  Of the order of "Long CD AB" nothing is said: the
\* code reads it as "Long BA DC".
NamedOrder ==
  (stage = "done" /\ Decodes /\ ~point.transform) =>
    LET f == point.format
        byte(n) == IF n > Len(raw.b) THEN 0 ELSE raw.b[n]
    IN  /\ Len(val.b) = Len(f.order)
        /\ \A n \in 1..Len(f.order) : \E m \in 1..Len(f.order) : val.b[m] = byte(n)
        /\ ~(f.family = "LONG" /\ f.order = CDAB) =>
             val.b = [n \in 1..Len(f.order) |-> byte(f.order[n])]

\* main.go:451: a point of type float is reported as a float64, the only type
\* the aggregate rules take, unless it cannot be a number (null, bool, text,
\* lists, bytes that were not decoded) or has a Go type the conversion leaves out: the
\* uint of UINT registers and of SNMP counters, the int16 of decoded INT bytes.
FloatUnless ==
  (stage = "done" /\ point.type = "float") =>
    (val.go # "float64" <=>
       \/ raw.go \in {"nil", "bool", "other"}
       \/ raw.go = "string" /\ raw.sem # "number"
       \/ raw.go = "[]byte" /\ (~Decodes \/ point.format.family = "INT")
       \/ raw.go \in {"uint16", "uint32"} /\ point.format.family = "FLOAT" /\ ~Decodes
       \/ raw.go = "uint16" /\ point.format.family = "UINT"
       \/ raw.go = "uint" /\ point.format.family \notin {"INT", "UINT"})

\* The inductive invariant: val is what the stages up to this one make of raw.
StageInv ==
  LET adapted == Adapted(point.format, raw)
      parsed == ParseAndCastFormat(point.format, adapted)
  IN  /\ stage = "adapt" => val = raw
      /\ stage = "format" => val = adapted
      /\ stage \in {"transform", "type"} => val = parsed
      /\ stage = "done" => val = Converted(point.type, parsed)

IInv == point \in Points /\ raw \in Raws /\ StageInv
=============================================================================
