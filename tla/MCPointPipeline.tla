--------------------------- MODULE MCPointPipeline ---------------------------
(***************************************************************************)
(* The values the drivers return from ReadBatch: a Modbus register, a bit, *)
(* the int of a TCP or SLMP reply, BACnet's floats, strings, bit strings   *)
(* and object ids, and what gosnmp decodes (int, uint, uint32, uint64,     *)
(* octet strings, text).                                                   *)
(***************************************************************************)
EXTENDS PointPipeline

Value(go, sem, n) == [go |-> go, sem |-> sem, b |-> [i \in 1..n |-> i]]

MCRaws ==
  {Value("uint16", "uint16", 2), Value("bool", "bool", 1), Value("nil", "nil", 0),
   Value("int", "int", 4), Value("int", "int", 2), Value("float64", "float64", 8),
   Value("string", "number", 4), Value("string", "text", 4), Value("uint", "uint", 4),
   Value("uint32", "uint32", 4), Value("other", "[]bool", 2), Value("other", "ObjectID", 8),
   Value("uint64", "uint64", 8)}
  \cup {Value("[]byte", "[]byte", n) : n \in 0..9}
=============================================================================
