------------------------------- MODULE XdrScalar -------------------------------
(***************************************************************************)
(* The base types of the library (xdr.c, xdr_intXX_t.c, xdr_float.c) on a  *)
(* stream of 32-bit words.  A value is the natural number its bits make; a *)
(* signed one is a negative number when its top bit is set.                *)
(***************************************************************************)
EXTENDS Integers, Sequences

CONSTANT IntBits      \* width of an int and of a word of the stream: 32

ASSUME IntAssumption == IntBits \in { 4 * n : n \in 1..8 }

LongBits == 2 * IntBits

\* Width of each type in memory; a long and a quad_t are both 64 bits.
Bits ==
  [char   |-> IntBits \div 4, u_char  |-> IntBits \div 4,
   int8   |-> IntBits \div 4, uint8   |-> IntBits \div 4,
   short  |-> IntBits \div 2, u_short |-> IntBits \div 2,
   int16  |-> IntBits \div 2, uint16  |-> IntBits \div 2,
   int    |-> IntBits,        u_int   |-> IntBits,
   int32  |-> IntBits,        uint32  |-> IntBits,
   enum   |-> IntBits,        bool    |-> 1,
   float  |-> IntBits,        double  |-> LongBits,
   long   |-> LongBits,       u_long  |-> LongBits,
   hyper  |-> LongBits,       u_hyper |-> LongBits,
   int64  |-> LongBits,       uint64  |-> LongBits]

Scalars == DOMAIN Bits
Signed == {"char", "int8", "short", "int16", "int", "int32", "enum", "float", "long"}
Wide == {"hyper", "u_hyper", "int64", "uint64", "double"}

SignExtend(v, from, to) ==
  IF v >= 2 ^ (from - 1) THEN v + 2 ^ to - 2 ^ from ELSE v

\* x_getlong: the word as an int32_t, converted to long.
GetLong(word) == SignExtend(word, IntBits, LongBits)

\* x_putlong writes the low half of a long, x_putint32 all of its argument.
PutLong(long) == long % 2 ^ IntBits

\* xdr_long and xdr_u_long refuse a value that a word does not hold.
Encodable(type, v) ==
  /\ type = "long" => GetLong(PutLong(v)) = v
  /\ type = "u_long" => PutLong(v) = v

ToWords(type, v) ==
  IF type \in Wide THEN <<v \div 2 ^ IntBits, PutLong(v)>>
  ELSE IF type \in Signed THEN <<PutLong(SignExtend(v, Bits[type], LongBits))>>
  ELSE <<PutLong(v)>>

\* xdr_hyper and xdr_u_hyper: `t1' and `t2' are longs, joined by |.
Hyper(t1, t2) ==
  IF t2 < 2 ^ IntBits THEN ((t1 * 2 ^ IntBits) % 2 ^ LongBits) + t2 ELSE t2

\* Mutant: `t2' is signed.
MutantInt64(t1, t2) == Hyper(t1, GetLong(t2))

\* xdr_int64_t and xdr_uint64_t: `t1' and `t2' are 32 bits, `t2' unsigned.
Int64(t1, t2) == t1 * 2 ^ IntBits + t2

FromWords(type, words) ==
  CASE type \in {"int64", "uint64", "double"} -> Int64(words[1], words[2])
    [] type \in {"hyper", "u_hyper"} -> Hyper(GetLong(words[1]), GetLong(words[2]))
    [] type = "u_long" -> words[1]
    [] type = "bool" -> IF words[1] = 0 THEN 0 ELSE 1
    [] OTHER -> GetLong(words[1]) % 2 ^ Bits[type]
=============================================================================
