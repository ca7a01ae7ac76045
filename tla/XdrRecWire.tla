----------------------------- MODULE XdrRecWire -----------------------------
(***************************************************************************)
(* The byte stream below xdr_rec.c: what a record-marking stream puts on   *)
(* the connection its writeit and readit callbacks reach, and the format   *)
(* of the fragments in it.  XdrRecOut (the ENCODE half of a RECSTREAM) and *)
(* XdrRecIn (the DECODE half) extend this module.                          *)
(*                                                                         *)
(* A byte is abstracted to what it stands for.  A payload byte carries its *)
(* number k, counted from 1 over everything the caller encoded, so losing, *)
(* duplicating, reordering or inventing a byte is visible.  A header byte  *)
(* is the at-th byte of the Unit-byte big-endian word `len | LAST_FRAG':   *)
(* the word can be read back only from its Unit bytes, in order.           *)
(***************************************************************************)
EXTENDS Integers, Sequences, FiniteSets

CONSTANT Unit                       \* BYTES_PER_XDR_UNIT: 4 in the source

ASSUME UnitAssumption == Unit \in Nat \ {0}

VARIABLES wire,                     \* every byte the connection accepted
          open                      \* FALSE once the writer closed it

wireVars == <<wire, open>>
-----------------------------------------------------------------------------
Aligned(n) == n % Unit = 0

\* RNDUP of rpc/xdr.h: n rounded up to a whole number of units.
RNDUP(n) == Unit * ((n + Unit - 1) \div Unit)

MinOf(a, b) == IF a < b THEN a ELSE b

Payload(k) == [kind |-> "payload", k |-> k]
Junk == Payload(0)                  \* a buffer byte nobody has written yet

HeaderByte(last, len, at) ==
  [kind |-> "header", last |-> last, len |-> len, at |-> at]

Header(last, len) == [at \in 1..Unit |-> HeaderByte(last, len, at)]

Cell == [kind : {"payload"}, k : Nat]
          \cup [kind : {"header"}, last : BOOLEAN, len : Nat, at : 1..Unit]

IsPayload(c) == c.kind = "payload"

\* ntohl of Unit bytes that are one header word, in order.
IsHeader(s) == /\ s[1].kind = "header"
               /\ s = Header(s[1].last, s[1].len)
-----------------------------------------------------------------------------
(***************************************************************************)
(* A reference reading of a stream, used by the properties and by what     *)
(* they say of the reader.  It does not run the decoder: it says where the *)
(* fragments are, how they tile the stream, and counts.                    *)
(***************************************************************************)

\* The positions at which a fragment begins, and its last byte.
Heads(s) == {i \in 1..Len(s) : s[i].kind = "header" /\ s[i].at = 1}
FragmentEnd(s, i) == i + Unit - 1 + s[i].len

\* From the first byte on, s is fragments; the last may be cut off.
Framed(s) ==
  /\ s # << >> => 1 \in Heads(s)
  /\ \A i \in Heads(s), j \in 1..Len(s) :
       /\ j \in i..(i + Unit - 1) => s[j] = HeaderByte(s[i].last, s[i].len, j - i + 1)
       /\ j \in (i + Unit)..FragmentEnd(s, i) => IsPayload(s[j])
       /\ j = FragmentEnd(s, i) + 1 => j \in Heads(s)

\* No fragment of it is cut off.
Whole(s) == Framed(s) /\ \A i \in Heads(s) : FragmentEnd(s, i) <= Len(s)

\* Among the first p bytes: the payload, and the records that have ended.
PayloadCount(s, p) == Cardinality({j \in 1..p : IsPayload(s[j])})
Records(s, p) == Cardinality({i \in Heads(s) : s[i].last /\ FragmentEnd(s, i) <= p})

\* The payload of s is numbered from base + 1, once and in order.
NumberedFrom(s, base) ==
  \A i \in 1..Len(s) : IsPayload(s[i]) => s[i] = Payload(base + PayloadCount(s, i))

\* The r-th record of s ends behind payload byte es[r], for every r.
RecordsEndAt(s, es) ==
  /\ Records(s, Len(s)) = Len(es)
  /\ \A i \in Heads(s) :
       s[i].last => es[Records(s, FragmentEnd(s, i))] = PayloadCount(s, FragmentEnd(s, i))

\* The offsets (bytes before them) between fragments, and between records.
FragmentEnds(s) == {0} \cup { FragmentEnd(s, i) : i \in Heads(s) }
RecordStarts(s) == {0} \cup { FragmentEnd(s, i) : i \in {h \in Heads(s) : s[h].last} }
=============================================================================
