------------------------------ MODULE XdrCopyObjects ------------------------------
(***************************************************************************)
(* What XdrCopy promises of whole objects, whose types and values are      *)
(* followed down to the last block: where their pointers are, and how many *)
(* bytes they take.                                                        *)
(***************************************************************************)
EXTENDS XdrCopy

\* The pointers of an object that are not NULL, by their place.
RECURSIVE Pointers(_, _, _)
Pointers(type, o, place) ==
  LET fields == FieldsOf([type |-> type, obj |-> o])
      of(i) ==
        LET f == fields[i]
            p == o[f.name]
            here == Append(place, i)
        IN IF f.name \notin DOMAIN o THEN {}
           ELSE CASE f.rel = "alias" -> Pointers(f.type, p, here)
                  [] f.rel = "opaque" -> {}
                  [] f.rel = "vector" -> UNION { Pointers(f.type, p[k], Append(here, k)) : k \in DOMAIN p }
                  [] OTHER -> IF p = << >> THEN {}
                              ELSE {here} \cup
                                (CASE f.rel = "array" ->
                                        UNION { Pointers(f.type, p[k], Append(here, k)) : k \in DOMAIN p }
                                   [] f.rel = "pointer" -> Pointers(f.type, p[1], Append(here, 1))
                                   [] OTHER -> {})
  IN IF type \in Scalars THEN {} ELSE UNION { of(i) : i \in DOMAIN fields }

(***************************************************************************)
(* Whatever fails - the buffer ends, a length or a discriminant is wrong,  *)
(* memory runs out - the blocks that decoding allocated are those the      *)
(* object points to, so the caller can free them.                          *)
(***************************************************************************)
HeapIsObject ==
  frames = << >> /\ ~Encoding => heap = Pointers(main, val, << >>)

\* The bytes an object takes on the stream; nothing when a long in it is too
\* big, a counted field too long or a discriminant without an arm.
RECURSIVE Length(_, _)
Length(type, o) ==
  LET fields == FieldsOf([type |-> type, obj |-> o])
      sum[i \in 0..Len(fields)] ==
        IF i = 0 THEN {0}
        ELSE LET f == fields[i]
                 p == o[f.name]
                 all[k \in 0..Len(p)] ==
                   IF k = 0 THEN {0} ELSE { a + b : a \in all[k - 1], b \in Length(f.type, p[k]) }
                 this ==
                   CASE f.rel = "alias" -> Length(f.type, p)
                     [] f.rel = "opaque" -> {Padded(f.max)}
                     [] f.rel = "string" -> IF Len(p[1]) > f.max THEN {} ELSE {Unit + Padded(Len(p[1]))}
                     [] f.rel = "bytes" -> IF Len(p) > f.max THEN {} ELSE {Unit + Padded(Len(p))}
                     [] f.rel = "array" -> IF Len(p) > f.max THEN {} ELSE { Unit + n : n \in all[Len(p)] }
                     [] f.rel = "pointer" -> { Unit + n : n \in all[Len(p)] }
                     [] f.rel = "vector" -> all[Len(p)]
             IN { a + b : a \in sum[i - 1], b \in this }
  IN IF type \in Scalars
       THEN IF Encodable(type, o) THEN {Unit * Len(ToWords(type, o))} ELSE {}
     ELSE IF ~Done([type |-> type, obj |-> o]) THEN {}
     ELSE sum[Len(fields)]

(***************************************************************************)
(* An object is encoded exactly when it can be and is shorter than the     *)
(* buffer (xdr_copy wants a byte to spare).                                *)
(***************************************************************************)
EncodesWhatFits ==
  x_op = "done" /\ ~foreign => (encoded = "true" <=> \E n \in Length(main, src) : n > 0 /\ n < size)
=============================================================================
