------------------------------- MODULE MCXdrCopy -------------------------------
(***************************************************************************)
(* Small .x files and their objects for XdrCopy, on words of 4 bits.       *)
(***************************************************************************)
EXTENDS XdrCopyObjects

Of(rel, name, type, max) == [name |-> name, rel |-> rel, type |-> type, max |-> max]
Alias(name, type) == Of("alias", name, type, 0)
Pointer(name, type) == Of("pointer", name, type, 0)

Struct(fields) == [kind |-> "struct", fields |-> fields]
Union(tag, arms, default) ==
  [kind |-> "union", tag |-> tag, arms |-> arms, default |-> default]

\* Every base type in a structure of its own.
Box(type) == "box_" \o type
Boxes(types) ==
  [b \in { Box(t) : t \in types } |-> Struct(<<Alias("value", CHOOSE t \in types : Box(t) = b)>>)]

\* All values of up to a word; of two words those at the boundaries of each half.
Values(type) ==
  IF Bits[type] <= IntBits THEN 0..(2 ^ Bits[type] - 1)
  ELSE { a * 2 ^ IntBits + b : a, b \in {0, 1, UMax \div 2, UMax \div 2 + 1, UMax} }

\* xdr.c:269 and 308 extend the sign of the low half of a hyper: with its top
\* bit set, a hyper comes back with a high half of ones. Those are left out.
Comes(type, v) ==
  type \in {"hyper", "u_hyper"} => v % 2 ^ IntBits <= UMax \div 2

Boxed(types) ==
  UNION { { [type |-> Box(t), obj |-> [value |-> v]] : v \in { w \in Values(t) : Comes(t, w) } }
          : t \in types }

(***************************************************************************)
(* A linked list, a union with owned arms and one without, and a record of *)
(* arrays of them: bounded and unbounded counted fields, opaque data.      *)
(***************************************************************************)
Structures ==
  [person |-> Struct(<<Of("string", "name", "char", UMax), Pointer("next", "person")>>),
   shape  |-> Union(Alias("kind", "int"),
                    (1 :> <<Of("array", "people", "person", UMax)>>) @@ (2 :> << >>)
                      @@ (3 :> <<Of("bytes", "data", "char", 5)>>), << >>),
   choice |-> Union(Alias("kind", "int"), (1 :> << >>), << <<Pointer("next", "person")>> >>),
   record |-> Struct(<<Of("array", "shapes", "shape", 2), Of("vector", "sizes", "short", 2),
                       Of("opaque", "id", "char", 3), Alias("choice", "choice"),
                       Of("bytes", "data", "char", 5)>>)]

TestDefs == Boxes(Scalars) @@ Structures

Strings == { << >>, <<7>>, <<7, 9, 7, 9>> }

Persons(n) ==
  LET of[d \in 0..n] ==
        IF d = 0 THEN {}
        ELSE [name : { <<s>> : s \in Strings }, next : {<< >>} \cup { <<p>> : p \in of[d - 1] }]
  IN of[n]

APerson == [name |-> << <<7>> >>, next |-> << >>]

\* Shapes and data up to one more than the maximum, and a kind without an arm.
Shapes ==
  [kind : {1}, people : { [i \in 1..n |-> APerson] : n \in 0..2 }]
  \cup [kind : {2, 4}] \cup [kind : {3}, data : { [i \in 1..n |-> 5] : n \in {0, 5, 6} }]

ChoiceObjects == [kind : {1}] \cup [kind : {0, 8}, next : {<< >>, <<APerson>>}]

Records ==
  [shapes : {<< >>} \cup { <<s>> : s \in Shapes }
            \cup { <<s, [kind |-> 2]>> : s \in Shapes } \cup { [i \in 1..3 |-> [kind |-> 2]] },
   sizes : {<<1, 2>>}, id : {<<1, 2, 3>>}, choice : ChoiceObjects,
   data : { << >>, <<5, 6, 7>> }]

TestObjects ==
  Boxed(Scalars)
  \cup { [type |-> "person", obj |-> o] : o \in Persons(2) }
  \cup { [type |-> "record", obj |-> o] : o \in Records }
=============================================================================
