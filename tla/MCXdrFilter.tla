------------------------------ MODULE MCXdrFilter ------------------------------
(***************************************************************************)
(* Small .x files and their objects for XdrFilter.  Characters are codes;  *)
(* 32 is the space.                                                        *)
(***************************************************************************)
EXTENDS XdrFilter

Alias(name, type)   == [name |-> name, rel |-> "alias",   type |-> type, len |-> 0]
Pointer(name, type) == [name |-> name, rel |-> "pointer", type |-> type, len |-> 0]
Array(name, type)   == [name |-> name, rel |-> "array",   type |-> type, len |-> 0]
Vector(name, type, n) == [name |-> name, rel |-> "vector", type |-> type, len |-> n]

Struct(fields) == [kind |-> "struct", fields |-> fields]
Union(tag, arms, default) ==
  [kind |-> "union", tag |-> tag, arms |-> arms, default |-> default]

(***************************************************************************)
(* A linked list, a union with an array, a void and a default arm, an      *)
(* array of structures, a type XML does not support, fixed-length arrays.  *)
(***************************************************************************)
TestDefs ==
  [person |-> Struct(<<Alias("name", "string"), Pointer("next", "person")>>),
   shape  |-> Union(Alias("kind", "int"),
                    (1 :> <<Array("dots", "int")>>) @@ (2 :> << >>),
                    << <<Alias("name", "string")>> >>),
   record |-> Struct(<<Pointer("next", "person"), Alias("kind", "shape"),
                       Array("dots", "person")>>),
   mixed  |-> Struct(<<Array("dots", "big"), Pointer("next", "big"), Alias("kind", "big")>>),
   big    |-> Struct(<<Alias("name", "hyper")>>),
   fixed  |-> Struct(<<Vector("dots", "int", 2), Vector("next", "person", 1),
                       Vector("kind", "big", 1)>>),
   single |-> Struct(<<Vector("dots", "int", 1), Vector("next", "person", 1)>>)]

Strings == {<<>>, <<7>>, <<7, 32, 7>>}

Persons(n) ==
  LET of[d \in 0..n] ==
        IF d = 0 THEN {}
        ELSE [name : Strings, next : {<< >>} \cup { <<p>> : p \in of[d - 1] }]
  IN of[n]

Shapes == [kind : {1}, dots : UNION { [1..n -> {3, 12}] : n \in 0..2 }]
          \cup [kind : {2}] \cup [kind : {3}, name : Strings]

Pairs(type, set) == { [type |-> type, obj |-> o] : o \in set }

TestObjects ==
  Pairs("person", Persons(3))
  \cup Pairs("record",
         [next : {<< >>} \cup { <<p>> : p \in Persons(1) },
          kind : Shapes,
          dots : UNION { [1..n -> Persons(1)] : n \in 0..2 }])
  \* The elements of a longer array run together in XML (xdr_array.c:176).
  \cup Pairs("single", [dots : [{1} -> {3, 12}], next : [{1} -> Persons(2)]])

(***************************************************************************)
(* A union without the arm.                                                *)
(***************************************************************************)
ArmlessDefs ==
  [shape  |-> Union(Alias("kind", "int"), (1 :> << >>), << >>),
   record |-> Struct(<<Alias("name", "string"), Pointer("next", "shape")>>)]
=============================================================================
