---------------------------- MODULE XdrCopy_proofs ----------------------------
(***************************************************************************)
(* Decoded memory is freed, for every .x file, buffer and failure: the     *)
(* blocks allocated are those the object under construction points to,     *)
(* and freeing comes to each of them.                                      *)
(*                                                                         *)
(* The object is in pieces while its filter runs: each call holds what it  *)
(* has decoded or has still to free.  The invariant says which blocks the  *)
(* pieces own, and that no piece has a pointer behind a field that is not  *)
(* there, where freeing it would stop.                                     *)
(***************************************************************************)
EXTENDS XdrCopy, SequenceTheorems, TLAPS

-----------------------------------------------------------------------------
(* Objects.  A node is an object under its filter, or the elements behind a*)
(* pointer or of an array under the loop over them; a frame is one, too.   *)

Node(k, t, o) == [kind |-> k, type |-> t, obj |-> o]
Lists == {"array", "vector", "pointer"}

Stores(x, i) ==
  x.kind = "filter" /\ i \in 1..Len(FieldsOf(x)) /\ FieldsOf(x)[i].name \in DOMAIN x.obj
Slot(x, i) == x.obj[FieldsOf(x)[i].name]

(* A field the filter has not stored; a discriminant that is none.         *)
Absent(x, i) ==
  x.kind = "filter" /\ i \in 1..Len(FieldsOf(x)) /\ FieldsOf(x)[i].name \notin DOMAIN x.obj
NoArm(x) ==
  x.kind = "filter" /\ FieldsOf(x)[1].name \in DOMAIN x.obj /\ ~Done(x)

(* The field d owns a block when it holds v; filters are called for v.     *)
HasBlock(d, v) == d.rel \in {"string", "bytes", "array", "pointer"} /\ v # << >>
HasCalls(d, v) == \/ d.rel = "alias" /\ d.type \notin Scalars
                  \/ d.rel \in {"array", "vector"}
                  \/ d.rel = "pointer" /\ v # << >>
KindOf(d) == IF d.rel = "alias" THEN "filter" ELSE d.rel

Owns(x, i) == Stores(x, i) /\ HasBlock(FieldsOf(x)[i], Slot(x, i))
Opens(x, i) == IF x.kind = "filter" THEN Stores(x, i) /\ HasCalls(FieldsOf(x)[i], Slot(x, i))
               ELSE x.type \notin Scalars /\ i \in 1..Len(x.obj) /\ (x.kind = "pointer" => i = 1)
Inner(x, i) == IF x.kind = "filter" THEN Node(KindOf(FieldsOf(x)[i]), FieldsOf(x)[i].type, Slot(x, i))
               ELSE Node("filter", x.type, x.obj[i])

(* The fields of a node that should hold sequences do.                     *)
IsSeq(o) == \E S : o \in Seq(S)
Even(x) ==
  IF x.kind = "filter"
    THEN /\ \A i \in Nat : Stores(x, i) /\ FieldsOf(x)[i].rel \in Lists => IsSeq(Slot(x, i))
         /\ Defs[x.type].kind = "union" /\ Absent(x, 1) => x.obj = << >>
    ELSE IsSeq(x.obj)

-----------------------------------------------------------------------------
(* Ways through an object.                                                 *)

(* The nodes w on the way that p leads from place k to place m.            *)
Way(w, x, p, k, m) ==
  /\ w[k] = x
  /\ \A i \in k + 1..m : Opens(w[i - 1], p[i]) /\ w[i] = Inner(w[i - 1], p[i])

(* From place k on, p leads through x to a pointer that is not NULL.       *)
Points(x, p, k) ==
  /\ k < Len(p)
  /\ \E w : Way(w, x, p, k, Len(p) - 1) /\ Owns(w[Len(p) - 1], p[Len(p)])

PointsStep(x, p, k) ==
  /\ k < Len(p)
  /\ IF Len(p) = k + 1 THEN Owns(x, p[k + 1])
     ELSE Opens(x, p[k + 1]) /\ Points(Inner(x, p[k + 1]), p, k + 1)

LEMMA PointsIs ==
    ASSUME NEW x, NEW p \in Seq(Nat), NEW k \in Nat
    PROVE  Points(x, p, k) <=> PointsStep(x, p, k)
  <1>0. Len(p) \in Nat
    OBVIOUS
  <1>1. ASSUME Points(x, p, k) PROVE PointsStep(x, p, k)
    <2>1. PICK w : Way(w, x, p, k, Len(p) - 1) /\ Owns(w[Len(p) - 1], p[Len(p)])
      BY <1>1 DEF Points
    <2>2. k < Len(p)
      BY <1>1 DEF Points
    <2>3. CASE Len(p) = k + 1
      <3>1. w[k] = x /\ Owns(w[k], p[k + 1])
        BY <1>0, <2>1, <2>3 DEF Way
      <3> QED
        BY <2>2, <2>3, <3>1 DEF PointsStep
    <2>4. CASE Len(p) # k + 1
      <3>1. k + 1 \in k + 1..Len(p) - 1 /\ k + 1 < Len(p) /\ k + 1 - 1 = k
        BY <1>0, <2>2, <2>4
      <3>2. Opens(x, p[k + 1]) /\ w[k + 1] = Inner(x, p[k + 1])
        BY <2>1, <3>1 DEF Way
      <3>3. Way(w, Inner(x, p[k + 1]), p, k + 1, Len(p) - 1)
        <4>1. \A i \in k + 1 + 1..Len(p) - 1 : i \in k + 1..Len(p) - 1
          BY <1>0
        <4> QED
          BY <2>1, <3>2, <4>1 DEF Way
      <3>4. Points(Inner(x, p[k + 1]), p, k + 1)
        BY <2>1, <3>1, <3>3 DEF Points
      <3> QED
        BY <2>2, <2>4, <3>2, <3>4 DEF PointsStep
    <2> QED
      BY <2>3, <2>4
  <1>2. ASSUME PointsStep(x, p, k) PROVE Points(x, p, k)
    <2>1. k < Len(p)
      BY <1>2 DEF PointsStep
    <2>2. CASE Len(p) = k + 1
      <3> DEFINE w == [i \in {k} |-> x]
      <3>1. w[k] = x
        OBVIOUS
      <3> HIDE DEF w
      <3>2. Way(w, x, p, k, Len(p) - 1)
        <4>1. \A i \in k + 1..Len(p) - 1 : FALSE
          BY <1>0, <2>2
        <4> QED
          BY <3>1, <4>1 DEF Way
      <3>3. Owns(w[Len(p) - 1], p[Len(p)])
        <4>1. Len(p) - 1 = k
          BY <2>2
        <4>2. Owns(x, p[k + 1])
          BY <1>2, <2>2 DEF PointsStep
        <4> QED
          BY <2>2, <3>1, <4>1, <4>2
      <3> QED
        BY <2>1, <3>2, <3>3 DEF Points
    <2>3. CASE Len(p) # k + 1
      <3>1. Opens(x, p[k + 1]) /\ Points(Inner(x, p[k + 1]), p, k + 1)
        BY <1>2, <2>3 DEF PointsStep
      <3>2. PICK v : Way(v, Inner(x, p[k + 1]), p, k + 1, Len(p) - 1) /\ Owns(v[Len(p) - 1], p[Len(p)])
        BY <3>1 DEF Points
      <3> DEFINE w == [i \in k..Len(p) - 1 |-> IF i = k THEN x ELSE v[i]]
      <3>3. w[k] = x /\ \A i \in k + 1..Len(p) - 1 : w[i] = v[i]
        BY <1>0, <2>1
      <3> HIDE DEF w
      <3>4. Way(w, x, p, k, Len(p) - 1)
        <4>1. ASSUME NEW i \in k + 1..Len(p) - 1 PROVE Opens(w[i - 1], p[i]) /\ w[i] = Inner(w[i - 1], p[i])
          <5>1. CASE i = k + 1
            <6>1. w[i] = v[k + 1] /\ w[i - 1] = x
              BY <3>3, <5>1
            <6> QED
              BY <3>1, <3>2, <5>1, <6>1 DEF Way
          <5>2. CASE i # k + 1
            <6>1. i \in k + 1 + 1..Len(p) - 1 /\ i - 1 \in k + 1..Len(p) - 1
              BY <1>0, <5>2
            <6>2. w[i] = v[i] /\ w[i - 1] = v[i - 1]
              BY <3>3, <6>1
            <6> QED
              BY <3>2, <6>1, <6>2 DEF Way
          <5> QED
            BY <5>1, <5>2
        <4> QED
          BY <3>3, <4>1 DEF Way
      <3>5. Len(p) - 1 \in k + 1..Len(p) - 1
        BY <1>0, <2>1, <2>3
      <3> QED
        BY <2>1, <3>2, <3>3, <3>4, <3>5 DEF Points
    <2> QED
      BY <2>2, <2>3
  <1> QED
    BY <1>1, <1>2

(* The nodes below s, s with them.                                         *)
Down(w, s, m) ==
  /\ w[0] = s
  /\ \A j \in 1..m : \E i \in Nat : Opens(w[j - 1], i) /\ w[j] = Inner(w[j - 1], i)
Below(s, x) == \E m \in Nat : \E w : Down(w, s, m) /\ w[m] = x

LEMMA BelowIs ==
    ASSUME NEW s, NEW x
    PROVE  Below(s, x) <=> x = s \/ \E i \in Nat : Opens(s, i) /\ Below(Inner(s, i), x)
  <1>1. ASSUME Below(s, x), x # s PROVE \E i \in Nat : Opens(s, i) /\ Below(Inner(s, i), x)
    <2>1. PICK m \in Nat : \E w : Down(w, s, m) /\ w[m] = x
      BY <1>1 DEF Below
    <2>2. PICK w : Down(w, s, m) /\ w[m] = x
      BY <2>1
    <2>3. m # 0
      BY <1>1, <2>2 DEF Down
    <2>4. PICK i \in Nat : Opens(s, i) /\ w[1] = Inner(s, i)
      <3>1. 1 \in 1..m /\ 1 - 1 = 0
        BY <2>3
      <3> QED
        BY <2>2, <3>1 DEF Down
    <2> DEFINE v == [j \in 0..m - 1 |-> w[j + 1]]
    <2>5. \A j \in 0..m - 1 : v[j] = w[j + 1]
      OBVIOUS
    <2> HIDE DEF v
    <2>6. m - 1 \in Nat /\ v[m - 1] = x
      BY <2>2, <2>3, <2>5
    <2>7. Down(v, Inner(s, i), m - 1)
      <3>1. v[0] = Inner(s, i)
        BY <2>3, <2>4, <2>5
      <3>2. ASSUME NEW j \in 1..m - 1 PROVE \E k \in Nat : Opens(v[j - 1], k) /\ v[j] = Inner(v[j - 1], k)
        <4>1. v[j] = w[j + 1] /\ v[j - 1] = w[j] /\ j + 1 \in 1..m /\ j + 1 - 1 = j
          BY <2>5
        <4> QED
          BY <2>2, <4>1 DEF Down
      <3> QED
        BY <3>1, <3>2 DEF Down
    <2> QED
      BY <2>4, <2>6, <2>7 DEF Below
  <1>2. Below(s, s)
    <2> DEFINE w == [j \in {0} |-> s]
    <2>1. w[0] = s
      OBVIOUS
    <2> HIDE DEF w
    <2>2. Down(w, s, 0)
      BY <2>1 DEF Down
    <2> QED
      BY <2>1, <2>2 DEF Below
  <1>3. ASSUME NEW i \in Nat, Opens(s, i), Below(Inner(s, i), x) PROVE Below(s, x)
    <2>1. PICK m \in Nat : \E v : Down(v, Inner(s, i), m) /\ v[m] = x
      BY <1>3 DEF Below
    <2>2. PICK v : Down(v, Inner(s, i), m) /\ v[m] = x
      BY <2>1
    <2> DEFINE w == [j \in 0..m + 1 |-> IF j = 0 THEN s ELSE v[j - 1]]
    <2>3. w[0] = s /\ \A j \in 1..m + 1 : w[j] = v[j - 1]
      OBVIOUS
    <2> HIDE DEF w
    <2>4. Down(w, s, m + 1)
      <3>1. ASSUME NEW j \in 1..m + 1 PROVE \E k \in Nat : Opens(w[j - 1], k) /\ w[j] = Inner(w[j - 1], k)
        <4>1. CASE j = 1
          <5>1. w[j] = v[0] /\ w[j - 1] = s
            BY <2>3, <4>1
          <5> QED
            BY <1>3, <2>2, <5>1 DEF Down
        <4>2. CASE j # 1
          <5>1. w[j] = v[j - 1] /\ w[j - 1] = v[j - 1 - 1] /\ j - 1 \in 1..m
            BY <2>3, <4>2
          <5> QED
            BY <2>2, <5>1 DEF Down
        <4> QED
          BY <4>1, <4>2
      <3> QED
        BY <2>3, <3>1 DEF Down
    <2>5. w[m + 1] = x
      BY <2>2, <2>3
    <2> QED
      BY <2>4, <2>5 DEF Below
  <1> QED
    BY <1>1, <1>2, <1>3

(* A gap is a field that is not there or a union without its arm.  Behind a*)
(* gap an object that is Sound has no pointers: freeing it stops there.    *)
Gappy(s) == \E x : Below(s, x) /\ (NoArm(x) \/ \E i \in Nat : Absent(x, i))
GapAt(x, i) == Absent(x, i) \/ (Opens(x, i) /\ Gappy(Inner(x, i)))
PtrAt(x, i) == \E p \in Seq(Nat), k \in Nat : p[k + 1] = i /\ Points(x, p, k)
Orderly(x, n) == \A i, j \in Nat : n <= i /\ i < j /\ GapAt(x, i) => ~PtrAt(x, j)
Sound(s) == \A x : Below(s, x) => Even(x) /\ Orderly(x, 1)

LEMMA GappyIs ==
    ASSUME NEW s
    PROVE  Gappy(s) <=> NoArm(s) \/ \E i \in Nat : GapAt(s, i)
  <1>1. ASSUME Gappy(s) PROVE NoArm(s) \/ \E i \in Nat : GapAt(s, i)
    <2>1. PICK x : Below(s, x) /\ (NoArm(x) \/ \E i \in Nat : Absent(x, i))
      BY <1>1 DEF Gappy
    <2> QED
      BY <2>1, BelowIs DEF Gappy, GapAt
  <1>2. ASSUME NoArm(s) \/ \E i \in Nat : GapAt(s, i) PROVE Gappy(s)
    <2>1. Below(s, s)
      BY BelowIs
    <2>2. ASSUME NEW i \in Nat, Opens(s, i), Gappy(Inner(s, i)) PROVE Gappy(s)
      <3>1. PICK x : Below(Inner(s, i), x) /\ (NoArm(x) \/ \E k \in Nat : Absent(x, k))
        BY <2>2 DEF Gappy
      <3> QED
        BY <2>2, <3>1, BelowIs DEF Gappy
    <2> QED
      BY <1>2, <2>1, <2>2 DEF Gappy, GapAt
  <1> QED
    BY <1>1, <1>2

LEMMA SoundIs ==
    ASSUME NEW s
    PROVE  Sound(s) <=> Even(s) /\ Orderly(s, 1) /\ \A i \in Nat : Opens(s, i) => Sound(Inner(s, i))
  <1>1. ASSUME Sound(s) PROVE Even(s) /\ Orderly(s, 1)
    BY <1>1, BelowIs DEF Sound
  <1>2. ASSUME Sound(s), NEW i \in Nat, Opens(s, i) PROVE Sound(Inner(s, i))
    BY <1>2, BelowIs DEF Sound
  <1>3. ASSUME Even(s), Orderly(s, 1), \A i \in Nat : Opens(s, i) => Sound(Inner(s, i)) PROVE Sound(s)
    <2> SUFFICES ASSUME NEW x, Below(s, x) PROVE Even(x) /\ Orderly(x, 1)
      BY DEF Sound
    <2> QED
      BY <1>3, BelowIs DEF Sound
  <1> QED
    BY <1>1, <1>2, <1>3

-----------------------------------------------------------------------------
(* The fields of a definition, and what a field that is stored changes.    *)

LEMMA FieldsAre ==
    ASSUME NEW x, x.type \in DOMAIN Defs
    PROVE  /\ Len(FieldsOf(x)) \in Nat
           /\ \A i \in 1..Len(FieldsOf(x)) : IsField(FieldsOf(x)[i])
           /\ \A i, j \in 1..Len(FieldsOf(x)) : FieldsOf(x)[i].name = FieldsOf(x)[j].name => i = j
           /\ Defs[x.type].kind # "struct" =>
                /\ Defs[x.type].kind = "union"
                /\ Len(FieldsOf(x)) >= 1 /\ FieldsOf(x)[1] = Defs[x.type].tag
                /\ FieldsOf(x)[1].rel = "alias" /\ FieldsOf(x)[1].type \in Scalars
                /\ Absent(x, 1) => Len(FieldsOf(x)) = 1
  <1> DEFINE def == Defs[x.type]
  <1>0. IsDefinition(def)
    BY CopyAssumption
  <1>1. CASE def.kind = "struct"
    <2>1. FieldsOf(x) = def.fields
      BY <1>1 DEF FieldsOf
    <2> QED
      BY <1>0, <1>1, <2>1 DEF IsDefinition
  <1>2. CASE def.kind # "struct"
    <2> DEFINE tag == def.tag
               IsArm(a) == a = << >> \/ \E f \in {a[1]} : a = <<f>> /\ IsField(f) /\ f.name # tag.name
               arm == Arm(def, x.obj[tag.name])
               IsPair(f) == Len(FieldsOf(x)) = 2 /\ FieldsOf(x)[1] = tag /\ FieldsOf(x)[2] = f
    <2>1. /\ def.kind = "union" /\ IsField(tag) /\ tag.rel = "alias" /\ tag.type \in Scalars
          /\ \A v \in DOMAIN def.arms : IsArm(def.arms[v])
          /\ def.default = << >> \/ \E a \in {def.default[1]} : def.default = <<a>> /\ IsArm(a)
      BY <1>0, <1>2 DEF IsDefinition
    <2>2. arm = << >> \/ \E a : arm = <<a>> /\ IsArm(a)
      <3>1. CASE x.obj[tag.name] \in DOMAIN def.arms
        BY <2>1, <3>1 DEF Arm
      <3>2. CASE x.obj[tag.name] \notin DOMAIN def.arms
        BY <2>1, <3>2 DEF Arm
      <3> QED
        BY <3>1, <3>2
    <2>3. FieldsOf(x) = <<tag>> \/ \E f : IsPair(f) /\ IsField(f) /\ f.name # tag.name
      <3>1. CASE tag.name \notin DOMAIN x.obj
        BY <1>2, <3>1 DEF FieldsOf
      <3>2. CASE tag.name \in DOMAIN x.obj /\ arm = << >>
        <4>1. FieldsOf(x) = <<tag>> \o << >>
          BY <1>2, <3>2 DEF FieldsOf
        <4>2. <<tag>> \o << >> = <<tag>>
          BY ConcatEmptySeq
        <4> QED
          BY <4>1, <4>2
      <3>3. CASE tag.name \in DOMAIN x.obj /\ arm # << >>
        <4>1. PICK a : arm = <<a>> /\ IsArm(a)
          BY <2>2, <3>3
        <4>2. FieldsOf(x) = <<tag>> \o a
          <5>1. FieldsOf(x) = <<tag>> \o arm[1]
            BY <1>2, <3>3 DEF FieldsOf
          <5>2. arm[1] = a
            BY <4>1
          <5> QED
            BY <5>1, <5>2
        <4>3. CASE a = << >>
          <5>1. <<tag>> \o << >> = <<tag>>
            BY ConcatEmptySeq
          <5> QED
            BY <4>2, <4>3, <5>1
        <4>4. CASE a # << >>
          <5>1. PICK f : a = <<f>> /\ IsField(f) /\ f.name # tag.name
            BY <4>1, <4>4
          <5>2. Len(<<tag>> \o a) = 2 /\ (<<tag>> \o a)[1] = tag /\ (<<tag>> \o a)[2] = f
            <6>1. PICK S : S = {tag, f}
              OBVIOUS
            <6>2. <<tag>> \in Seq(S) /\ a \in Seq(S) /\ Len(a) = 1 /\ Len(<<tag>>) = 1 /\ a[1] = f
              BY <5>1, <6>1
            <6> HIDE DEF tag
            <6>3. PICK first : first = <<tag>>
              OBVIOUS
            <6>4. first \in Seq(S) /\ Len(first) = 1 /\ first[1] = tag
              BY <6>2, <6>3
            <6>5. /\ Len(first \o a) = Len(first) + Len(a)
                  /\ \A i \in 1..Len(first) + Len(a) :
                       (first \o a)[i] = IF i <= Len(first) THEN first[i] ELSE a[i - Len(first)]
              BY <6>2, <6>4, ConcatProperties
            <6> QED
              BY <6>2, <6>3, <6>4, <6>5
          <5> QED
            BY <4>2, <5>1, <5>2
        <4> QED
          BY <4>3, <4>4
      <3> QED
        BY <3>1, <3>2, <3>3
    <2>4. tag.name \notin DOMAIN x.obj => FieldsOf(x) = <<tag>>
      BY <1>2 DEF FieldsOf
    <2> HIDE DEF IsArm, arm
    <2>5. CASE FieldsOf(x) = <<tag>>
      <3>1. Len(FieldsOf(x)) = 1 /\ FieldsOf(x)[1] = tag /\ \A i \in 1..1 : i = 1
        BY <2>5
      <3> QED
        BY <1>2, <2>1, <3>1
    <2>6. CASE FieldsOf(x) # <<tag>>
      <3>1. PICK f : IsPair(f) /\ IsField(f) /\ f.name # tag.name
        BY <2>3, <2>6
      <3>2. Len(FieldsOf(x)) = 2 /\ FieldsOf(x)[1] = tag /\ FieldsOf(x)[2] = f /\ \A i \in 1..2 : i = 1 \/ i = 2
        BY <3>1
      <3>3. ~Absent(x, 1)
        BY <2>4, <2>6, <3>2 DEF Absent
      <3> QED
        BY <1>2, <2>1, <3>1, <3>2, <3>3
    <2> QED
      BY <2>5, <2>6
  <1> QED
    BY <1>1, <1>2

-----------------------------------------------------------------------------
(* A call returns v to the frame f: the frame behind its current place.    *)
PutAt(o, k, v) == [o EXCEPT ![k] = v]
Put(f, v) ==
  IF f.kind = "filter" THEN Stored(f.obj, FieldsOf(f)[f.at].name, v)
  ELSE IF f.kind = "pointer" THEN <<v>> ELSE PutAt(f.obj, f.at, v)
Behind(f, v) == [kind |-> f.kind, type |-> f.type, at |-> f.at + 1, obj |-> Put(f, v)]

SlotOwns(f, v) == f.kind = "filter" /\ HasBlock(FieldsOf(f)[f.at], v)
SlotOpens(f, v) == IF f.kind = "filter" THEN HasCalls(FieldsOf(f)[f.at], v) ELSE f.type \notin Scalars
SlotNode(f, v) == IF f.kind = "filter" THEN Node(KindOf(FieldsOf(f)[f.at]), FieldsOf(f)[f.at].type, v)
                  ELSE Node("filter", f.type, v)

CanStore(f, v) ==
  /\ Even(f)
  /\ IF f.kind = "filter"
       THEN /\ f.type \in DOMAIN Defs /\ f.at \in 1..Len(FieldsOf(f))
            /\ FieldsOf(f)[f.at].rel \in Lists => IsSeq(v)
            /\ Defs[f.type].kind = "union" /\ f.at = 1 => Absent(f, 1) \/ v = Slot(f, 1)
       ELSE /\ f.kind \in Lists
            /\ IF f.kind = "pointer" THEN f.at = 1 /\ f.obj = << >> ELSE f.at \in 1..Len(f.obj)

(* Nothing is stored from the frame's place on.                            *)
Blank(f) ==
  \A i \in Nat : i >= f.at =>
    IF f.kind = "filter" THEN i \in 1..Len(FieldsOf(f)) => Absent(f, i)
    ELSE i \in 1..Len(f.obj) => f.obj[i] = Zero(f.type)

(* The field is the discriminant, which decides what other fields there are*)
IsTag(f) == f.kind = "filter" /\ Defs[f.type].kind = "union" /\ f.at = 1

(* What changes is the current place; a discriminant has no gap behind it  *)
(* that was not there in front.                                            *)
StoredAs(f, v, g) ==
  /\ Even(g)
  /\ Owns(g, f.at) <=> SlotOwns(f, v)
  /\ Opens(g, f.at) <=> SlotOpens(f, v)
  /\ Inner(g, f.at) = SlotNode(f, v)
  /\ ~Absent(g, f.at)
  /\ \A i \in Nat : i # f.at =>
       /\ Owns(g, i) <=> Owns(f, i)
       /\ Opens(g, i) <=> Opens(f, i)
       /\ Opens(f, i) => Inner(g, i) = Inner(f, i)
       /\ Absent(g, i) => Absent(f, i) \/ (IsTag(f) /\ Absent(f, f.at))
  /\ NoArm(g) => NoArm(f) \/ (IsTag(f) /\ Absent(f, f.at))
  /\ Blank(f) => Blank(g)

LEMMA SeqPut ==
    ASSUME NEW o, IsSeq(o), NEW k \in 1..Len(o), NEW v
    PROVE  /\ IsSeq(PutAt(o, k, v)) /\ Len(PutAt(o, k, v)) = Len(o) /\ PutAt(o, k, v)[k] = v
           /\ \A i \in 1..Len(o) : i # k => PutAt(o, k, v)[i] = o[i]
  <1>0. PICK g : g = [o EXCEPT ![k] = v]
    OBVIOUS
  <1>1. PICK S : o \in Seq(S)
    BY DEF IsSeq
  <1>2. PICK T : T = S \cup {v}
    OBVIOUS
  <1>3. o \in Seq(T) /\ v \in T
    BY <1>1, <1>2
  <1>4. g \in Seq(T) /\ Len(g) = Len(o)
    BY <1>0, <1>3
  <1>5. g[k] = v /\ \A i \in 1..Len(o) : i # k => g[i] = o[i]
    BY <1>0, <1>1
  <1>6. g = PutAt(o, k, v)
    BY <1>0 DEF PutAt
  <1>7. IsSeq(g)
    BY <1>4 DEF IsSeq
  <1> QED
    BY <1>4, <1>5, <1>6, <1>7

LEMMA SameFields ==
    ASSUME NEW f, NEW g, g.type = f.type, f.type \in DOMAIN Defs,
           Defs[f.type].kind = "union" =>
             /\ Defs[f.type].tag.name \in DOMAIN f.obj /\ Defs[f.type].tag.name \in DOMAIN g.obj
             /\ g.obj[Defs[f.type].tag.name] = f.obj[Defs[f.type].tag.name]
    PROVE  FieldsOf(g) = FieldsOf(f) /\ Done(g) = Done(f)
  <1>1. Defs[f.type].kind = "struct" \/ Defs[f.type].kind = "union"
    BY FieldsAre
  <1>2. CASE Defs[f.type].kind = "struct"
    BY <1>2 DEF FieldsOf, Done
  <1>3. CASE Defs[f.type].kind = "union"
    BY <1>3 DEF FieldsOf, Done
  <1> QED
    BY <1>1, <1>2, <1>3

LEMMA StoresInFilter ==
    ASSUME NEW f, NEW v, CanStore(f, v), f.kind = "filter"
    PROVE  StoredAs(f, v, Behind(f, v))
  <1> DEFINE a == f.at
             F == FieldsOf(f)
             d == F[a]
             g == Behind(f, v)
             tag == Defs[f.type].tag
  <1> SUFFICES StoredAs(f, v, g)
    OBVIOUS
  <1>0. /\ f.type \in DOMAIN Defs /\ a \in 1..Len(F) /\ Even(f)
        /\ d.rel \in Lists => IsSeq(v)
        /\ Defs[f.type].kind = "union" /\ a = 1 => Absent(f, 1) \/ v = Slot(f, 1)
    BY DEF CanStore
  <1>1. g.kind = "filter" /\ g.type = f.type /\ g.at = a + 1 /\ g.obj = Stored(f.obj, d.name, v)
    BY DEF Behind, Put
  <1>2. /\ DOMAIN g.obj = DOMAIN f.obj \cup {d.name} /\ g.obj[d.name] = v
        /\ \A m \in DOMAIN f.obj : m # d.name => g.obj[m] = f.obj[m]
    BY <1>1 DEF Stored
  <1>3. /\ Len(F) \in Nat
        /\ \A i \in 1..Len(F) : IsField(F[i])
        /\ \A i, j \in 1..Len(F) : F[i].name = F[j].name => i = j
        /\ Defs[f.type].kind # "struct" =>
             /\ Defs[f.type].kind = "union" /\ Len(F) >= 1 /\ F[1] = tag
             /\ F[1].rel = "alias" /\ F[1].type \in Scalars
             /\ Absent(f, 1) => Len(F) = 1
    BY <1>0, FieldsAre
  <1> HIDE DEF g
  <1>4. CASE Defs[f.type].kind = "union" /\ Absent(f, 1)
    <2>0. Len(F) = 1 /\ F[1] = tag
      BY <1>3, <1>4
    <2>1. Len(F) = 1 /\ a = 1 /\ F[1] = tag /\ f.obj = << >>
      <3>1. a = 1
        BY <1>0, <2>0
      <3>2. f.obj = << >>
        BY <1>0, <1>4 DEF Even
      <3> QED
        BY <2>0, <3>1, <3>2
    <2>2. DOMAIN g.obj = {tag.name} /\ g.obj[tag.name] = v
      BY <1>2, <2>1
    <2> DEFINE G == FieldsOf(g)
    <2>3. /\ Len(G) \in Nat /\ Len(G) >= 1 /\ G[1] = tag
          /\ \A i, j \in 1..Len(G) : G[i].name = G[j].name => i = j
      BY <1>0, <1>1, <1>4, FieldsAre
    <2>4. \A i \in Nat : i # 1 => ~Stores(g, i) /\ ~Stores(f, i) /\ (i \in 1..Len(G) => Absent(g, i))
      <3> TAKE i \in Nat
      <3> HAVE i # 1
      <3>1. i \in 1..Len(G) => G[i].name # tag.name
        BY <2>3
      <3> QED
        BY <1>1, <2>1, <2>2, <3>1 DEF Stores, Absent
    <2>5. Stores(g, 1) /\ Slot(g, 1) = v /\ ~Absent(g, 1)
      BY <1>1, <2>2, <2>3 DEF Stores, Slot, Absent
    <2>6. tag.rel = "alias" /\ tag.type \in Scalars
      BY <1>3, <1>4
    <2>7. ~Owns(g, 1) /\ ~Opens(g, 1) /\ ~SlotOwns(f, v) /\ ~SlotOpens(f, v)
      BY <1>1, <2>1, <2>3, <2>6 DEF Owns, Opens, SlotOwns, SlotOpens, HasBlock, HasCalls
    <2>8. Inner(g, 1) = SlotNode(f, v)
      BY <1>1, <2>1, <2>3, <2>5 DEF Inner, SlotNode
    <2>9. Even(g)
      <3>1. ASSUME NEW i \in Nat, Stores(g, i), G[i].rel \in Lists PROVE IsSeq(Slot(g, i))
        BY <2>3, <2>4, <2>6, <3>1 DEF Lists
      <3> QED
        BY <1>1, <2>5, <3>1 DEF Even
    <2>10. \A i \in Nat : i # 1 => ~Owns(g, i) /\ ~Owns(f, i) /\ ~Opens(g, i) /\ ~Opens(f, i)
      BY <1>1, <2>4 DEF Owns, Opens
    <2>11. Blank(g)
      BY <1>1, <2>1, <2>4 DEF Blank
    <2>12. f.at = 1 /\ IsTag(f)
      BY <1>4, <2>1 DEF IsTag
    <2> HIDE DEF F, a, d
    <2>13. \A i \in Nat : i # 1 =>
             /\ Owns(g, i) <=> Owns(f, i)
             /\ Opens(g, i) <=> Opens(f, i)
             /\ Opens(f, i) => Inner(g, i) = Inner(f, i)
             /\ Absent(g, i) => Absent(f, i) \/ (IsTag(f) /\ Absent(f, f.at))
      BY <1>4, <2>10, <2>12
    <2>14. Owns(g, f.at) <=> SlotOwns(f, v)
      BY <1>4, <2>5, <2>7, <2>8, <2>12
    <2>15. (Opens(g, f.at) <=> SlotOpens(f, v)) /\ Inner(g, f.at) = SlotNode(f, v) /\ ~Absent(g, f.at)
      BY <1>4, <2>5, <2>7, <2>8, <2>12
    <2>16. \A i \in Nat : i # f.at =>
             /\ Owns(g, i) <=> Owns(f, i)
             /\ Opens(g, i) <=> Opens(f, i)
             /\ Opens(f, i) => Inner(g, i) = Inner(f, i)
             /\ Absent(g, i) => Absent(f, i) \/ (IsTag(f) /\ Absent(f, f.at))
      BY <2>12, <2>13
    <2>17. NoArm(g) => NoArm(f) \/ (IsTag(f) /\ Absent(f, f.at))
      BY <1>4, <2>5, <2>7, <2>8, <2>12
    <2> QED
      BY <2>9, <2>11, <2>14, <2>15, <2>16, <2>17 DEF StoredAs
  <1>5. CASE ~(Defs[f.type].kind = "union" /\ Absent(f, 1))
    <2>1. Defs[f.type].kind = "union" =>
             /\ tag.name \in DOMAIN f.obj /\ tag.name \in DOMAIN g.obj
             /\ g.obj[tag.name] = f.obj[tag.name]
      <3> SUFFICES ASSUME Defs[f.type].kind = "union"
                   PROVE  /\ tag.name \in DOMAIN f.obj /\ tag.name \in DOMAIN g.obj
                          /\ g.obj[tag.name] = f.obj[tag.name]
        OBVIOUS
      <3>1. F[1] = tag /\ 1 \in 1..Len(F)
        BY <1>3
      <3>2. tag.name \in DOMAIN f.obj
        BY <1>5, <3>1 DEF Absent
      <3>3. CASE a = 1
        <4>1. v = f.obj[tag.name] /\ d.name = tag.name
          BY <1>0, <1>5, <3>1, <3>3 DEF Slot
        <4> QED
          BY <1>2, <3>2, <4>1
      <3>4. CASE a # 1
        <4>1. d.name # tag.name
          BY <1>0, <1>3, <3>1, <3>4
        <4> QED
          BY <1>2, <3>2, <4>1
      <3> QED
        BY <3>3, <3>4
    <2>2. FieldsOf(g) = F /\ Done(g) = Done(f)
      <3> HIDE DEF F
      <3> QED
        BY <1>0, <1>1, <2>1, SameFields DEF F
    <2>3. \A i \in Nat : i # a =>
             /\ Stores(g, i) <=> Stores(f, i)
             /\ Stores(f, i) => Slot(g, i) = Slot(f, i)
             /\ Absent(g, i) <=> Absent(f, i)
      <3> TAKE i \in Nat
      <3> HAVE i # a
      <3>1. i \in 1..Len(F) => F[i].name # d.name
        BY <1>0, <1>3
      <3>2. i \in 1..Len(F) => /\ F[i].name \in DOMAIN g.obj <=> F[i].name \in DOMAIN f.obj
                               /\ F[i].name \in DOMAIN f.obj => g.obj[F[i].name] = f.obj[F[i].name]
        BY <1>2, <3>1
      <3> QED
        BY <1>1, <2>2, <3>2 DEF Stores, Slot, Absent
    <2>4. Stores(g, a) /\ Slot(g, a) = v /\ ~Absent(g, a)
      BY <1>0, <1>1, <1>2, <2>2 DEF Stores, Slot, Absent
    <2>5. /\ Owns(g, a) <=> SlotOwns(f, v)
          /\ Opens(g, a) <=> SlotOpens(f, v)
          /\ Inner(g, a) = SlotNode(f, v)
      BY <1>1, <2>2, <2>4 DEF Owns, Opens, Inner, SlotOwns, SlotOpens, SlotNode
    <2>6. \A i \in Nat : i # a =>
             /\ Owns(g, i) <=> Owns(f, i)
             /\ Opens(g, i) <=> Opens(f, i)
             /\ Opens(f, i) => Inner(g, i) = Inner(f, i)
      BY <1>1, <2>2, <2>3 DEF Owns, Opens, Inner
    <2>7. NoArm(g) => NoArm(f)
      <3>1. ASSUME Defs[f.type].kind = "struct" PROVE ~NoArm(g)
        BY <1>1, <2>2, <3>1 DEF NoArm, Done
      <3>2. ASSUME Defs[f.type].kind = "union", NoArm(g) PROVE NoArm(f)
        BY <1>3, <2>1, <2>2, <3>2 DEF NoArm
      <3> QED
        BY <1>3, <3>1, <3>2
    <2>8. Even(g)
      <3>1. ASSUME NEW i \in Nat, Stores(g, i), F[i].rel \in Lists PROVE IsSeq(Slot(g, i))
        <4>1. CASE i = a
          BY <1>0, <2>4, <3>1, <4>1
        <4>2. CASE i # a
          BY <1>0, <2>3, <3>1, <4>2 DEF Even
        <4> QED
          BY <4>1, <4>2
      <3>2. Defs[f.type].kind = "union" => ~Absent(g, 1)
        BY <1>5, <2>3, <2>4
      <3> QED
        BY <1>1, <2>2, <3>1, <3>2 DEF Even
    <2>9. ASSUME Blank(f) PROVE Blank(g)
      <3>1. ASSUME NEW i \in Nat, i >= a + 1, i \in 1..Len(F) PROVE Absent(g, i)
        <4>1. i # a /\ i >= a
          BY <1>0, <3>1
        <4> QED
          BY <2>3, <2>9, <3>1, <4>1 DEF Blank
      <3> QED
        BY <1>1, <2>2, <3>1 DEF Blank
    <2>10. a = f.at
      OBVIOUS
    <2> HIDE DEF F, a, d
    <2>11. \A i \in Nat : i # a =>
             /\ Owns(g, i) <=> Owns(f, i)
             /\ Opens(g, i) <=> Opens(f, i)
             /\ Opens(f, i) => Inner(g, i) = Inner(f, i)
             /\ Absent(g, i) => Absent(f, i) \/ (IsTag(f) /\ Absent(f, f.at))
      BY <2>3, <2>6
    <2>12. Owns(g, f.at) <=> SlotOwns(f, v)
      BY <2>4, <2>5, <2>7, <2>10
    <2>13. (Opens(g, f.at) <=> SlotOpens(f, v)) /\ Inner(g, f.at) = SlotNode(f, v) /\ ~Absent(g, f.at)
      BY <2>4, <2>5, <2>7, <2>10
    <2>14. \A i \in Nat : i # f.at =>
             /\ Owns(g, i) <=> Owns(f, i)
             /\ Opens(g, i) <=> Opens(f, i)
             /\ Opens(f, i) => Inner(g, i) = Inner(f, i)
             /\ Absent(g, i) => Absent(f, i) \/ (IsTag(f) /\ Absent(f, f.at))
      BY <2>10, <2>11
    <2>15. NoArm(g) => NoArm(f) \/ (IsTag(f) /\ Absent(f, f.at))
      BY <2>4, <2>5, <2>7, <2>10
    <2> QED
      BY <2>8, <2>9, <2>12, <2>13, <2>14, <2>15 DEF StoredAs
  <1> QED
    BY <1>4, <1>5

LEMMA StoresInList ==
    ASSUME NEW f, NEW v, CanStore(f, v), f.kind # "filter"
    PROVE  StoredAs(f, v, Behind(f, v))
  <1> DEFINE a == f.at
             g == Behind(f, v)
  <1>0. /\ f.kind \in Lists /\ IsSeq(f.obj)
        /\ IF f.kind = "pointer" THEN a = 1 /\ f.obj = << >> ELSE a \in 1..Len(f.obj)
    BY DEF CanStore, Even
  <1>1. g.kind = f.kind /\ g.type = f.type /\ g.at = a + 1
        /\ g.obj = IF f.kind = "pointer" THEN <<v>> ELSE PutAt(f.obj, a, v)
    BY DEF Behind, Put
  <1> HIDE DEF g
  <1>2. /\ IsSeq(g.obj) /\ a \in 1..Len(g.obj) /\ g.obj[a] = v /\ Len(g.obj) \in Nat
        /\ \A i \in Nat : i # a => /\ i \in 1..Len(g.obj) <=> i \in 1..Len(f.obj)
                                   /\ i \in 1..Len(f.obj) => g.obj[i] = f.obj[i]
    <2>1. CASE f.kind = "pointer"
      <3>1. g.obj = <<v>> /\ f.obj = << >> /\ a = 1
        BY <1>0, <1>1, <2>1
      <3>2. <<v>> \in Seq({v}) /\ Len(<<v>>) = 1 /\ <<v>>[1] = v /\ Len(<< >>) = 0
        OBVIOUS
      <3>3. IsSeq(<<v>>)
        BY <3>2 DEF IsSeq
      <3>4. \A i \in Nat : i # 1 => i \notin 1..1 /\ i \notin 1..0
        OBVIOUS
      <3>5. IsSeq(g.obj) /\ Len(g.obj) = 1 /\ Len(f.obj) = 0 /\ g.obj[1] = v
        BY <3>1, <3>2, <3>3
      <3> QED
        BY <3>1, <3>4, <3>5
    <2>2. CASE f.kind # "pointer"
      <3>1. PICK o, h : o = f.obj /\ h = g.obj
        OBVIOUS
      <3>2. IsSeq(o) /\ a \in 1..Len(o) /\ h = PutAt(o, a, v)
        BY <1>0, <1>1, <2>2, <3>1
      <3>3. /\ IsSeq(h) /\ Len(h) = Len(o) /\ h[a] = v
            /\ \A i \in 1..Len(o) : i # a => h[i] = o[i]
        BY <3>2, SeqPut
      <3>4. Len(o) \in Nat
        BY <3>2 DEF IsSeq
      <3> QED
        BY <3>1, <3>2, <3>3, <3>4
    <2> QED
      BY <2>1, <2>2
  <1>3. g.kind # "filter"
    BY <1>1
  <1>4. Even(g)
    BY <1>2, <1>3 DEF Even
  <1>5. /\ ~Owns(g, a) /\ ~SlotOwns(f, v) /\ ~Absent(g, a) /\ ~NoArm(g)
        /\ Opens(g, a) <=> SlotOpens(f, v)
        /\ Inner(g, a) = SlotNode(f, v)
    BY <1>1, <1>2, <1>3 DEF Owns, Stores, SlotOwns, Absent, NoArm, Opens, SlotOpens, Inner, SlotNode
  <1>6. \A i \in Nat : i # a =>
           /\ Owns(g, i) <=> Owns(f, i)
           /\ Opens(g, i) <=> Opens(f, i)
           /\ Opens(f, i) => Inner(g, i) = Inner(f, i)
           /\ ~Absent(g, i)
    BY <1>1, <1>2, <1>3 DEF Owns, Stores, Absent, Opens, Inner
  <1>7. ASSUME Blank(f) PROVE Blank(g)
    <2>1. ASSUME NEW i \in Nat, i >= a + 1, i \in 1..Len(g.obj) PROVE g.obj[i] = Zero(g.type)
      <3>1. i # a /\ i >= a
        BY <1>2, <2>1
      <3> QED
        BY <1>1, <1>2, <1>7, <2>1, <3>1 DEF Blank
    <2> QED
      BY <1>1, <1>3, <2>1 DEF Blank
  <1> QED
    BY <1>4, <1>5, <1>6, <1>7 DEF StoredAs, g

LEMMA StoreIs ==
    ASSUME NEW f, NEW v, CanStore(f, v)
    PROVE  StoredAs(f, v, Behind(f, v))
  BY StoresInFilter, StoresInList

-----------------------------------------------------------------------------
(* What is below a frame, seen from the frame.                             *)

(* A frame and the node it works on look alike.                            *)
Alike(f, g) ==
  /\ \A i \in Nat : /\ Owns(f, i) <=> Owns(g, i)
                    /\ Opens(f, i) <=> Opens(g, i)
                    /\ Inner(f, i) = Inner(g, i)
                    /\ Absent(f, i) <=> Absent(g, i)
  /\ NoArm(f) <=> NoArm(g)
  /\ Even(f) <=> Even(g)

LEMMA NodeIsAlike ==
    ASSUME NEW f, NEW g, g = Node(f.kind, f.type, f.obj)
    PROVE  Alike(f, g)
  <1>1. g.kind = f.kind /\ g.type = f.type /\ g.obj = f.obj
    BY DEF Node
  <1>2. FieldsOf(g) = FieldsOf(f) /\ Done(g) = Done(f)
    BY <1>1 DEF FieldsOf, Done
  <1>3. \A i : /\ Stores(f, i) <=> Stores(g, i)
               /\ Slot(f, i) = Slot(g, i)
               /\ Absent(f, i) <=> Absent(g, i)
    BY <1>1, <1>2 DEF Stores, Slot, Absent
  <1>4. \A i : /\ Owns(f, i) <=> Owns(g, i)
               /\ Opens(f, i) <=> Opens(g, i)
               /\ Inner(f, i) = Inner(g, i)
    BY <1>1, <1>2, <1>3 DEF Owns, Opens, Inner
  <1>5. NoArm(f) <=> NoArm(g)
    BY <1>1, <1>2 DEF NoArm
  <1>6. Even(f) <=> Even(g)
    BY <1>1, <1>2, <1>3 DEF Even
  <1> QED
    BY <1>3, <1>4, <1>5, <1>6 DEF Alike

LEMMA AlikePoints ==
    ASSUME NEW f, NEW g, Alike(f, g), NEW p \in Seq(Nat), NEW k \in Nat
    PROVE  Points(f, p, k) <=> Points(g, p, k)
  <1>1. k < Len(p) => p[k + 1] \in Nat
    OBVIOUS
  <1>2. PointsStep(f, p, k) <=> PointsStep(g, p, k)
    BY <1>1 DEF PointsStep, Alike
  <1> QED
    BY <1>2, PointsIs

LEMMA AlikeIs ==
    ASSUME NEW f, NEW g, Alike(f, g)
    PROVE  /\ \A i \in Nat : (PtrAt(f, i) <=> PtrAt(g, i)) /\ (GapAt(f, i) <=> GapAt(g, i))
           /\ Gappy(f) <=> Gappy(g)
           /\ Sound(f) <=> Sound(g)
  <1>1. \A i \in Nat : PtrAt(f, i) <=> PtrAt(g, i)
    BY AlikePoints DEF PtrAt
  <1>2. \A i \in Nat : GapAt(f, i) <=> GapAt(g, i)
    BY DEF GapAt, Alike
  <1>3. Gappy(f) <=> Gappy(g)
    BY <1>2, GappyIs DEF Alike
  <1>4. Orderly(f, 1) <=> Orderly(g, 1)
    BY <1>1, <1>2 DEF Orderly
  <1>5. Sound(f) <=> Sound(g)
    BY <1>4, SoundIs DEF Alike
  <1> QED
    BY <1>1, <1>2, <1>3, <1>5

(* A cleared object owns nothing.                                          *)
IsZero(x) == x.kind = "filter" /\ x.obj = << >>

LEMMA ZeroIs ==
    ASSUME NEW x, IsZero(x)
    PROVE  /\ \A i \in Nat : ~Owns(x, i) /\ ~Opens(x, i) /\ ~PtrAt(x, i)
           /\ \A p \in Seq(Nat), k \in Nat : ~Points(x, p, k)
           /\ Even(x) /\ Sound(x)
  <1>1. \A i : ~Stores(x, i)
    BY DEF Stores, IsZero
  <1>2. \A i : ~Owns(x, i) /\ ~Opens(x, i)
    BY <1>1 DEF Owns, Opens, IsZero
  <1>3. \A p \in Seq(Nat), k \in Nat : ~Points(x, p, k)
    BY <1>2, PointsIs DEF PointsStep
  <1>4. \A i \in Nat : ~PtrAt(x, i)
    BY <1>3 DEF PtrAt
  <1>5. Even(x)
    BY <1>1 DEF Even, IsZero
  <1>6. Sound(x)
    BY <1>2, <1>4, <1>5, SoundIs DEF Orderly
  <1> QED
    BY <1>2, <1>3, <1>4, <1>5, <1>6

(* The places of a frame where nothing is stored.                          *)
LEMMA BlankIs ==
    ASSUME NEW f, Blank(f),
           NEW i \in Nat, i >= f.at
    PROVE  /\ ~Owns(f, i) /\ ~PtrAt(f, i)
           /\ Opens(f, i) => IsZero(Inner(f, i))
           /\ \A p \in Seq(Nat), k \in Nat : p[k + 1] = i => ~Points(f, p, k)
  <1>1. CASE f.kind = "filter"
    <2>1. i \in 1..Len(FieldsOf(f)) => Absent(f, i)
      BY <1>1 DEF Blank
    <2>2. ~Stores(f, i)
      BY <2>1 DEF Stores, Absent
    <2> QED
      BY <1>1, <2>2, PointsIs DEF Owns, Opens, PointsStep, PtrAt
  <1>2. CASE f.kind # "filter"
    <2>1. ~Owns(f, i)
      BY <1>2 DEF Owns, Stores
    <2>2. Opens(f, i) => IsZero(Inner(f, i))
      <3>1. SUFFICES ASSUME Opens(f, i) PROVE IsZero(Inner(f, i))
        OBVIOUS
      <3>2. f.type \notin Scalars /\ i \in 1..Len(f.obj)
        BY <1>2, <3>1 DEF Opens
      <3>3. f.obj[i] = << >>
        BY <1>2, <3>2 DEF Blank, Zero
      <3> QED
        BY <1>2, <3>3 DEF Inner, Node, IsZero
    <2>3. ASSUME NEW p \in Seq(Nat), NEW k \in Nat, p[k + 1] = i PROVE ~Points(f, p, k)
      <3>1. ASSUME Opens(f, i) PROVE ~Points(Inner(f, i), p, k + 1)
        BY <2>2, <3>1, ZeroIs
      <3> QED
        BY <2>1, <2>3, <3>1, PointsIs DEF PointsStep
    <2> QED
      BY <2>1, <2>2, <2>3 DEF PtrAt
  <1> QED
    BY <1>1, <1>2

(* What storing a value does to the pointers and gaps of a frame.          *)
LEMMA StoredPoints ==
    ASSUME NEW f, NEW v, NEW g, f.at \in Nat, StoredAs(f, v, g), NEW p \in Seq(Nat), NEW k \in Nat
    PROVE  Points(g, p, k) <=>
             IF p[k + 1] = f.at
               THEN k < Len(p) /\ IF Len(p) = k + 1 THEN SlotOwns(f, v)
                                  ELSE SlotOpens(f, v) /\ Points(SlotNode(f, v), p, k + 1)
               ELSE Points(f, p, k)
  <1>1. k < Len(p) => p[k + 1] \in Nat
    OBVIOUS
  <1>2. CASE p[k + 1] = f.at
    <2>1. Points(g, p, k) <=> PointsStep(g, p, k)
      BY PointsIs
    <2> QED
      BY <1>2, <2>1 DEF PointsStep, StoredAs
  <1>3. CASE p[k + 1] # f.at
    <2>1. PointsStep(g, p, k) <=> PointsStep(f, p, k)
      BY <1>1, <1>3 DEF PointsStep, StoredAs
    <2> QED
      BY <1>3, <2>1, PointsIs
  <1> QED
    BY <1>2, <1>3

LEMMA StoredAt ==
    ASSUME NEW f, NEW v, NEW g, f.at \in Nat, StoredAs(f, v, g)
    PROVE  /\ \A i \in Nat : i # f.at =>
                /\ PtrAt(g, i) => PtrAt(f, i)
                /\ GapAt(g, i) => GapAt(f, i) \/ (IsTag(f) /\ GapAt(f, f.at))
                /\ Opens(g, i) => Opens(f, i) /\ Inner(g, i) = Inner(f, i)
           /\ GapAt(g, f.at) <=> SlotOpens(f, v) /\ Gappy(SlotNode(f, v))
           /\ Opens(g, f.at) => SlotOpens(f, v) /\ Inner(g, f.at) = SlotNode(f, v)
           /\ NoArm(g) => NoArm(f) \/ (IsTag(f) /\ GapAt(f, f.at))
           /\ Even(g)
  <1>1. ASSUME NEW i \in Nat, i # f.at, PtrAt(g, i) PROVE PtrAt(f, i)
    <2>1. PICK p \in Seq(Nat), k \in Nat : p[k + 1] = i /\ Points(g, p, k)
      BY <1>1 DEF PtrAt
    <2>2. Points(f, p, k)
      BY <1>1, <2>1, StoredPoints
    <2> QED
      BY <2>1, <2>2 DEF PtrAt
  <1>2. \A i \in Nat : i # f.at => (Opens(g, i) => Opens(f, i) /\ Inner(g, i) = Inner(f, i))
    BY DEF StoredAs
  <1>3. \A i \in Nat : i # f.at =>
          /\ GapAt(g, i) => GapAt(f, i) \/ (IsTag(f) /\ GapAt(f, f.at))
    BY <1>2 DEF StoredAs, GapAt
  <1>4. GapAt(g, f.at) <=> SlotOpens(f, v) /\ Gappy(SlotNode(f, v))
    BY DEF StoredAs, GapAt
  <1>5. Opens(g, f.at) => SlotOpens(f, v) /\ Inner(g, f.at) = SlotNode(f, v)
    BY DEF StoredAs
  <1>6. (NoArm(g) => NoArm(f) \/ (IsTag(f) /\ GapAt(f, f.at))) /\ Even(g)
    BY DEF StoredAs, GapAt
  <1> QED
    BY <1>1, <1>2, <1>3, <1>4, <1>5, <1>6

-----------------------------------------------------------------------------
(* The calls in progress.                                                  *)

IsFrame(f) ==
  /\ f.at \in Nat \ {0} /\ f.kind \in {"filter"} \cup Lists
  /\ f.type \in Scalars \cup DOMAIN Defs
  /\ f.kind \in {"filter", "pointer"} => f.type \in DOMAIN Defs
  /\ f.kind = "array" => f.obj # << >>
  /\ f.kind = "pointer" => f.obj = << >> \/ (f.at >= 2 /\ Len(f.obj) = 1)
  /\ f.kind = "filter" /\ f.at >= 2 => ~Absent(f, 1)
  /\ Even(f)

(* The frame f has called for the frame g.                                 *)
Leads(f, g) ==
  IF f.kind = "filter"
    THEN /\ f.at \in 1..Len(FieldsOf(f))
         /\ FieldsOf(f)[f.at].rel \in {"alias"} \cup Lists
         /\ FieldsOf(f)[f.at].rel = "alias" => FieldsOf(f)[f.at].type \notin Scalars
         /\ g.kind = KindOf(FieldsOf(f)[f.at]) /\ g.type = FieldsOf(f)[f.at].type
    ELSE /\ f.type \notin Scalars /\ g.kind = "filter" /\ g.type = f.type
         /\ IF f.kind = "pointer" THEN f.at = 1 /\ f.obj = << >> ELSE f.at \in 1..Len(f.obj)

IsStack(st, t) ==
  /\ IsSeq(st)
  /\ \A j \in 1..Len(st) : IsFrame(st[j])
  /\ \A j \in 1..Len(st) - 1 : Leads(st[j], st[j + 1])
  /\ Len(st) > 0 => st[1].kind = "filter" /\ st[1].type = t

(* The calls st with one more on top; with another frame on top.           *)
Pushed(st, su, n) == Len(st) = n /\ Len(su) = n + 1 /\ \A i \in 1..n : su[i] = st[i]
Replaced(st, su, n) == Len(st) = n /\ Len(su) = n /\ \A i \in 1..n - 1 : su[i] = st[i]

LEMMA LeadsIs ==
    ASSUME NEW f, NEW g, IsFrame(f), Leads(f, g), NEW v,
           g.kind \in Lists => IsSeq(v)
    PROVE  /\ CanStore(f, v) /\ ~IsTag(f)
           /\ SlotNode(f, v) = Node(g.kind, g.type, v)
           /\ SlotOpens(f, v) <=> (g.kind = "pointer" => v # << >>)
           /\ SlotOwns(f, v) <=> g.kind \in {"array", "pointer"} /\ v # << >>
           /\ g.type \in Scalars \cup DOMAIN Defs /\ g.kind \in {"filter"} \cup Lists
           /\ g.kind \in {"filter", "pointer"} => g.type \in DOMAIN Defs
  <1>0. f.at \in Nat /\ Even(f) /\ f.kind \in {"filter"} \cup Lists
    BY DEF IsFrame
  <1>1. CASE f.kind = "filter"
    <2> DEFINE d == FieldsOf(f)[f.at]
    <2>0. f.type \in DOMAIN Defs
      BY <1>1 DEF IsFrame
    <2>1. /\ f.at \in 1..Len(FieldsOf(f)) /\ d.rel \in {"alias"} \cup Lists
          /\ d.rel = "alias" => d.type \notin Scalars
          /\ g.kind = KindOf(d) /\ g.type = d.type
      BY <1>1 DEF Leads
    <2>2. IsField(d)
      BY <2>0, <2>1, FieldsAre
    <2>3. ~IsTag(f)
      <3> SUFFICES ASSUME IsTag(f) PROVE FALSE
        OBVIOUS
      <3>1. Defs[f.type].kind # "struct" /\ f.at = 1
        BY DEF IsTag
      <3>2. d.rel = "alias" /\ d.type \in Scalars
        BY <2>0, <3>1, FieldsAre
      <3> QED
        BY <2>1, <3>2
    <2> HIDE DEF d
    <2>4. d.rel \in Lists => g.kind = d.rel
      BY <2>1 DEF KindOf, Lists
    <2>5. d.rel = "alias" => g.kind = "filter"
      BY <2>1 DEF KindOf
    <2>6. CanStore(f, v)
      <3>1. d.rel \in Lists => IsSeq(v)
        BY <2>4
      <3>2. Defs[f.type].kind = "union" /\ f.at = 1 => Absent(f, 1) \/ v = Slot(f, 1)
        BY <1>1, <2>3 DEF IsTag
      <3> QED
        BY <1>0, <1>1, <2>0, <2>1, <3>1, <3>2 DEF CanStore, d
    <2>7. SlotNode(f, v) = Node(g.kind, g.type, v)
      BY <1>1, <2>1 DEF SlotNode, d
    <2>8. SlotOpens(f, v) <=> (g.kind = "pointer" => v # << >>)
      BY <1>1, <2>1, <2>4, <2>5 DEF SlotOpens, HasCalls, Lists, d
    <2>9. SlotOwns(f, v) <=> g.kind \in {"array", "pointer"} /\ v # << >>
      BY <1>1, <2>1, <2>4, <2>5 DEF SlotOwns, HasBlock, Lists, d
    <2>10. /\ g.type \in Scalars \cup DOMAIN Defs /\ g.kind \in {"filter"} \cup Lists
           /\ g.kind \in {"filter", "pointer"} => g.type \in DOMAIN Defs
      BY <2>1, <2>2, <2>4, <2>5 DEF IsField, Lists
    <2> QED
      BY <2>3, <2>6, <2>7, <2>8, <2>9, <2>10
  <1>2. CASE f.kind # "filter"
    <2>1. /\ f.type \notin Scalars /\ g.kind = "filter" /\ g.type = f.type
          /\ IF f.kind = "pointer" THEN f.at = 1 /\ f.obj = << >> ELSE f.at \in 1..Len(f.obj)
      BY <1>2 DEF Leads
    <2>2. CanStore(f, v) /\ ~IsTag(f)
      BY <1>0, <1>2, <2>1 DEF CanStore, IsTag
    <2>3. SlotNode(f, v) = Node(g.kind, g.type, v)
      BY <1>2, <2>1 DEF SlotNode
    <2>4. SlotOpens(f, v) /\ ~SlotOwns(f, v)
      BY <1>2, <2>1 DEF SlotOpens, SlotOwns
    <2>5. f.type \in DOMAIN Defs
      BY <2>1 DEF IsFrame
    <2> QED
      BY <2>1, <2>2, <2>3, <2>4, <2>5
  <1> QED
    BY <1>1, <1>2

LEMMA BehindIsFrame ==
    ASSUME NEW f, NEW v, IsFrame(f), CanStore(f, v)
    PROVE  /\ IsFrame(Behind(f, v)) /\ StoredAs(f, v, Behind(f, v))
           /\ Behind(f, v).at = f.at + 1 /\ Behind(f, v).kind = f.kind /\ Behind(f, v).type = f.type
           /\ f.kind = "pointer" => Behind(f, v).obj = <<v>>
  <1> DEFINE g == Behind(f, v)
  <1> SUFFICES /\ IsFrame(g) /\ StoredAs(f, v, g)
               /\ g.at = f.at + 1 /\ g.kind = f.kind /\ g.type = f.type
               /\ f.kind = "pointer" => g.obj = <<v>>
    OBVIOUS
  <1>1. g.at = f.at + 1 /\ g.kind = f.kind /\ g.type = f.type /\ g.obj = Put(f, v)
    BY DEF Behind
  <1>2. StoredAs(f, v, g)
    BY StoreIs
  <1> HIDE DEF g
  <1>3. f.kind = "pointer" => g.obj = <<v>>
    BY <1>1 DEF Put
  <1>4. f.kind = "array" => g.obj # << >>
    <2> SUFFICES ASSUME f.kind = "array" PROVE g.obj # << >>
      OBVIOUS
    <2>1. IsSeq(f.obj) /\ f.at \in 1..Len(f.obj)
      BY DEF CanStore, Even
    <2>2. PICK o, h : o = f.obj /\ h = g.obj
      OBVIOUS
    <2>3. IsSeq(o) /\ f.at \in 1..Len(o) /\ h = PutAt(o, f.at, v)
      BY <1>1, <2>1, <2>2 DEF Put
    <2>4. Len(h) = Len(o)
      BY <2>3, SeqPut
    <2>5. Len(o) # 0
      BY <2>3 DEF IsFrame
    <2> QED
      BY <2>2, <2>4, <2>5
  <1>5. f.kind = "pointer" => Len(g.obj) = 1 /\ g.at >= 2
    BY <1>1, <1>3 DEF IsFrame
  <1>6. Even(g)
    BY <1>2 DEF StoredAs
  <1>7. ~Absent(g, 1)
    <2>1. f.at \in Nat \ {0} /\ (f.kind = "filter" /\ f.at >= 2 => ~Absent(f, 1))
      BY DEF IsFrame
    <2>2. f.kind # "filter" => ~Absent(g, 1)
      BY <1>1 DEF Absent
    <2>3. /\ ~Absent(g, f.at)
          /\ f.at # 1 => (Absent(g, 1) => Absent(f, 1) \/ IsTag(f))
      BY <1>2, <2>1 DEF StoredAs
    <2> QED
      BY <2>1, <2>2, <2>3 DEF IsTag
  <1> QED
    BY <1>1, <1>2, <1>3, <1>4, <1>5, <1>6, <1>7 DEF IsFrame

LEMMA StackPushed ==
    ASSUME NEW st, NEW su, NEW t, NEW n \in Nat \ {0}, Pushed(st, su, n), IsSeq(su),
           IsStack(st, t), IsFrame(su[n + 1]), Leads(st[n], su[n + 1])
    PROVE  IsStack(su, t)
  <1>1. \A j \in 1..n + 1 : IsFrame(su[j])
    <2>1. \A j \in 1..n + 1 : j = n + 1 \/ j \in 1..n
      OBVIOUS
    <2> QED
      BY <2>1 DEF Pushed, IsStack
  <1>2. \A j \in 1..n : Leads(su[j], su[j + 1])
    <2>1. \A j \in 1..n : j = n \/ (j \in 1..n - 1 /\ j + 1 \in 1..n)
      OBVIOUS
    <2> QED
      BY <2>1 DEF Pushed, IsStack
  <1>3. 1 \in 1..n /\ n + 1 - 1 = n
    OBVIOUS
  <1>4. Len(st) = n /\ Len(su) = n + 1 /\ su[1] = st[1]
    BY <1>3 DEF Pushed
  <1>5. st[1].kind = "filter" /\ st[1].type = t
    BY <1>4 DEF IsStack
  <1>6. \A j \in 1..Len(su) : IsFrame(su[j])
    BY <1>1, <1>4
  <1>7. \A j \in 1..Len(su) - 1 : Leads(su[j], su[j + 1])
    BY <1>2, <1>3, <1>4
  <1>8. su[1].kind = "filter" /\ su[1].type = t
    BY <1>4, <1>5
  <1> QED
    BY <1>6, <1>7, <1>8 DEF IsStack

LEMMA StackReplaced ==
    ASSUME NEW st, NEW su, NEW t, NEW n \in Nat \ {0}, Replaced(st, su, n), IsSeq(su),
           IsStack(st, t), IsFrame(su[n]), su[n].kind = st[n].kind, su[n].type = st[n].type
    PROVE  IsStack(su, t)
  <1>1. \A j \in 1..n : IsFrame(su[j])
    <2>1. \A j \in 1..n : j = n \/ j \in 1..n - 1
      OBVIOUS
    <2> QED
      BY <2>1 DEF Replaced, IsStack
  <1>2. \A j \in 1..n : su[j].kind = st[j].kind /\ su[j].type = st[j].type
    <2>1. \A j \in 1..n : j = n \/ j \in 1..n - 1
      OBVIOUS
    <2> QED
      BY <2>1 DEF Replaced
  <1>3. ASSUME NEW j \in 1..n - 1 PROVE Leads(su[j], su[j + 1])
    <2>1. j + 1 \in 1..n /\ su[j] = st[j]
      BY DEF Replaced
    <2>2. Leads(st[j], st[j + 1])
      BY DEF Replaced, IsStack
    <2> QED
      BY <1>2, <2>1, <2>2 DEF Leads
  <1>4. 1 \in 1..n
    OBVIOUS
  <1> QED
    BY <1>1, <1>2, <1>3, <1>4 DEF Replaced, IsStack

(* Places start at one.                                                    *)
LEMMA PlacesAre ==
    ASSUME NEW f, NEW i \in Nat
    PROVE  /\ Owns(f, i) \/ Opens(f, i) \/ Absent(f, i) \/ GapAt(f, i) \/ PtrAt(f, i) => i >= 1
           /\ \A p \in Seq(Nat), k \in Nat : Points(f, p, k) => p[k + 1] \in Nat \ {0} /\ k < Len(p)
  <1>1. \A m \in Nat : Owns(f, m) \/ Opens(f, m) \/ Absent(f, m) => m >= 1
    BY DEF Owns, Opens, Absent, Stores
  <1>2. ASSUME NEW p \in Seq(Nat), NEW k \in Nat, Points(f, p, k) PROVE p[k + 1] \in Nat \ {0} /\ k < Len(p)
    <2>1. PointsStep(f, p, k)
      BY <1>2, PointsIs
    <2>2. k < Len(p)
      BY <2>1 DEF PointsStep
    <2>3. p[k + 1] \in Nat
      BY <2>2
    <2>4. Owns(f, p[k + 1]) \/ Opens(f, p[k + 1])
      BY <2>1 DEF PointsStep
    <2>5. p[k + 1] >= 1
      BY <1>1, <2>3, <2>4
    <2> QED
      BY <2>2, <2>3, <2>5
  <1>3. PtrAt(f, i) => i >= 1
    BY <1>2 DEF PtrAt
  <1>4. GapAt(f, i) => i >= 1
    BY <1>1 DEF GapAt
  <1> QED
    BY <1>1, <1>2, <1>3, <1>4

LEMMA PointsAt ==
    ASSUME NEW f, NEW p \in Seq(Nat), NEW k \in Nat, Points(f, p, k)
    PROVE  p[k + 1] \in Nat /\ p[k + 1] >= 1 /\ k < Len(p)
  <1>1. \A i \in Nat : Points(f, p, k) => p[k + 1] \in Nat \ {0} /\ k < Len(p)
    BY PlacesAre
  <1>2. p[k + 1] \in Nat \ {0} /\ k < Len(p)
    BY <1>1
  <1> QED
    BY <1>2

-----------------------------------------------------------------------------
(* Decoding: the blocks are those that the calls in progress have stored   *)
(* and those they are filling.                                             *)

(* The blocks called p: one that the frame j has stored, or one whose      *)
(* elements the frame j has called for.                                    *)
OnPath(st, p, k) == \A i \in 1..k : p[i] = st[i].at
Held(st, p, j) == OnPath(st, p, j - 1) /\ Points(st[j], p, j - 1)
Linked(st, p, j) == Len(p) = j /\ OnPath(st, p, j) /\ st[j + 1].kind \in {"array", "pointer"}

DecHas(st, p, n) == (\E j \in 1..n : Held(st, p, j)) \/ (\E j \in 1..n - 1 : Linked(st, p, j))
DecHeap(st, h, n) == h \subseteq Seq(Nat) /\ \A p \in Seq(Nat) : p \in h <=> DecHas(st, p, n)

(* In front of place m there is no gap.                                    *)
DecFrame(f, m) ==
  /\ Blank(f)
  /\ \A i \in Nat : Opens(f, i) => Sound(Inner(f, i))
  /\ \A i \in Nat : i < m => ~GapAt(f, i)
Full(f, stat) == IF stat = "false" THEN f.at - 1 ELSE f.at

DecOK(st, stat, h, n) ==
  /\ \A j \in 1..n - 1 : DecFrame(st[j], st[j].at)
  /\ DecFrame(st[n], Full(st[n], stat))
  /\ DecHeap(st, h, n)

(* The name of the block at the place where the innermost call is.         *)
Here(st, p, n) == p \in Seq(Nat) /\ Len(p) = n /\ \A i \in 1..n : p[i] = st[i].at

LEMMA PathIs ==
    ASSUME NEW st, NEW p \in Seq(Nat), NEW n \in Nat \ {0}
    PROVE  OnPath(st, p, n) <=> OnPath(st, p, n - 1) /\ p[n] = st[n].at
  <1>1. \A i \in 1..n : i = n \/ i \in 1..n - 1
    OBVIOUS
  <1>2. \A i \in 1..n - 1 : i \in 1..n
    OBVIOUS
  <1>3. n \in 1..n
    OBVIOUS
  <1> QED
    BY <1>1, <1>2, <1>3 DEF OnPath

LEMMA HereIs ==
    ASSUME NEW st, NEW n \in Nat, NEW q, Here(st, q, n), NEW p \in Seq(Nat)
    PROVE  p = q <=> Len(p) = n /\ OnPath(st, p, n)
  <1>1. p = q => Len(p) = n /\ OnPath(st, p, n)
    BY DEF OnPath, Here
  <1>2. ASSUME Len(p) = n, OnPath(st, p, n) PROVE p = q
    <2>1. q \in Seq(Nat) /\ Len(q) = n /\ \A i \in 1..n : p[i] = q[i]
      BY <1>2 DEF OnPath, Here
    <2> QED
      BY <1>2, <2>1, SeqEqual
  <1> QED
    BY <1>1, <1>2

(* The frames below do not change.                                         *)
LEMMA SameBelow ==
    ASSUME NEW st, NEW su, NEW n \in Nat \ {0}, \A i \in 1..n - 1 : su[i] = st[i],
           NEW p \in Seq(Nat)
    PROVE  /\ \A j \in 1..n - 1 : Held(su, p, j) <=> Held(st, p, j)
           /\ su[n].kind = st[n].kind => \A j \in 1..n - 1 : Linked(su, p, j) <=> Linked(st, p, j)
           /\ OnPath(su, p, n - 1) <=> OnPath(st, p, n - 1)
  <1>1. \A j \in 0..n - 1 : OnPath(su, p, j) <=> OnPath(st, p, j)
    BY DEF OnPath
  <1>2. \A j \in 1..n - 1 : Held(su, p, j) <=> Held(st, p, j)
    <2> TAKE j \in 1..n - 1
    <2>1. j - 1 \in 0..n - 1 /\ su[j] = st[j]
      OBVIOUS
    <2> QED
      BY <1>1, <2>1 DEF Held
  <1>3. su[n].kind = st[n].kind => \A j \in 1..n - 1 : Linked(su, p, j) <=> Linked(st, p, j)
    <2> HAVE su[n].kind = st[n].kind
    <2> TAKE j \in 1..n - 1
    <2>1. j \in 0..n - 1 /\ (j + 1 = n \/ j + 1 \in 1..n - 1)
      OBVIOUS
    <2>2. su[j + 1].kind = st[j + 1].kind
      BY <2>1
    <2> QED
      BY <1>1, <2>1, <2>2 DEF Linked
  <1>4. n - 1 \in 0..n - 1
    OBVIOUS
  <1> QED
    BY <1>1, <1>2, <1>3, <1>4

LEMMA DecPush ==
    ASSUME NEW st, NEW su, NEW n \in Nat \ {0}, Pushed(st, su, n), NEW h, NEW k,
           NEW q, Here(st, q, n), DecOK(st, "none", h, n),
           Blank(su[n + 1]), su[n + 1].at = 1,
           k = IF su[n + 1].kind \in {"array", "pointer"} THEN h \cup {q} ELSE h
    PROVE  DecOK(su, "none", k, n + 1)
  <1> DEFINE g == su[n + 1]
  <1>0. Blank(g) /\ g.at = 1 /\ \A i \in 1..n : su[i] = st[i]
    BY DEF Pushed
  <1> HIDE DEF g
  <1>1. DecFrame(g, Full(g, "none"))
    <2>1. ASSUME NEW i \in Nat, Opens(g, i) PROVE Sound(Inner(g, i))
      <3>1. i >= g.at
        BY <1>0, <2>1, PlacesAre
      <3> QED
        BY <1>0, <2>1, <3>1, BlankIs, ZeroIs
    <2>2. \A i \in Nat : i < 1 => ~GapAt(g, i)
      BY PlacesAre
    <2>3. Full(g, "none") = 1
      BY <1>0 DEF Full
    <2> QED
      BY <1>0, <2>1, <2>2, <2>3 DEF DecFrame
  <1>2. ASSUME NEW j \in 1..n PROVE DecFrame(su[j], su[j].at)
    <2>1. j = n \/ j \in 1..n - 1
      OBVIOUS
    <2> QED
      BY <1>0, <2>1 DEF DecOK, Full
  <1>3. ASSUME NEW p \in Seq(Nat) PROVE p \in k <=> DecHas(su, p, n + 1)
    <2>1. n + 1 \in Nat \ {0} /\ n + 1 - 1 = n
      OBVIOUS
    <2>2. ~Held(su, p, n + 1)
      <3>1. ~Points(g, p, n)
        <4>1. ASSUME Points(g, p, n) PROVE FALSE
          <5>1. p[n + 1] \in Nat \ {0}
            BY <4>1, PlacesAre
          <5>2. p[n + 1] >= g.at
            BY <1>0, <5>1
          <5> QED
            BY <1>0, <4>1, <5>1, <5>2, BlankIs
        <4> QED
          BY <4>1
      <3> QED
        BY <2>1, <3>1 DEF Held, g
    <2>3. \A j \in 1..n : Held(su, p, j) <=> Held(st, p, j)
      <3>1. \A m \in Nat \ {0} : m - 1 = n => \A i \in 1..m - 1 : su[i] = st[i]
        BY <1>0
      <3>2. \A m \in Nat \ {0} : m - 1 = n => \A j \in 1..m - 1 : Held(su, p, j) <=> Held(st, p, j)
        BY <3>1, SameBelow
      <3> QED
        BY <2>1, <3>2
    <2>4. \A j \in 1..n - 1 : Linked(su, p, j) <=> Linked(st, p, j)
      <3>1. su[n].kind = st[n].kind /\ \A i \in 1..n - 1 : su[i] = st[i]
        BY <1>0
      <3> QED
        BY <3>1, SameBelow
    <2>5. OnPath(su, p, n) <=> OnPath(st, p, n)
      BY <1>0 DEF OnPath
    <2>6. Linked(su, p, n) <=> p = q /\ g.kind \in {"array", "pointer"}
      <3>1. Len(p) = n /\ OnPath(st, p, n) <=> p = q
        BY HereIs
      <3> QED
        BY <2>5, <3>1 DEF Linked, g
    <2>7. (\E j \in 1..n + 1 : Held(su, p, j)) <=> \E j \in 1..n : Held(st, p, j)
      <3>1. \A j \in 1..n + 1 : j = n + 1 \/ j \in 1..n
        OBVIOUS
      <3>2. \A j \in 1..n : j \in 1..n + 1
        OBVIOUS
      <3> QED
        BY <2>2, <2>3, <3>1, <3>2
    <2>8. (\E j \in 1..n : Linked(su, p, j)) <=> Linked(su, p, n) \/ \E j \in 1..n - 1 : Linked(st, p, j)
      <3>1. \A j \in 1..n : j = n \/ j \in 1..n - 1
        OBVIOUS
      <3>2. n \in 1..n /\ \A j \in 1..n - 1 : j \in 1..n
        OBVIOUS
      <3> QED
        BY <2>4, <3>1, <3>2
    <2>9. p \in h <=> DecHas(st, p, n)
      BY DEF DecOK, DecHeap
    <2>10. p \in k <=> p \in h \/ Linked(su, p, n)
      BY <2>6 DEF g
    <2> QED
      BY <2>1, <2>7, <2>8, <2>9, <2>10 DEF DecHas
  <1>4. k \subseteq Seq(Nat)
    BY DEF DecOK, DecHeap, Here
  <1> QED
    BY <1>1, <1>2, <1>3, <1>4 DEF DecOK, DecHeap, g

(* An object without anything below it.                                    *)
Hollow(x) == Even(x) /\ ~NoArm(x) /\ \A i \in Nat : ~Owns(x, i) /\ ~Opens(x, i) /\ ~Absent(x, i)

LEMMA HollowIs ==
    ASSUME NEW x, Hollow(x)
    PROVE  Sound(x) /\ ~Gappy(x) /\ \A p \in Seq(Nat), k \in Nat : ~Points(x, p, k)
  <1>1. \A p \in Seq(Nat), k \in Nat : ~Points(x, p, k)
    <2> TAKE p \in Seq(Nat), k \in Nat
    <2>1. k < Len(p) => p[k + 1] \in Nat
      OBVIOUS
    <2> QED
      BY <2>1, PointsIs DEF PointsStep, Hollow
  <1>2. ~Gappy(x)
    BY GappyIs DEF GapAt, Hollow
  <1>3. Orderly(x, 1)
    BY <1>1 DEF Orderly, PtrAt
  <1>4. Sound(x)
    BY <1>3, SoundIs DEF Hollow
  <1> QED
    BY <1>1, <1>2, <1>4

(* What a frame has when a value was stored in it.                         *)
LEMMA DecStored ==
    ASSUME NEW f, NEW v, IsFrame(f), CanStore(f, v), DecFrame(f, f.at),
           NEW stat, stat = "false" \/ ~(SlotOpens(f, v) /\ Gappy(SlotNode(f, v))),
           SlotOpens(f, v) => Sound(SlotNode(f, v))
    PROVE  DecFrame(Behind(f, v), Full(Behind(f, v), stat))
  <1> DEFINE g == Behind(f, v)
  <1> SUFFICES DecFrame(g, Full(g, stat))
    OBVIOUS
  <1>1. StoredAs(f, v, g) /\ g.at = f.at + 1
    BY BehindIsFrame
  <1> HIDE DEF g
  <1>2. f.at \in Nat \ {0}
    BY DEF IsFrame
  <1>3. Blank(g)
    BY <1>1 DEF StoredAs, DecFrame
  <1>4. ASSUME NEW i \in Nat, Opens(g, i) PROVE Sound(Inner(g, i))
    <2>1. CASE i = f.at
      BY <1>1, <1>2, <1>4, <2>1, StoredAt
    <2>2. CASE i # f.at
      <3>1. Opens(f, i) /\ Inner(g, i) = Inner(f, i)
        BY <1>1, <1>2, <1>4, <2>2, StoredAt
      <3> QED
        BY <3>1 DEF DecFrame
    <2> QED
      BY <2>1, <2>2
  <1>5. ASSUME NEW i \in Nat, i < Full(g, stat), GapAt(g, i) PROVE FALSE
    <2>1. i >= 1
      BY <1>5, PlacesAre
    <2>2. CASE i = f.at
      <3>1. stat # "false"
        BY <1>1, <1>2, <1>5, <2>2 DEF Full
      <3>2. SlotOpens(f, v) /\ Gappy(SlotNode(f, v))
        BY <1>1, <1>2, <1>5, <2>2, StoredAt
      <3> QED
        BY <3>1, <3>2
    <2>3. CASE i # f.at
      <3>1. i < f.at
        BY <1>1, <1>2, <1>5, <2>3 DEF Full
      <3>2. ~IsTag(f)
        BY <2>1, <3>1 DEF IsTag
      <3>3. GapAt(f, i)
        BY <1>1, <1>2, <1>5, <2>3, <3>2, StoredAt
      <3> QED
        BY <3>1, <3>3 DEF DecFrame
    <2> QED
      BY <2>2, <2>3
  <1> QED
    BY <1>3, <1>4, <1>5 DEF DecFrame

(* The call at the top returns what it stored at its place.                *)
LEMMA DecGive ==
    ASSUME NEW st, NEW su, NEW n \in Nat \ {0}, Replaced(st, su, n), NEW h, NEW k,
           NEW q, Here(st, q, n), DecOK(st, "none", h, n), NEW v, NEW stat,
           IsFrame(st[n]), CanStore(st[n], v), su[n] = Behind(st[n], v),
           SlotOpens(st[n], v) => Hollow(SlotNode(st[n], v)),
           k = IF SlotOwns(st[n], v) THEN h \cup {q} ELSE h
    PROVE  DecOK(su, stat, k, n)
  <1> DEFINE f == st[n]
             g == su[n]
  <1>0. \A i \in 1..n - 1 : su[i] = st[i]
    BY DEF Replaced
  <1>1. /\ IsFrame(f) /\ CanStore(f, v) /\ DecFrame(f, f.at) /\ g = Behind(f, v)
        /\ SlotOpens(f, v) => Hollow(SlotNode(f, v))
    BY DEF DecOK, Full
  <1>2. StoredAs(f, v, g) /\ g.kind = f.kind
    BY <1>1, BehindIsFrame
  <1>3. f.at \in Nat
    BY <1>1 DEF IsFrame
  <1>4. SlotOpens(f, v) => Sound(SlotNode(f, v)) /\ ~Gappy(SlotNode(f, v))
    BY <1>1, HollowIs
  <1> HIDE DEF f, g
  <1>5. DecFrame(g, Full(g, stat))
    BY <1>1, <1>4, DecStored
  <1>6. \A j \in 1..n - 1 : DecFrame(su[j], su[j].at)
    BY <1>0 DEF DecOK
  <1>7. ASSUME NEW p \in Seq(Nat) PROVE p \in k <=> DecHas(su, p, n)
    <2>1. /\ \A j \in 1..n - 1 : Held(su, p, j) <=> Held(st, p, j)
          /\ \A j \in 1..n - 1 : Linked(su, p, j) <=> Linked(st, p, j)
          /\ OnPath(su, p, n - 1) <=> OnPath(st, p, n - 1)
      BY <1>0, <1>2, SameBelow DEF f, g
    <2>2. Held(su, p, n) <=> Held(st, p, n) \/ (p = q /\ SlotOwns(f, v))
      <3>0. n - 1 \in Nat /\ n - 1 + 1 = n
        OBVIOUS
      <3>1. Points(g, p, n - 1) <=>
              IF p[n] = f.at
                THEN n - 1 < Len(p) /\ IF Len(p) = n THEN SlotOwns(f, v)
                                       ELSE SlotOpens(f, v) /\ Points(SlotNode(f, v), p, n)
                ELSE Points(f, p, n - 1)
        <4>1. Points(g, p, n - 1) <=>
              IF p[n - 1 + 1] = f.at
                THEN n - 1 < Len(p) /\ IF Len(p) = n - 1 + 1 THEN SlotOwns(f, v)
                                       ELSE SlotOpens(f, v) /\ Points(SlotNode(f, v), p, n - 1 + 1)
                ELSE Points(f, p, n - 1)
          BY <1>2, <1>3, <3>0, StoredPoints
        <4> QED
          BY <3>0, <4>1
      <3>2. SlotOpens(f, v) => ~Points(SlotNode(f, v), p, n)
        BY <1>1, HollowIs
      <3>3. p[n] = f.at => ~Points(f, p, n - 1)
        <4>1. p[n - 1 + 1] = f.at => ~Points(f, p, n - 1)
          BY <1>1, <1>3, <3>0, BlankIs DEF DecFrame
        <4> QED
          BY <3>0, <4>1
      <3>4. p = q <=> Len(p) = n /\ OnPath(st, p, n - 1) /\ p[n] = f.at
        <4>1. p = q <=> Len(p) = n /\ OnPath(st, p, n)
          BY HereIs
        <4> QED
          BY <4>1, PathIs DEF f
      <3>5. Len(p) = n => n - 1 < Len(p)
        OBVIOUS
      <3>6. Held(su, p, n) <=> OnPath(st, p, n - 1) /\ Points(g, p, n - 1)
        BY <2>1 DEF Held, g
      <3>7. Held(st, p, n) <=> OnPath(st, p, n - 1) /\ Points(f, p, n - 1)
        BY DEF Held, f
      <3> QED
        BY <3>1, <3>2, <3>3, <3>4, <3>5, <3>6, <3>7
    <2>3. \A j \in 1..n : j = n \/ j \in 1..n - 1
      OBVIOUS
    <2>4. n \in 1..n /\ \A j \in 1..n - 1 : j \in 1..n
      OBVIOUS
    <2>5. (\E j \in 1..n : Held(su, p, j)) <=> (\E j \in 1..n : Held(st, p, j)) \/ (p = q /\ SlotOwns(f, v))
      BY <2>1, <2>2, <2>3, <2>4
    <2>6. p \in h <=> DecHas(st, p, n)
      BY DEF DecOK, DecHeap
    <2>7. p \in k <=> p \in h \/ (p = q /\ SlotOwns(f, v))
      BY DEF f
    <2> QED
      BY <2>1, <2>5, <2>6, <2>7 DEF DecHas
  <1>8. k \subseteq Seq(Nat)
    BY DEF DecOK, DecHeap, Here
  <1> QED
    BY <1>5, <1>6, <1>7, <1>8 DEF DecOK, DecHeap, g

(* A call ends: its object is without gaps if it returns true.             *)
LEMMA DecEnds ==
    ASSUME NEW g, IsFrame(g), NEW stat, DecFrame(g, Full(g, stat))
    PROVE  Sound(g)
  <1>1. \A i \in Nat : Opens(g, i) => Sound(Inner(g, i))
    BY DEF DecFrame
  <1>2. ASSUME NEW i \in Nat, NEW j \in Nat, i < j, GapAt(g, i), PtrAt(g, j) PROVE FALSE
    <2>1. g.at \in Nat
      BY DEF IsFrame
    <2>2. j < g.at
      BY <1>2, <2>1, BlankIs DEF DecFrame
    <2>3. i < Full(g, stat)
      BY <1>2, <2>1, <2>2 DEF Full
    <2> QED
      BY <1>2, <2>3 DEF DecFrame
  <1>3. Orderly(g, 1)
    BY <1>2 DEF Orderly
  <1> QED
    BY <1>1, <1>3, SoundIs DEF IsFrame

LEMMA DecPop ==
    ASSUME NEW fs, NEW st, NEW su, NEW n \in Nat \ {0}, Pushed(fs, st, n), Replaced(fs, su, n),
           NEW h, NEW stat, NEW now, DecOK(st, stat, h, n + 1),
           IsFrame(fs[n]), IsFrame(st[n + 1]), Leads(fs[n], st[n + 1]),
           st[n + 1].kind = "pointer" => st[n + 1].obj # << >>,
           su[n] = Behind(fs[n], st[n + 1].obj),
           now = "false" \/ ~Gappy(st[n + 1])
    PROVE  DecOK(su, now, h, n)
  <1> DEFINE f == fs[n]
             c == st[n + 1]
             g == su[n]
             v == c.obj
             x == SlotNode(f, v)
  <1>0. /\ \A i \in 1..n - 1 : su[i] = fs[i] /\ st[i] = fs[i]
        /\ st[n] = f
    BY DEF Replaced, Pushed
  <1>1. IsFrame(f) /\ IsFrame(c) /\ Leads(f, c) /\ g = Behind(f, v) /\ (c.kind = "pointer" => v # << >>)
    OBVIOUS
  <1>2. DecFrame(c, Full(c, stat)) /\ DecFrame(f, f.at)
    <2>1. n + 1 - 1 = n /\ n \in 1..n
      OBVIOUS
    <2> QED
      BY <1>0, <2>1 DEF DecOK
  <1>3. now = "false" \/ ~Gappy(c)
    OBVIOUS
  <1>4. c.kind \in Lists => IsSeq(v)
    <2>1. Even(c)
      BY DEF IsFrame
    <2> QED
      BY <2>1 DEF Even, Lists
  <1> HIDE DEF f, c, g
  <1>5. /\ CanStore(f, v) /\ x = Node(c.kind, c.type, v)
        /\ SlotOpens(f, v)
        /\ SlotOwns(f, v) <=> c.kind \in {"array", "pointer"} /\ v # << >>
    BY <1>1, <1>4, LeadsIs
  <1>6. c.kind \in {"array", "pointer"} => v # << >>
    BY <1>1 DEF IsFrame
  <1>7. StoredAs(f, v, g) /\ g.kind = f.kind
    BY <1>1, <1>5, BehindIsFrame
  <1>8. Alike(c, x)
    BY <1>5, NodeIsAlike
  <1>9. Sound(x) /\ (Gappy(x) <=> Gappy(c))
    BY <1>1, <1>2, <1>8, AlikeIs, DecEnds
  <1>10. f.at \in Nat
    BY <1>1 DEF IsFrame
  <1>11. DecFrame(g, Full(g, now))
    BY <1>1, <1>2, <1>3, <1>5, <1>9, DecStored
  <1>12. \A j \in 1..n - 1 : DecFrame(su[j], su[j].at)
    <2>1. \A j \in 1..n - 1 : j \in 1..n + 1 - 1
      OBVIOUS
    <2> QED
      BY <1>0, <2>1 DEF DecOK
  <1> HIDE DEF x, v
  <1>13. ASSUME NEW p \in Seq(Nat) PROVE p \in h <=> DecHas(su, p, n)
    <2>0. n - 1 \in Nat /\ n - 1 + 1 = n /\ n + 1 - 1 = n
      OBVIOUS
    <2>1. su[n].kind = st[n].kind /\ \A i \in 1..n - 1 : su[i] = st[i]
      BY <1>0, <1>7 DEF f, g
    <2>2. /\ \A j \in 1..n - 1 : Held(su, p, j) <=> Held(st, p, j)
          /\ \A j \in 1..n - 1 : Linked(su, p, j) <=> Linked(st, p, j)
          /\ OnPath(su, p, n - 1) <=> OnPath(st, p, n - 1)
      BY <2>1, SameBelow
    <2>3. OnPath(st, p, n) <=> OnPath(st, p, n - 1) /\ p[n] = f.at
      BY <1>0, PathIs
    <2>4. Points(g, p, n - 1) <=>
            IF p[n] = f.at
              THEN n - 1 < Len(p) /\ IF Len(p) = n THEN SlotOwns(f, v)
                                     ELSE SlotOpens(f, v) /\ Points(x, p, n)
              ELSE Points(f, p, n - 1)
      <3>1. Points(g, p, n - 1) <=>
            IF p[n - 1 + 1] = f.at
              THEN n - 1 < Len(p) /\ IF Len(p) = n - 1 + 1 THEN SlotOwns(f, v)
                                     ELSE SlotOpens(f, v) /\ Points(x, p, n - 1 + 1)
              ELSE Points(f, p, n - 1)
        BY <1>7, <1>10, <2>0, StoredPoints DEF x
      <3> QED
        BY <2>0, <3>1
    <2>5. Points(x, p, n) <=> Points(c, p, n)
      BY <1>8, AlikePoints
    <2>6. p[n] = f.at => ~Points(f, p, n - 1)
      <3>1. p[n - 1 + 1] = f.at => ~Points(f, p, n - 1)
        BY <1>2, <1>10, <2>0, BlankIs DEF DecFrame
      <3> QED
        BY <2>0, <3>1
    <2>7. Points(c, p, n) => n < Len(p)
      BY PlacesAre
    <2>8. Held(su, p, n) <=> OnPath(st, p, n - 1) /\ Points(g, p, n - 1)
      BY <2>2 DEF Held, g
    <2>9. Held(st, p, n) <=> OnPath(st, p, n - 1) /\ Points(f, p, n - 1)
      BY <1>0 DEF Held
    <2>10. Held(st, p, n + 1) <=> OnPath(st, p, n) /\ Points(c, p, n)
      BY <2>0 DEF Held, c
    <2>11. Linked(st, p, n) <=> Len(p) = n /\ OnPath(st, p, n) /\ SlotOwns(f, v)
      BY <1>5, <1>6 DEF Linked, c
    <2>12. Len(p) \in Nat /\ (Len(p) = n => n - 1 < Len(p)) /\ (n < Len(p) => n - 1 < Len(p) /\ Len(p) # n)
      OBVIOUS
    <2>13. Held(su, p, n) <=> Held(st, p, n) \/ Held(st, p, n + 1) \/ Linked(st, p, n)
      BY <1>5, <2>3, <2>4, <2>5, <2>6, <2>7, <2>8, <2>9, <2>10, <2>11, <2>12
    <2>14. (\E j \in 1..n + 1 : Held(st, p, j)) <=>
             Held(st, p, n + 1) \/ Held(st, p, n) \/ \E j \in 1..n - 1 : Held(st, p, j)
      <3>1. \A j \in 1..n + 1 : j = n + 1 \/ j = n \/ j \in 1..n - 1
        OBVIOUS
      <3>2. n \in 1..n + 1 /\ n + 1 \in 1..n + 1 /\ \A j \in 1..n - 1 : j \in 1..n + 1
        OBVIOUS
      <3> QED
        BY <3>1, <3>2
    <2>15. (\E j \in 1..n : Linked(st, p, j)) <=> Linked(st, p, n) \/ \E j \in 1..n - 1 : Linked(st, p, j)
      <3>1. \A j \in 1..n : j = n \/ j \in 1..n - 1
        OBVIOUS
      <3>2. n \in 1..n /\ \A j \in 1..n - 1 : j \in 1..n
        OBVIOUS
      <3> QED
        BY <3>1, <3>2
    <2>16. (\E j \in 1..n : Held(su, p, j)) <=> Held(su, p, n) \/ \E j \in 1..n - 1 : Held(su, p, j)
      <3>1. \A j \in 1..n : j = n \/ j \in 1..n - 1
        OBVIOUS
      <3>2. n \in 1..n /\ \A j \in 1..n - 1 : j \in 1..n
        OBVIOUS
      <3> QED
        BY <3>1, <3>2
    <2>17. p \in h <=> DecHas(st, p, n + 1)
      BY DEF DecOK, DecHeap
    <2> QED
      BY <2>0, <2>2, <2>13, <2>14, <2>15, <2>16, <2>17 DEF DecHas
  <1>14. h \subseteq Seq(Nat)
    BY DEF DecOK, DecHeap
  <1> QED
    BY <1>11, <1>12, <1>13, <1>14 DEF DecOK, DecHeap, g

-----------------------------------------------------------------------------
(* Freeing: the blocks left are those the frames have in front of them and *)
(* those whose elements are being freed.  The current place of a frame that*)
(* waits for a call is the call's.                                         *)
After(st, j, n) == IF j = n THEN st[j].at ELSE st[j].at + 1

FreeHas(st, p, n) ==
  \/ \E j \in 1..n : Held(st, p, j) /\ p[j] >= After(st, j, n)
  \/ \E j \in 1..n - 1 : Linked(st, p, j)
FreeHeap(st, h, n) == h \subseteq Seq(Nat) /\ \A p \in Seq(Nat) : p \in h <=> FreeHas(st, p, n)

Clear(f, m) == \A i \in Nat : i >= m => ~PtrAt(f, i)
Gap(f, m) == NoArm(f) \/ \E i \in Nat : i >= m /\ GapAt(f, i)
FreeFrame(f, m) == Orderly(f, m) /\ \A i \in Nat : i >= m /\ Opens(f, i) => Sound(Inner(f, i))

(* Behind a gap nothing is left, in the calls outside it neither: there the*)
(* filters stop, one after the other.                                      *)
FreeOK(st, stat, h, n) ==
  /\ \A j \in 1..n : FreeFrame(st[j], After(st, j, n))
  /\ stat = "false" => \A j \in 1..n : Clear(st[j], After(st, j, n))
  /\ \A j, k \in 1..n : j < k /\ Gap(st[k], After(st, k, n)) => Clear(st[j], After(st, j, n))
  /\ FreeHeap(st, h, n)

(* The frame f calls for what is at its place.                             *)
Enters(f, g) ==
  \/ /\ Opens(f, f.at) /\ Alike(g, Inner(f, f.at))
     /\ Owns(f, f.at) <=> g.kind \in {"array", "pointer"}
  \/ /\ ~Opens(f, f.at) /\ Absent(f, f.at)
     /\ g.kind \notin {"array", "pointer"} /\ Blank(g)

LEMMA EntersIs ==
    ASSUME NEW f, NEW g, f.at \in Nat, g.at = 1, Enters(f, g), FreeFrame(f, f.at)
    PROVE  /\ FreeFrame(g, 1)
           /\ Gap(g, 1) => GapAt(f, f.at)
           /\ \A p \in Seq(Nat), k \in Nat : p[k + 1] = f.at =>
                (Points(f, p, k) <=> \/ Len(p) = k + 1 /\ g.kind \in {"array", "pointer"}
                                     \/ Points(g, p, k + 1))
  <1> DEFINE x == Inner(f, f.at)
  <1>1. CASE Opens(f, f.at)
    <2>1. Alike(g, x) /\ (Owns(f, f.at) <=> g.kind \in {"array", "pointer"})
      BY <1>1 DEF Enters
    <2>2. Sound(x)
      BY <1>1 DEF FreeFrame
    <2> HIDE DEF x
    <2>3. Sound(g)
      BY <2>1, <2>2, AlikeIs
    <2>4. FreeFrame(g, 1)
      BY <2>3, SoundIs DEF FreeFrame
    <2>5. Gap(g, 1) => GapAt(f, f.at)
      <3> HAVE Gap(g, 1)
      <3>1. Gappy(g)
        BY GappyIs DEF Gap
      <3>2. Gappy(x)
        BY <2>1, <3>1, AlikeIs
      <3> QED
        BY <1>1, <3>2 DEF GapAt, x
    <2>6. ASSUME NEW p \in Seq(Nat), NEW k \in Nat, p[k + 1] = f.at
          PROVE  Points(f, p, k) <=> \/ Len(p) = k + 1 /\ g.kind \in {"array", "pointer"}
                                     \/ Points(g, p, k + 1)
      <3>1. Points(f, p, k) <=> k < Len(p) /\ IF Len(p) = k + 1 THEN Owns(f, f.at) ELSE Points(x, p, k + 1)
        BY <1>1, <2>6, PointsIs DEF PointsStep, x
      <3>2. Points(x, p, k + 1) <=> Points(g, p, k + 1)
        BY <2>1, AlikePoints
      <3>3. Points(g, p, k + 1) => k + 1 < Len(p)
        BY PointsAt
      <3>4. Len(p) \in Nat
        OBVIOUS
      <3> QED
        BY <2>1, <3>1, <3>2, <3>3, <3>4
    <2> QED
      BY <2>4, <2>5, <2>6
  <1>2. CASE ~Opens(f, f.at)
    <2>1. Absent(f, f.at) /\ g.kind \notin {"array", "pointer"} /\ Blank(g)
      BY <1>2 DEF Enters
    <2>2. GapAt(f, f.at) /\ ~Owns(f, f.at)
      BY <2>1 DEF GapAt, Absent, Owns, Stores
    <2>3. \A i \in Nat : ~PtrAt(g, i)
      BY <2>1, BlankIs, PlacesAre
    <2>4. ASSUME NEW i \in Nat, Opens(g, i) PROVE Sound(Inner(g, i))
      <3>1. i >= g.at
        BY <2>4, PlacesAre
      <3> QED
        BY <2>1, <2>4, <3>1, BlankIs, ZeroIs
    <2>5. FreeFrame(g, 1)
      BY <2>3, <2>4 DEF FreeFrame, Orderly
    <2>6. ASSUME NEW p \in Seq(Nat), NEW k \in Nat, p[k + 1] = f.at
          PROVE  ~Points(f, p, k) /\ ~Points(g, p, k + 1)
      <3>1. ~PointsStep(f, p, k)
        BY <1>2, <2>2, <2>6 DEF PointsStep
      <3>2. k + 1 \in Nat
        OBVIOUS
      <3>3. Points(g, p, k + 1) => p[k + 1 + 1] \in Nat /\ p[k + 1 + 1] >= g.at
        BY <3>2, PointsAt
      <3> QED
        BY <2>1, <3>1, <3>2, <3>3, BlankIs, PointsIs
    <2> QED
      BY <2>1, <2>2, <2>5, <2>6
  <1> QED
    BY <1>1, <1>2

LEMMA FreePush ==
    ASSUME NEW st, NEW su, NEW n \in Nat \ {0}, Pushed(st, su, n), NEW h,
           FreeOK(st, "none", h, n), st[n].at \in Nat, su[n + 1].at = 1,
           Enters(st[n], su[n + 1])
    PROVE  FreeOK(su, "none", h, n + 1)
  <1> DEFINE f == st[n]
             g == su[n + 1]
  <1>0. /\ \A i \in 1..n : su[i] = st[i]
        /\ f.at \in Nat /\ g.at = 1 /\ Enters(f, g)
    BY DEF Pushed
  <1>1. FreeFrame(f, f.at)
    <2>1. n \in 1..n
      OBVIOUS
    <2> QED
      BY <2>1 DEF FreeOK, After
  <1> HIDE DEF f, g
  <1>2. /\ FreeFrame(g, 1)
        /\ Gap(g, 1) => GapAt(f, f.at)
        /\ \A p \in Seq(Nat), k \in Nat : p[k + 1] = f.at =>
             (Points(f, p, k) <=> \/ Len(p) = k + 1 /\ g.kind \in {"array", "pointer"}
                                  \/ Points(g, p, k + 1))
    BY <1>0, <1>1, EntersIs
  <1>3. /\ After(su, n + 1, n + 1) = 1 /\ After(su, n, n + 1) = f.at + 1 /\ After(st, n, n) = f.at
        /\ \A j \in 1..n - 1 : After(su, j, n + 1) = After(st, j, n) /\ su[j] = st[j]
        /\ su[n] = f /\ su[n + 1] = g
    BY <1>0 DEF After, f, g
  <1>4. \A j \in 1..n + 1 : j = n + 1 \/ j = n \/ j \in 1..n - 1
    OBVIOUS
  <1>5. n \in 1..n /\ \A j \in 1..n - 1 : j \in 1..n
    OBVIOUS
  <1>6. FreeFrame(f, f.at + 1)
    BY <1>0, <1>1 DEF FreeFrame, Orderly
  <1>7. \A j \in 1..n + 1 : FreeFrame(su[j], After(su, j, n + 1))
    <2>1. \A j \in 1..n - 1 : FreeFrame(st[j], After(st, j, n))
      BY <1>5 DEF FreeOK
    <2> QED
      BY <1>2, <1>3, <1>4, <1>6, <2>1
  <1>8. ASSUME Gap(f, f.at), NEW j \in 1..n - 1 PROVE Clear(st[j], After(st, j, n))
    <2>1. j < n /\ j \in 1..n
      OBVIOUS
    <2>2. Gap(st[n], After(st, n, n))
      BY <1>3, <1>8 DEF f
    <2> QED
      BY <1>5, <2>1, <2>2 DEF FreeOK
  <1>9. Gap(f, f.at + 1) => Gap(f, f.at)
    BY <1>0 DEF Gap
  <1>10. GapAt(f, f.at) => Gap(f, f.at) /\ Clear(f, f.at + 1)
    BY <1>0, <1>1 DEF Gap, Clear, FreeFrame, Orderly
  <1>11. ASSUME NEW j \in 1..n + 1, NEW k \in 1..n + 1, j < k, Gap(su[k], After(su, k, n + 1))
         PROVE  Clear(su[j], After(su, j, n + 1))
    <2>1. CASE k = n + 1
      <3>1. GapAt(f, f.at)
        BY <1>2, <1>3, <1>11, <2>1
      <3>2. j = n \/ j \in 1..n - 1
        BY <1>11, <2>1
      <3> QED
        BY <1>3, <1>8, <1>10, <3>1, <3>2
    <2>2. CASE k = n
      <3>1. Gap(f, f.at)
        BY <1>3, <1>9, <1>11, <2>2
      <3>2. j \in 1..n - 1
        BY <1>11, <2>2
      <3> QED
        BY <1>3, <1>8, <3>1, <3>2
    <2>3. CASE k \in 1..n - 1
      <3>1. j \in 1..n - 1
        BY <1>11, <2>3
      <3>2. Gap(st[k], After(st, k, n))
        BY <1>3, <1>11, <2>3
      <3>3. Clear(st[j], After(st, j, n))
        BY <1>5, <1>11, <2>3, <3>1, <3>2 DEF FreeOK
      <3> QED
        BY <1>3, <3>1, <3>3
    <2> QED
      BY <1>4, <2>1, <2>2, <2>3
  <1>12. ASSUME NEW p \in Seq(Nat) PROVE p \in h <=> FreeHas(su, p, n + 1)
    <2>0. n - 1 \in Nat /\ n - 1 + 1 = n /\ n + 1 - 1 = n
      OBVIOUS
    <2>1. /\ \A j \in 1..n : Held(su, p, j) <=> Held(st, p, j)
          /\ \A j \in 1..n - 1 : Linked(su, p, j) <=> Linked(st, p, j)
      <3>1. \A m \in Nat \ {0} : m - 1 = n => \A i \in 1..m - 1 : su[i] = st[i]
        BY <1>0
      <3>2. \A m \in Nat \ {0} : m - 1 = n => \A j \in 1..m - 1 : Held(su, p, j) <=> Held(st, p, j)
        BY <3>1, SameBelow
      <3>3. \A j \in 1..n : Held(su, p, j) <=> Held(st, p, j)
        BY <2>0, <3>2
      <3>4. su[n].kind = st[n].kind /\ \A i \in 1..n - 1 : su[i] = st[i]
        BY <1>0
      <3>5. \A j \in 1..n - 1 : Linked(su, p, j) <=> Linked(st, p, j)
        BY <3>4, SameBelow
      <3> QED
        BY <3>3, <3>5
    <2>2. OnPath(su, p, n) <=> OnPath(st, p, n - 1) /\ p[n] = f.at
      <3>1. OnPath(su, p, n) <=> OnPath(st, p, n)
        BY <1>0 DEF OnPath
      <3> QED
        BY <3>1, PathIs DEF f
    <2>3. Held(st, p, n) <=> OnPath(st, p, n - 1) /\ Points(f, p, n - 1)
      BY DEF Held, f
    <2>4. Held(su, p, n + 1) <=> OnPath(st, p, n - 1) /\ p[n] = f.at /\ Points(g, p, n)
      BY <1>3, <2>0, <2>2 DEF Held
    <2>5. Linked(su, p, n) <=> Len(p) = n /\ OnPath(st, p, n - 1) /\ p[n] = f.at /\ g.kind \in {"array", "pointer"}
      BY <1>3, <2>2 DEF Linked
    <2>6. p[n] = f.at => (Points(f, p, n - 1) <=> \/ Len(p) = n /\ g.kind \in {"array", "pointer"}
                                                  \/ Points(g, p, n))
      <3>1. p[n - 1 + 1] = f.at => (Points(f, p, n - 1) <=> \/ Len(p) = n - 1 + 1 /\ g.kind \in {"array", "pointer"}
                                                            \/ Points(g, p, n - 1 + 1))
        BY <1>2, <2>0
      <3> QED
        BY <2>0, <3>1
    <2>7. Points(f, p, n - 1) => p[n] \in Nat
      <3>1. Points(f, p, n - 1) => p[n - 1 + 1] \in Nat
        BY <2>0, PointsAt
      <3> QED
        BY <2>0, <3>1
    <2>8. Points(g, p, n) => p[n + 1] \in Nat /\ p[n + 1] >= 1
      BY PointsAt
    <2>9. Held(st, p, n) /\ p[n] >= f.at <=>
            \/ Held(st, p, n) /\ p[n] >= f.at + 1
            \/ Held(su, p, n + 1) /\ p[n + 1] >= 1
            \/ Linked(su, p, n)
      <3>1. CASE p[n] = f.at
        <4>1. f.at >= f.at /\ ~(f.at >= f.at + 1)
          BY <1>0
        <4> QED
          BY <2>3, <2>4, <2>5, <2>6, <2>8, <3>1, <4>1
      <3>2. CASE p[n] # f.at
        <4>1. p[n] \in Nat => (p[n] >= f.at <=> p[n] >= f.at + 1)
          BY <1>0, <3>2
        <4> QED
          BY <2>3, <2>4, <2>5, <2>7, <3>2, <4>1
      <3> QED
        BY <3>1, <3>2
    <2>10. FreeHas(st, p, n) <=>
             \/ Held(st, p, n) /\ p[n] >= f.at
             \/ \E j \in 1..n - 1 : Held(st, p, j) /\ p[j] >= After(st, j, n)
             \/ \E j \in 1..n - 1 : Linked(st, p, j)
      <3>1. \A j \in 1..n : j = n \/ j \in 1..n - 1
        OBVIOUS
      <3> QED
        BY <1>3, <1>5, <3>1 DEF FreeHas
    <2>11. FreeHas(su, p, n + 1) <=>
             \/ Held(su, p, n + 1) /\ p[n + 1] >= 1
             \/ Held(st, p, n) /\ p[n] >= f.at + 1
             \/ \E j \in 1..n - 1 : Held(st, p, j) /\ p[j] >= After(st, j, n)
             \/ Linked(su, p, n)
             \/ \E j \in 1..n - 1 : Linked(st, p, j)
      <3>1. n + 1 \in 1..n + 1 /\ n \in 1..n + 1 /\ \A j \in 1..n - 1 : j \in 1..n + 1
        OBVIOUS
      <3>2. (\E j \in 1..n + 1 : Held(su, p, j) /\ p[j] >= After(su, j, n + 1)) <=>
             \/ Held(su, p, n + 1) /\ p[n + 1] >= 1
             \/ Held(st, p, n) /\ p[n] >= f.at + 1
             \/ \E j \in 1..n - 1 : Held(st, p, j) /\ p[j] >= After(st, j, n)
        BY <1>3, <1>4, <1>5, <2>1, <3>1
      <3>3. \A j \in 1..n : j = n \/ j \in 1..n - 1
        OBVIOUS
      <3>4. (\E j \in 1..n : Linked(su, p, j)) <=> Linked(su, p, n) \/ \E j \in 1..n - 1 : Linked(st, p, j)
        BY <1>5, <2>1, <3>3
      <3> QED
        BY <2>0, <3>2, <3>4 DEF FreeHas
    <2>12. p \in h <=> FreeHas(st, p, n)
      BY DEF FreeOK, FreeHeap
    <2> QED
      BY <2>9, <2>10, <2>11, <2>12
  <1>13. h \subseteq Seq(Nat)
    BY DEF FreeOK, FreeHeap
  <1> QED
    BY <1>7, <1>11, <1>12, <1>13 DEF FreeOK, FreeHeap

-----------------------------------------------------------------------------
(* What a frame has left when a value was stored at its place.             *)
LEMMA FreeStored ==
    ASSUME NEW f, NEW v, NEW g, f.at \in Nat, StoredAs(f, v, g),
           NEW m, m = f.at \/ (m = f.at + 1 /\ ~IsTag(f))
    PROVE  /\ FreeFrame(f, m) => FreeFrame(g, f.at + 1)
           /\ Gap(g, f.at + 1) => Gap(f, m)
           /\ Clear(f, m) => Clear(g, f.at + 1)
  <1>1. ASSUME NEW i \in Nat, i >= f.at + 1
        PROVE  /\ i >= m /\ (PtrAt(g, i) => PtrAt(f, i))
               /\ GapAt(g, i) => \E a \in Nat : a >= m /\ a <= i /\ GapAt(f, a)
               /\ Opens(g, i) => Opens(f, i) /\ Inner(g, i) = Inner(f, i)
    <2>1. i # f.at /\ i >= m
      BY <1>1
    <2>2. /\ PtrAt(g, i) => PtrAt(f, i)
          /\ GapAt(g, i) => GapAt(f, i) \/ (IsTag(f) /\ GapAt(f, f.at))
          /\ Opens(g, i) => Opens(f, i) /\ Inner(g, i) = Inner(f, i)
      BY <2>1, StoredAt
    <2>3. GapAt(g, i) => \E a \in Nat : a >= m /\ a <= i /\ GapAt(f, a)
      <3>1. GapAt(f, i) => \E a \in Nat : a >= m /\ a <= i /\ GapAt(f, a)
        <4>1. i >= m /\ i <= i
          BY <2>1
        <4> QED
          BY <4>1
      <3>2. IsTag(f) /\ GapAt(f, f.at) => \E a \in Nat : a >= m /\ a <= i /\ GapAt(f, a)
        <4>1. IsTag(f) => f.at >= m /\ f.at <= i
          BY <1>1
        <4> QED
          BY <4>1
      <3> QED
        BY <2>2, <3>1, <3>2
    <2> QED
      BY <2>1, <2>2, <2>3
  <1>2. ASSUME FreeFrame(f, m) PROVE FreeFrame(g, f.at + 1)
    <2>1. ASSUME NEW i \in Nat, NEW j \in Nat, f.at + 1 <= i, i < j, GapAt(g, i), PtrAt(g, j) PROVE FALSE
      <3>1. PICK a \in Nat : a >= m /\ a <= i /\ GapAt(f, a)
        BY <1>1, <2>1
      <3>2. j >= f.at + 1 /\ a < j /\ m <= a
        BY <2>1, <3>1
      <3>3. PtrAt(f, j)
        BY <1>1, <2>1, <3>2
      <3> QED
        BY <1>2, <3>1, <3>2, <3>3 DEF FreeFrame, Orderly
    <2>2. ASSUME NEW i \in Nat, i >= f.at + 1, Opens(g, i) PROVE Sound(Inner(g, i))
      BY <1>1, <1>2, <2>2 DEF FreeFrame
    <2> QED
      BY <2>1, <2>2 DEF FreeFrame, Orderly
  <1>3. ASSUME Gap(g, f.at + 1) PROVE Gap(f, m)
    <2>1. NoArm(g) => NoArm(f) \/ (IsTag(f) /\ GapAt(f, f.at))
      BY StoredAt
    <2>2. IsTag(f) /\ GapAt(f, f.at) => Gap(f, m)
      <3>1. IsTag(f) => f.at >= m
        OBVIOUS
      <3> QED
        BY <3>1 DEF Gap
    <2>3. ASSUME NEW i \in Nat, i >= f.at + 1, GapAt(g, i) PROVE Gap(f, m)
      BY <1>1, <2>3 DEF Gap
    <2> QED
      BY <1>3, <2>1, <2>2, <2>3 DEF Gap
  <1>4. ASSUME Clear(f, m) PROVE Clear(g, f.at + 1)
    BY <1>1, <1>4 DEF Clear
  <1> QED
    BY <1>2, <1>3, <1>4

(* The frames of st but the last, and a last one with less in front of it. *)
FreeRest(st, su, n) ==
  /\ \A j \in 1..n - 1 : FreeFrame(su[j], After(su, j, n)) /\ After(su, j, n) = st[j].at + 1
  /\ FreeFrame(su[n], su[n].at)
  /\ \A j, k \in 1..n : j < k /\ Gap(su[k], After(su, k, n)) => Clear(su[j], After(su, j, n))

LEMMA FreeShort ==
    ASSUME NEW st, NEW su, NEW n \in Nat \ {0}, NEW m, NEW N \in Nat, n <= N,
           \A i \in 1..n - 1 : su[i] = st[i] /\ After(st, i, N) = st[i].at + 1,
           After(st, n, N) = m,
           \A j \in 1..N : FreeFrame(st[j], After(st, j, N)),
           \A j, k \in 1..N : j < k /\ Gap(st[k], After(st, k, N)) => Clear(st[j], After(st, j, N)),
           FreeFrame(st[n], m) => FreeFrame(su[n], su[n].at),
           Gap(su[n], su[n].at) => Gap(st[n], m)
    PROVE  FreeRest(st, su, n)
  <1>1. \A j \in 1..n - 1 : After(su, j, n) = st[j].at + 1 /\ su[j] = st[j] /\ After(st, j, N) = st[j].at + 1
    BY DEF After
  <1>2. \A j \in 1..n : j \in 1..N
    OBVIOUS
  <1>3. \A j \in 1..n - 1 : FreeFrame(su[j], After(su, j, n))
    <2>1. \A j \in 1..n - 1 : j \in 1..n
      OBVIOUS
    <2> QED
      BY <1>1, <1>2, <2>1
  <1>4. FreeFrame(su[n], su[n].at)
    <2>1. n \in 1..n
      OBVIOUS
    <2> QED
      BY <1>2, <2>1
  <1>5. ASSUME NEW j \in 1..n, NEW k \in 1..n, j < k, Gap(su[k], After(su, k, n))
        PROVE  Clear(su[j], After(su, j, n))
    <2>1. j \in 1..n - 1
      BY <1>5
    <2>2. Gap(st[k], After(st, k, N))
      <3>1. CASE k = n
        BY <1>5, <3>1 DEF After
      <3>2. CASE k # n
        <4>1. k \in 1..n - 1
          BY <3>2
        <4> QED
          BY <1>1, <1>5, <4>1
      <3> QED
        BY <3>1, <3>2
    <2>3. Clear(st[j], After(st, j, N))
      BY <1>2, <1>5, <2>2
    <2> QED
      BY <1>1, <2>1, <2>3
  <1> QED
    BY <1>1, <1>3, <1>4, <1>5 DEF FreeRest

LEMMA FreeGive ==
    ASSUME NEW st, NEW su, NEW n \in Nat \ {0}, Replaced(st, su, n), NEW h,
           NEW q, Here(st, q, n), FreeOK(st, "none", h, n), NEW v,
           st[n].at \in Nat, StoredAs(st[n], v, su[n]),
           su[n].at = st[n].at + 1, su[n].kind = st[n].kind,
           Opens(st[n], st[n].at) => Hollow(Inner(st[n], st[n].at))
    PROVE  /\ FreeOK(su, "true", h \ {q}, n)
           /\ ~Owns(st[n], st[n].at) => q \notin h
  <1> DEFINE f == st[n]
             g == su[n]
  <1>0. \A i \in 1..n - 1 : su[i] = st[i] /\ After(st, i, n) = st[i].at + 1
    BY DEF Replaced, After
  <1>1. /\ f.at \in Nat /\ StoredAs(f, v, g) /\ g.at = f.at + 1 /\ g.kind = f.kind
        /\ Opens(f, f.at) => Hollow(Inner(f, f.at))
    OBVIOUS
  <1>2. After(st, n, n) = f.at /\ After(su, n, n) = g.at
    BY DEF After
  <1> HIDE DEF f, g
  <1>3. /\ FreeFrame(f, f.at) => FreeFrame(g, f.at + 1)
        /\ Gap(g, f.at + 1) => Gap(f, f.at)
    BY <1>1, FreeStored
  <1>4. FreeRest(st, su, n)
    <2>1. /\ n \in Nat /\ n <= n
          /\ \A j \in 1..n : FreeFrame(st[j], After(st, j, n))
          /\ \A j, k \in 1..n : j < k /\ Gap(st[k], After(st, k, n)) => Clear(st[j], After(st, j, n))
      BY DEF FreeOK
    <2>2. /\ FreeFrame(st[n], f.at) => FreeFrame(su[n], su[n].at)
          /\ Gap(su[n], su[n].at) => Gap(st[n], f.at)
      BY <1>1, <1>3 DEF f, g
    <2> QED
      BY <1>0, <1>2, <2>1, <2>2, FreeShort
  <1>5. ASSUME NEW p \in Seq(Nat)
        PROVE  /\ FreeHas(su, p, n) <=> FreeHas(st, p, n) /\ p # q
               /\ ~Owns(f, f.at) => p # q \/ ~FreeHas(st, p, n)
    <2>0. n - 1 \in Nat /\ n - 1 + 1 = n
      OBVIOUS
    <2>1. /\ \A j \in 1..n - 1 : Held(su, p, j) <=> Held(st, p, j)
          /\ \A j \in 1..n - 1 : Linked(su, p, j) <=> Linked(st, p, j)
          /\ OnPath(su, p, n - 1) <=> OnPath(st, p, n - 1)
      BY <1>0, <1>1, SameBelow DEF f, g
    <2>2. Held(su, p, n) <=> OnPath(st, p, n - 1) /\ Points(g, p, n - 1)
      BY <2>1 DEF Held, g
    <2>3. Held(st, p, n) <=> OnPath(st, p, n - 1) /\ Points(f, p, n - 1)
      BY DEF Held, f
    <2>4. p[n] # f.at => (Points(g, p, n - 1) <=> Points(f, p, n - 1))
      <3>1. ASSUME NEW m \in Nat, p[m + 1] # f.at PROVE Points(g, p, m) <=> Points(f, p, m)
        BY <1>1, <3>1, StoredPoints
      <3>2. p[n - 1 + 1] # f.at => (Points(g, p, n - 1) <=> Points(f, p, n - 1))
        BY <2>0, <3>1
      <3> QED
        BY <2>0, <3>2
    <2>5. p[n] = f.at => (Points(f, p, n - 1) <=> Len(p) = n /\ Owns(f, f.at))
      <3> SUFFICES ASSUME p[n] = f.at PROVE Points(f, p, n - 1) <=> Len(p) = n /\ Owns(f, f.at)
        OBVIOUS
      <3>1. Points(f, p, n - 1) <=> PointsStep(f, p, n - 1)
        BY <2>0, PointsIs
      <3>2. Opens(f, f.at) => ~Points(Inner(f, f.at), p, n)
        BY <1>1, HollowIs
      <3>3. PointsStep(f, p, n - 1) <=> n - 1 < Len(p) /\ IF Len(p) = n THEN Owns(f, f.at)
                                                     ELSE Opens(f, f.at) /\ Points(Inner(f, f.at), p, n)
        BY <2>0 DEF PointsStep
      <3>4. Len(p) = n => n - 1 < Len(p)
        OBVIOUS
      <3> QED
        BY <3>1, <3>2, <3>3, <3>4
    <2>6. Points(f, p, n - 1) => p[n] \in Nat
      <3>1. Points(f, p, n - 1) => p[n - 1 + 1] \in Nat
        BY <2>0, PointsAt
      <3> QED
        BY <2>0, <3>1
    <2>7. p = q <=> Len(p) = n /\ OnPath(st, p, n - 1) /\ p[n] = f.at
      <3>1. p = q <=> Len(p) = n /\ OnPath(st, p, n)
        BY HereIs
      <3> QED
        BY <3>1, PathIs DEF f
    <2>8. /\ Held(su, p, n) /\ p[n] >= g.at <=> Held(st, p, n) /\ p[n] >= f.at /\ p # q
          /\ ~Owns(f, f.at) /\ p = q => ~Held(st, p, n)
      <3>1. CASE p[n] = f.at
        <4>1. ~(p[n] >= g.at) /\ p[n] >= f.at
          BY <1>1, <3>1
        <4> QED
          BY <2>2, <2>3, <2>5, <2>7, <3>1, <4>1
      <3>2. CASE p[n] # f.at
        <4>1. p[n] \in Nat => (p[n] >= f.at <=> p[n] >= g.at)
          BY <1>1, <3>2
        <4> QED
          BY <2>2, <2>3, <2>4, <2>6, <2>7, <3>2, <4>1
      <3> QED
        BY <3>1, <3>2
    <2>9. ASSUME NEW j \in 1..n - 1, p = q PROVE ~(Held(st, p, j) /\ p[j] >= After(st, j, n)) /\ ~Linked(st, p, j)
      <3>1. Len(p) = n /\ p[j] = st[j].at /\ p[j] \in Nat
        <4>1. j \in 1..n /\ Len(q) = n
          BY DEF Here
        <4> QED
          BY <2>9, <4>1 DEF Here
      <3>2. ~(p[j] >= st[j].at + 1)
        BY <3>1
      <3> QED
        BY <1>0, <3>1, <3>2 DEF Linked
    <2>10. \A j \in 1..n : j = n \/ j \in 1..n - 1
      OBVIOUS
    <2>11. n \in 1..n /\ \A j \in 1..n - 1 : j \in 1..n
      OBVIOUS
    <2>12. FreeHas(st, p, n) <=>
             \/ Held(st, p, n) /\ p[n] >= f.at
             \/ \E j \in 1..n - 1 : Held(st, p, j) /\ p[j] >= After(st, j, n)
             \/ \E j \in 1..n - 1 : Linked(st, p, j)
      BY <1>2, <2>10, <2>11 DEF FreeHas
    <2>13. FreeHas(su, p, n) <=>
             \/ Held(su, p, n) /\ p[n] >= g.at
             \/ \E j \in 1..n - 1 : Held(st, p, j) /\ p[j] >= After(st, j, n)
             \/ \E j \in 1..n - 1 : Linked(st, p, j)
      <3>1. \A j \in 1..n - 1 : After(su, j, n) = After(st, j, n)
        BY <1>0 DEF After
      <3> QED
        BY <1>2, <2>1, <2>10, <2>11, <3>1 DEF FreeHas
    <2> QED
      BY <2>8, <2>9, <2>12, <2>13
  <1>6. h \subseteq Seq(Nat) /\ \A p \in Seq(Nat) : p \in h <=> FreeHas(st, p, n)
    BY DEF FreeOK, FreeHeap
  <1>7. FreeHeap(su, h \ {q}, n)
    BY <1>5, <1>6 DEF FreeHeap
  <1>8. ~Owns(f, f.at) => q \notin h
    BY <1>5, <1>6
  <1>9. \A j \in 1..n : FreeFrame(su[j], After(su, j, n))
    <2>1. \A j \in 1..n : j = n \/ j \in 1..n - 1
      OBVIOUS
    <2> QED
      BY <1>2, <1>4, <2>1 DEF FreeRest, g
  <1>10. \A j, k \in 1..n : j < k /\ Gap(su[k], After(su, k, n)) => Clear(su[j], After(su, j, n))
    BY <1>4 DEF FreeRest
  <1> QED
    BY <1>7, <1>8, <1>9, <1>10 DEF FreeOK, f

-----------------------------------------------------------------------------
LEMMA FreePop ==
    ASSUME NEW fs, NEW st, NEW su, NEW n \in Nat \ {0}, Pushed(fs, st, n), Replaced(fs, su, n),
           NEW h, NEW k, NEW q, Here(fs, q, n), NEW stat, NEW now, FreeOK(st, stat, h, n + 1), NEW v,
           fs[n].at \in Nat, StoredAs(fs[n], v, su[n]), ~IsTag(fs[n]),
           su[n].at = fs[n].at + 1, su[n].kind = fs[n].kind,
           Clear(st[n + 1], st[n + 1].at),
           now = "false" => stat = "false" \/ NoArm(st[n + 1]),
           k = IF st[n + 1].kind \in {"array", "pointer"} THEN h \ {q} ELSE h
    PROVE  FreeOK(su, now, k, n)
  <1> DEFINE f == fs[n]
             c == st[n + 1]
             g == su[n]
  <1>0. /\ \A i \in 1..n - 1 : su[i] = fs[i] /\ st[i] = fs[i] /\ After(st, i, n + 1) = st[i].at + 1
        /\ st[n] = f /\ st[n + 1] = c /\ su[n] = g
    <2>1. \A i \in 1..n - 1 : i # n + 1 /\ i \in 1..n
      OBVIOUS
    <2> QED
      BY <2>1 DEF Replaced, Pushed, After
  <1>1. /\ f.at \in Nat /\ StoredAs(f, v, g) /\ ~IsTag(f) /\ g.at = f.at + 1 /\ g.kind = f.kind
        /\ Clear(c, c.at) /\ (now = "false" => stat = "false" \/ NoArm(c))
        /\ k = IF c.kind \in {"array", "pointer"} THEN h \ {q} ELSE h
    OBVIOUS
  <1> HIDE DEF f, c, g
  <1>2. After(st, n, n + 1) = f.at + 1 /\ After(st, n + 1, n + 1) = c.at /\ After(su, n, n) = g.at
    BY <1>0 DEF After
  <1>3. /\ FreeFrame(f, f.at + 1) => FreeFrame(g, f.at + 1)
        /\ Gap(g, f.at + 1) => Gap(f, f.at + 1)
        /\ Clear(f, f.at + 1) => Clear(g, f.at + 1)
    BY <1>1, FreeStored
  <1>4. FreeRest(st, su, n)
    <2>1. /\ n + 1 \in Nat /\ n <= n + 1
          /\ \A j \in 1..n + 1 : FreeFrame(st[j], After(st, j, n + 1))
          /\ \A i, j \in 1..n + 1 : i < j /\ Gap(st[j], After(st, j, n + 1)) => Clear(st[i], After(st, i, n + 1))
      BY DEF FreeOK
    <2>2. /\ FreeFrame(st[n], f.at + 1) => FreeFrame(su[n], su[n].at)
          /\ Gap(su[n], su[n].at) => Gap(st[n], f.at + 1)
      BY <1>0, <1>1, <1>3
    <2>3. \A i \in 1..n - 1 : su[i] = st[i] /\ After(st, i, n + 1) = st[i].at + 1
      BY <1>0
    <2> QED
      BY <1>2, <2>1, <2>2, <2>3, FreeShort
  <1>5. ASSUME now = "false", NEW j \in 1..n PROVE Clear(su[j], After(su, j, n))
    <2>1. j \in 1..n + 1 /\ n + 1 \in 1..n + 1 /\ j < n + 1
      OBVIOUS
    <2>2. NoArm(c) => Gap(st[n + 1], After(st, n + 1, n + 1))
      BY <1>0 DEF Gap
    <2>3. Clear(st[j], After(st, j, n + 1))
      BY <1>1, <1>5, <2>1, <2>2 DEF FreeOK
    <2>4. CASE j = n
      BY <1>0, <1>1, <1>2, <1>3, <2>3, <2>4
    <2>5. CASE j # n
      <3>1. j \in 1..n - 1
        BY <2>5
      <3>2. su[j] = st[j] /\ After(su, j, n) = After(st, j, n + 1)
        BY <1>0, <3>1 DEF After
      <3> QED
        BY <2>3, <3>2
    <2> QED
      BY <2>4, <2>5
  <1>6. ASSUME NEW p \in Seq(Nat)
        PROVE  /\ FreeHas(st, p, n + 1) <=> FreeHas(su, p, n) \/ (p = q /\ c.kind \in {"array", "pointer"})
               /\ p = q => ~FreeHas(su, p, n)
    <2>0. n - 1 \in Nat /\ n - 1 + 1 = n /\ n + 1 - 1 = n
      OBVIOUS
    <2>1. /\ \A j \in 1..n - 1 : Held(su, p, j) <=> Held(st, p, j)
          /\ \A j \in 1..n - 1 : Linked(su, p, j) <=> Linked(st, p, j)
          /\ OnPath(su, p, n - 1) <=> OnPath(st, p, n - 1)
      <3>1. su[n].kind = st[n].kind /\ \A i \in 1..n - 1 : su[i] = st[i]
        BY <1>0, <1>1
      <3> QED
        BY <3>1, SameBelow
    <2>2. Held(su, p, n) <=> OnPath(st, p, n - 1) /\ Points(g, p, n - 1)
      BY <1>0, <2>1 DEF Held
    <2>3. Held(st, p, n) <=> OnPath(st, p, n - 1) /\ Points(f, p, n - 1)
      BY <1>0 DEF Held
    <2>4. p[n] # f.at => (Points(g, p, n - 1) <=> Points(f, p, n - 1))
      <3>1. ASSUME NEW m \in Nat, p[m + 1] # f.at PROVE Points(g, p, m) <=> Points(f, p, m)
        BY <1>1, <3>1, StoredPoints
      <3>2. p[n - 1 + 1] # f.at => (Points(g, p, n - 1) <=> Points(f, p, n - 1))
        BY <2>0, <3>1
      <3> QED
        BY <2>0, <3>2
    <2>5. Held(su, p, n) /\ p[n] >= g.at <=> Held(st, p, n) /\ p[n] >= f.at + 1
      <3>1. p[n] = f.at => ~(p[n] >= f.at + 1)
        BY <1>1
      <3> QED
        BY <1>1, <2>2, <2>3, <2>4, <3>1
    <2>6. ~(Held(st, p, n + 1) /\ p[n + 1] >= c.at)
      <3>1. Points(c, p, n) => p[n + 1] \in Nat
        BY PointsAt
      <3>2. Points(c, p, n) /\ p[n + 1] \in Nat => PtrAt(c, p[n + 1])
        BY DEF PtrAt
      <3>3. ~(Points(c, p, n) /\ p[n + 1] >= c.at)
        BY <1>1, <3>1, <3>2 DEF Clear
      <3> QED
        BY <1>0, <2>0, <3>3 DEF Held
    <2>7. p = q <=> Len(p) = n /\ OnPath(st, p, n)
      <3>1. p = q <=> Len(p) = n /\ OnPath(fs, p, n)
        BY HereIs
      <3>2. OnPath(fs, p, n) <=> OnPath(st, p, n)
        BY DEF OnPath, Pushed
      <3> QED
        BY <3>1, <3>2
    <2>8. Linked(st, p, n) <=> p = q /\ c.kind \in {"array", "pointer"}
      BY <1>0, <2>7 DEF Linked
    <2>9. ASSUME NEW j \in 1..n, p = q PROVE ~(Held(su, p, j) /\ p[j] >= After(su, j, n)) /\ ~(j \in 1..n - 1 /\ Linked(su, p, j))
      <3>1. p[j] = fs[j].at /\ p[j] \in Nat /\ Len(p) = n
        BY <2>9 DEF Here
      <3>2. After(su, j, n) = fs[j].at + 1
        <4>1. CASE j = n
          BY <1>1, <1>2, <4>1 DEF f
        <4>2. CASE j # n
          <5>1. j \in 1..n - 1
            BY <4>2
          <5> QED
            BY <1>0, <4>2, <5>1 DEF After
        <4> QED
          BY <4>1, <4>2
      <3> QED
        BY <3>1, <3>2 DEF Linked
    <2>10. \A j \in 1..n : j = n \/ j \in 1..n - 1
      OBVIOUS
    <2>11. n \in 1..n /\ \A j \in 1..n - 1 : j \in 1..n
      OBVIOUS
    <2>12. FreeHas(su, p, n) <=>
             \/ Held(su, p, n) /\ p[n] >= g.at
             \/ \E j \in 1..n - 1 : Held(st, p, j) /\ p[j] >= After(st, j, n + 1)
             \/ \E j \in 1..n - 1 : Linked(st, p, j)
      <3>1. \A j \in 1..n - 1 : After(su, j, n) = After(st, j, n + 1)
        BY <1>0 DEF After
      <3> QED
        BY <1>2, <2>1, <2>10, <2>11, <3>1 DEF FreeHas
    <2>13. FreeHas(st, p, n + 1) <=>
             \/ Held(st, p, n + 1) /\ p[n + 1] >= c.at
             \/ Held(st, p, n) /\ p[n] >= f.at + 1
             \/ \E j \in 1..n - 1 : Held(st, p, j) /\ p[j] >= After(st, j, n + 1)
             \/ Linked(st, p, n)
             \/ \E j \in 1..n - 1 : Linked(st, p, j)
      <3>1. \A j \in 1..n + 1 : j = n + 1 \/ j = n \/ j \in 1..n - 1
        OBVIOUS
      <3>2. n + 1 \in 1..n + 1 /\ n \in 1..n + 1 /\ \A j \in 1..n - 1 : j \in 1..n + 1
        OBVIOUS
      <3>3. (\E j \in 1..n + 1 : Held(st, p, j) /\ p[j] >= After(st, j, n + 1)) <=>
             \/ Held(st, p, n + 1) /\ p[n + 1] >= c.at
             \/ Held(st, p, n) /\ p[n] >= f.at + 1
             \/ \E j \in 1..n - 1 : Held(st, p, j) /\ p[j] >= After(st, j, n + 1)
        BY <1>2, <3>1, <3>2
      <3>4. (\E j \in 1..n : Linked(st, p, j)) <=> Linked(st, p, n) \/ \E j \in 1..n - 1 : Linked(st, p, j)
        BY <2>10, <2>11
      <3> QED
        BY <2>0, <3>3, <3>4 DEF FreeHas
    <2>14. p = q => ~FreeHas(su, p, n)
      BY <2>9, <2>11 DEF FreeHas
    <2> QED
      BY <2>5, <2>6, <2>8, <2>12, <2>13, <2>14
  <1>7. h \subseteq Seq(Nat) /\ \A p \in Seq(Nat) : p \in h <=> FreeHas(st, p, n + 1)
    BY DEF FreeOK, FreeHeap
  <1>8. FreeHeap(su, k, n)
    <2>1. k \subseteq Seq(Nat)
      BY <1>1, <1>7
    <2>2. \A p \in Seq(Nat) : p \in k <=> FreeHas(su, p, n)
      <3> TAKE p \in Seq(Nat)
      <3>1. p \in k <=> p \in h /\ ~(p = q /\ c.kind \in {"array", "pointer"})
        BY <1>1
      <3> QED
        BY <1>6, <1>7, <3>1
    <2> QED
      BY <2>1, <2>2 DEF FreeHeap
  <1>9. \A j \in 1..n : FreeFrame(su[j], After(su, j, n))
    <2>1. \A j \in 1..n : j = n \/ j \in 1..n - 1
      OBVIOUS
    <2> QED
      BY <1>0, <1>2, <1>4, <2>1 DEF FreeRest
  <1>10. \A i, j \in 1..n : i < j /\ Gap(su[j], After(su, j, n)) => Clear(su[i], After(su, i, n))
    BY <1>4 DEF FreeRest
  <1> QED
    BY <1>5, <1>8, <1>9, <1>10 DEF FreeOK

(* The frame m has no places left in front of it: what it holds is of no   *)
(* importance.                                                             *)
Ended(f, m) == ~NoArm(f) /\ \A i \in Nat : i >= m => ~Owns(f, i) /\ ~Opens(f, i) /\ ~Absent(f, i)

LEMMA EndedIs ==
    ASSUME NEW f, NEW m, Ended(f, m)
    PROVE  /\ Clear(f, m) /\ ~Gap(f, m) /\ FreeFrame(f, m)
           /\ \A p \in Seq(Nat), k \in Nat : Points(f, p, k) => ~(p[k + 1] >= m)
  <1>1. ASSUME NEW p \in Seq(Nat), NEW k \in Nat, Points(f, p, k), p[k + 1] >= m PROVE FALSE
    <2>1. PointsStep(f, p, k) /\ p[k + 1] \in Nat
      BY <1>1, PointsIs, PointsAt
    <2> QED
      BY <1>1, <2>1 DEF PointsStep, Ended
  <1>2. Clear(f, m)
    BY <1>1 DEF Clear, PtrAt
  <1>3. ~Gap(f, m)
    BY DEF Gap, GapAt, Ended
  <1>4. FreeFrame(f, m)
    BY <1>3 DEF FreeFrame, Orderly, Ended, Gap
  <1> QED
    BY <1>1, <1>2, <1>3, <1>4

LEMMA FreeSwap ==
    ASSUME NEW st, NEW su, NEW n \in Nat, NEW m \in 1..n - 1,
           \A i \in 1..n : i # m => su[i] = st[i],
           su[m].at = st[m].at, su[m].kind = st[m].kind,
           Ended(st[m], st[m].at + 1), Ended(su[m], st[m].at + 1),
           NEW stat, NEW h, FreeOK(st, stat, h, n)
    PROVE  FreeOK(su, stat, h, n)
  <1>1. \A j \in 1..n : After(su, j, n) = After(st, j, n) /\ su[j].kind = st[j].kind /\ su[j].at = st[j].at
    BY DEF After
  <1>2. After(st, m, n) = st[m].at + 1
    BY DEF After
  <1>3. \A j \in 1..n : FreeFrame(su[j], After(su, j, n))
    <2>1. ASSUME NEW j \in 1..n, j # m PROVE FreeFrame(su[j], After(su, j, n))
      BY <1>1, <2>1 DEF FreeOK
    <2> QED
      BY <1>1, <1>2, <2>1, EndedIs
  <1>4. \A j \in 1..n : Clear(st[j], After(st, j, n)) => Clear(su[j], After(su, j, n))
    BY <1>1, <1>2, EndedIs
  <1>5. \A j \in 1..n : Gap(su[j], After(su, j, n)) => Gap(st[j], After(st, j, n))
    BY <1>1, <1>2, EndedIs
  <1>6. ASSUME NEW p \in Seq(Nat) PROVE FreeHas(su, p, n) <=> FreeHas(st, p, n)
    <2>1. \A j \in 0..n : OnPath(su, p, j) <=> OnPath(st, p, j)
      BY <1>1 DEF OnPath
    <2>2. ASSUME NEW j \in 1..n PROVE Held(su, p, j) /\ p[j] >= After(su, j, n) <=> Held(st, p, j) /\ p[j] >= After(st, j, n)
      <3>1. j - 1 \in 0..n /\ j - 1 \in Nat /\ j - 1 + 1 = j
        OBVIOUS
      <3>2. CASE j = m
        <4>1. Points(st[m], p, m - 1) => ~(p[m - 1 + 1] >= st[m].at + 1)
          BY <3>1, <3>2, EndedIs
        <4>2. Points(su[m], p, m - 1) => ~(p[m - 1 + 1] >= st[m].at + 1)
          BY <3>1, <3>2, EndedIs
        <4> QED
          BY <1>1, <1>2, <3>1, <3>2, <4>1, <4>2 DEF Held
      <3>3. CASE j # m
        BY <1>1, <2>1, <3>1, <3>3 DEF Held
      <3> QED
        BY <3>2, <3>3
    <2>3. ASSUME NEW j \in 1..n - 1 PROVE Linked(su, p, j) <=> Linked(st, p, j)
      <3>1. j \in 0..n /\ j + 1 \in 1..n
        OBVIOUS
      <3> QED
        BY <1>1, <2>1, <3>1 DEF Linked
    <2> QED
      BY <2>2, <2>3 DEF FreeHas
  <1>7. FreeHeap(su, h, n)
    BY <1>6 DEF FreeOK, FreeHeap
  <1> QED
    BY <1>3, <1>4, <1>5, <1>7 DEF FreeOK

-----------------------------------------------------------------------------
(* The outermost call.                                                     *)
Whole(x, h) == Sound(x) /\ h \subseteq Seq(Nat) /\ \A p \in Seq(Nat) : p \in h <=> Points(x, p, 0)

LEMMA DecFirst ==
    ASSUME NEW st, IsZero(st[1]), IsFrame(st[1]), st[1].at = 1
    PROVE  DecOK(st, "none", {}, 1)
  <1> DEFINE f == st[1]
  <1>1. Blank(f)
    BY DEF Blank, Absent, IsZero
  <1>2. DecFrame(f, 1)
    BY <1>1, ZeroIs, PlacesAre DEF DecFrame
  <1>3. \A p \in Seq(Nat) : ~DecHas(st, p, 1)
    <2> TAKE p \in Seq(Nat)
    <2>1. ~Points(f, p, 0)
      BY ZeroIs
    <2> QED
      BY <2>1 DEF DecHas, Held
  <1> QED
    BY <1>2, <1>3 DEF DecOK, DecHeap, Full

LEMMA DecLast ==
    ASSUME NEW st, NEW stat, NEW h, DecOK(st, stat, h, 1), IsFrame(st[1]), NEW x,
           x = Node(st[1].kind, st[1].type, st[1].obj)
    PROVE  Whole(x, h)
  <1> DEFINE f == st[1]
  <1>1. Sound(f)
    BY DecEnds DEF DecOK
  <1>2. Alike(f, x)
    BY NodeIsAlike
  <1>3. Sound(x)
    BY <1>1, <1>2, AlikeIs
  <1>4. \A p \in Seq(Nat) : p \in h <=> Points(x, p, 0)
    <2> TAKE p \in Seq(Nat)
    <2>1. p \in h <=> DecHas(st, p, 1)
      BY DEF DecOK, DecHeap
    <2>2. DecHas(st, p, 1) <=> Points(f, p, 0)
      <3>1. OnPath(st, p, 1 - 1)
        BY DEF OnPath
      <3> QED
        BY <3>1 DEF DecHas, Held
    <2>3. Points(f, p, 0) <=> Points(x, p, 0)
      BY <1>2, AlikePoints
    <2> QED
      BY <2>1, <2>2, <2>3
  <1>5. h \subseteq Seq(Nat)
    BY DEF DecOK, DecHeap
  <1> QED
    BY <1>3, <1>4, <1>5 DEF Whole

LEMMA FreeFirst ==
    ASSUME NEW st, NEW h, NEW x, Whole(x, h), Alike(st[1], x), st[1].at = 1
    PROVE  FreeOK(st, "none", h, 1)
  <1> DEFINE f == st[1]
  <1>1. Sound(f)
    BY AlikeIs DEF Whole
  <1>2. FreeFrame(f, 1)
    BY <1>1, SoundIs DEF FreeFrame
  <1>3. \A p \in Seq(Nat) : p \in h <=> FreeHas(st, p, 1)
    <2> TAKE p \in Seq(Nat)
    <2>1. p \in h <=> Points(f, p, 0)
      BY AlikePoints DEF Whole
    <2>2. Points(f, p, 0) => p[1] >= 1
      <3>1. Points(f, p, 0) => p[0 + 1] >= 1
        BY PointsAt
      <3> QED
        BY <3>1
    <2>3. FreeHas(st, p, 1) <=> Points(f, p, 0) /\ p[1] >= 1
      <3>1. OnPath(st, p, 1 - 1)
        BY DEF OnPath
      <3> QED
        BY <3>1 DEF FreeHas, Held, After
    <2> QED
      BY <2>1, <2>2, <2>3
  <1>4. FreeHeap(st, h, 1)
    BY <1>3 DEF FreeHeap, Whole
  <1>5. \A j \in 1..1 : j = 1
    OBVIOUS
  <1> QED
    BY <1>2, <1>4, <1>5 DEF FreeOK, After

LEMMA FreeLast ==
    ASSUME NEW st, NEW stat, NEW h, FreeOK(st, stat, h, 1), Clear(st[1], st[1].at)
    PROVE  h = {}
  <1>1. ASSUME NEW p \in Seq(Nat), Points(st[1], p, 0), p[1] >= st[1].at PROVE FALSE
    <2>1. p[0 + 1] \in Nat
      BY <1>1, PointsAt
    <2>2. PtrAt(st[1], p[0 + 1])
      BY <1>1, <2>1 DEF PtrAt
    <2> QED
      BY <1>1, <2>1, <2>2 DEF Clear
  <1>2. \A p \in Seq(Nat) : ~FreeHas(st, p, 1)
    BY <1>1 DEF FreeHas, Held, After
  <1> QED
    BY <1>2 DEF FreeOK, FreeHeap

-----------------------------------------------------------------------------
(* The calls in progress when what the last one returned is stored.        *)
StackOf(fs, r, v) ==
  [j \in 1..Len(fs) |-> IF j = Len(fs) /\ r # "none" THEN Behind(fs[j], v) ELSE fs[j]]

IsCall(f) == f = [kind |-> f.kind, type |-> f.type, at |-> f.at, obj |-> f.obj]

InProgress(fs, r, v, t) ==
  /\ IsSeq(fs) /\ \A j \in 1..Len(fs) : IsCall(fs[j])
  /\ IsStack(StackOf(fs, r, v), t)
  /\ t \in DOMAIN Defs /\ r \in {"none", "true", "false"}

DecAll(fs, r, v, h, t) ==
  /\ InProgress(fs, r, v, t)
  /\ IF fs = << >> THEN Whole(Node("filter", t, v), h)
     ELSE DecOK(StackOf(fs, r, v), r, h, Len(fs))

FreeAll(fs, r, v, h, t) ==
  /\ InProgress(fs, r, v, t)
  /\ IF fs = << >> THEN h = {}
     ELSE FreeOK(StackOf(fs, r, v), r, h, Len(fs))

(* The sequence gs is fs with g behind it.                                 *)
Appends(fs, g, gs) == gs = Append(fs, g)

LEMMA AppendIs ==
    ASSUME NEW fs, IsSeq(fs), NEW g, NEW gs, Appends(fs, g, gs)
    PROVE  /\ IsSeq(gs) /\ Len(fs) \in Nat /\ Len(gs) = Len(fs) + 1
           /\ \A i \in 1..Len(fs) : gs[i] = fs[i]
           /\ gs[Len(fs) + 1] = g
           /\ gs # << >>
  <1>1. PICK S : fs \in Seq(S)
    BY DEF IsSeq
  <1>2. PICK T : T = S \cup {g}
    OBVIOUS
  <1>3. fs \in Seq(T) /\ g \in T
    BY <1>1, <1>2
  <1>4. gs = Append(fs, g)
    BY DEF Appends
  <1>5. gs \in Seq(T) /\ Len(fs) \in Nat /\ Len(gs) = Len(fs) + 1 /\ gs[Len(fs) + 1] = g
        /\ \A i \in 1..Len(fs) : gs[i] = fs[i]
    BY <1>3, <1>4
  <1>6. IsSeq(gs) /\ gs # << >>
    BY <1>5 DEF IsSeq
  <1> QED
    BY <1>5, <1>6

LEMMA FrontIs ==
    ASSUME NEW fs, IsSeq(fs), fs # << >>
    PROVE  /\ IsSeq(Front(fs)) /\ Len(fs) \in Nat \ {0} /\ Len(Front(fs)) = Len(fs) - 1
           /\ \A i \in 1..Len(fs) - 1 : Front(fs)[i] = fs[i]
           /\ Front(fs) = << >> <=> Len(fs) = 1
  <1>1. PICK S : fs \in Seq(S)
    BY DEF IsSeq
  <1>2. Len(fs) \in Nat \ {0}
    BY <1>1
  <1>3. PICK a : a = SubSeq(fs, 1, Len(fs) - 1)
    OBVIOUS
  <1>4. a \in Seq(S) /\ Len(a) = Len(fs) - 1 /\ \A i \in 1..Len(fs) - 1 : a[i] = fs[i]
    <2>1. 1 \in Int /\ Len(fs) - 1 \in Int /\ \A i \in 1..Len(fs) - 1 : fs[i] \in S
      BY <1>1, <1>2
    <2>2. /\ a \in Seq(S) /\ Len(a) = IF 1 <= Len(fs) - 1 THEN Len(fs) - 1 - 1 + 1 ELSE 0
          /\ \A i \in 1..Len(fs) - 1 - 1 + 1 : a[i] = fs[1 + i - 1]
      <3>1. \A m, l \in Int : (\A i \in m..l : fs[i] \in S) =>
              /\ SubSeq(fs, m, l) \in Seq(S) /\ Len(SubSeq(fs, m, l)) = IF m <= l THEN l - m + 1 ELSE 0
              /\ \A i \in 1..l - m + 1 : SubSeq(fs, m, l)[i] = fs[m + i - 1]
        BY SubSeqProperties
      <3> QED
        BY <1>3, <2>1, <3>1
    <2>3. Len(a) = Len(fs) - 1
      <3>1. \A m \in Nat \ {0} : (IF 1 <= m - 1 THEN m - 1 - 1 + 1 ELSE 0) = m - 1
        OBVIOUS
      <3> QED
        BY <1>2, <2>2, <3>1
    <2>4. \A i \in 1..Len(fs) - 1 : i \in 1..Len(fs) - 1 - 1 + 1 /\ 1 + i - 1 = i
      BY <1>2
    <2> QED
      BY <2>2, <2>3, <2>4
  <1>5. a = Front(fs)
    BY <1>3 DEF Front
  <1>6. IsSeq(a)
    BY <1>4 DEF IsSeq
  <1>7. a = << >> <=> Len(fs) = 1
    BY <1>2, <1>4
  <1> QED
    BY <1>2, <1>4, <1>5, <1>6, <1>7

LEMMA StackIs ==
    ASSUME NEW fs, IsSeq(fs), NEW r, NEW v, NEW st, st = StackOf(fs, r, v)
    PROVE  /\ IsSeq(st) /\ Len(fs) \in Nat /\ Len(st) = Len(fs)
           /\ \A j \in 1..Len(fs) - 1 : st[j] = fs[j]
           /\ Len(fs) > 0 => st[Len(fs)] = IF r = "none" THEN fs[Len(fs)] ELSE Behind(fs[Len(fs)], v)
           /\ r = "none" => st = fs
           /\ fs = << >> => st = << >>
           /\ fs # << >> => Len(fs) \in Nat \ {0}
  <1>1. PICK S : fs \in Seq(S)
    BY DEF IsSeq
  <1>2. Len(fs) \in Nat
    BY <1>1
  <1>3. PICK T : T = S \cup {Behind(fs[Len(fs)], v)}
    OBVIOUS
  <1>4. \A j \in 1..Len(fs) : fs[j] \in T /\ (j = Len(fs) => Behind(fs[j], v) \in T)
    BY <1>1, <1>3
  <1>5. st \in Seq(T) /\ Len(st) = Len(fs)
    BY <1>2, <1>4 DEF StackOf
  <1>6. \A j \in 1..Len(fs) : st[j] = IF j = Len(fs) /\ r # "none" THEN Behind(fs[j], v) ELSE fs[j]
    BY DEF StackOf
  <1>7. IsSeq(st)
    BY <1>5 DEF IsSeq
  <1>8. r = "none" => st = fs
    <2> HAVE r = "none"
    <2>1. \A j \in 1..Len(fs) : st[j] = fs[j]
      BY <1>6
    <2>2. fs \in Seq(T)
      BY <1>1, <1>3
    <2> QED
      BY <1>5, <2>1, <2>2, SeqEqual
  <1>9. fs = << >> => st = << >>
    BY <1>5
  <1>10. fs # << >> => Len(fs) \in Nat \ {0}
    BY <1>1, <1>2
  <1> QED
    BY <1>2, <1>5, <1>6, <1>7, <1>8, <1>9, <1>10

(* A call is made.                                                         *)
PushesTo(fs, g, gs) ==
  /\ fs # << >> /\ Appends(fs, g, gs)
  /\ IsCall(g) /\ IsFrame(g) /\ g.at = 1 /\ Leads(fs[Len(fs)], g)
HasPushed(fs, v, g, gs, w, t) ==
  /\ InProgress(gs, "none", w, t) /\ gs # << >>
  /\ Len(fs) \in Nat \ {0} /\ Len(gs) = Len(fs) + 1
  /\ Pushed(fs, gs, Len(fs)) /\ gs[Len(fs) + 1] = g /\ Here(fs, Owner(fs), Len(fs))
  /\ IsFrame(fs[Len(fs)])
  /\ StackOf(fs, "none", v) = fs /\ StackOf(gs, "none", w) = gs

LEMMA Pushes ==
    ASSUME NEW fs, NEW v, NEW w, NEW t, InProgress(fs, "none", v, t),
           NEW g, NEW gs, PushesTo(fs, g, gs)
    PROVE  HasPushed(fs, v, g, gs, w, t)
  <1>1. PICK st, su, n : st = StackOf(fs, "none", v) /\ su = StackOf(gs, "none", w) /\ n = Len(fs)
    OBVIOUS
  <1>2. IsSeq(fs) /\ (\A j \in 1..n : IsCall(fs[j])) /\ IsStack(st, t) /\ t \in DOMAIN Defs
    BY <1>1 DEF InProgress
  <1>3. st = fs /\ n \in Nat \ {0}
    BY <1>1, <1>2, StackIs DEF PushesTo
  <1>4. IsSeq(gs) /\ gs # << >> /\ Len(gs) = n + 1 /\ gs[n + 1] = g /\ \A i \in 1..n : gs[i] = fs[i]
    BY <1>1, <1>2, AppendIs DEF PushesTo
  <1>5. su = gs
    BY <1>1, <1>4, StackIs
  <1>6. Pushed(fs, gs, n)
    BY <1>1, <1>4 DEF Pushed
  <1>7. IsStack(gs, t)
    <2>1. IsSeq(gs) /\ IsStack(fs, t) /\ IsFrame(gs[n + 1]) /\ Leads(fs[n], gs[n + 1])
      BY <1>1, <1>2, <1>3, <1>4 DEF PushesTo
    <2> QED
      BY <1>3, <1>6, <2>1, StackPushed
  <1>8. \A j \in 1..n + 1 : IsCall(gs[j])
    <2>1. \A j \in 1..n + 1 : j = n + 1 \/ j \in 1..n
      BY <1>3
    <2> QED
      BY <1>2, <1>4, <2>1 DEF PushesTo
  <1>9. InProgress(gs, "none", w, t)
    BY <1>1, <1>2, <1>4, <1>5, <1>7, <1>8 DEF InProgress
  <1>10. Here(fs, Owner(fs), n) /\ IsFrame(fs[n])
    <2>1. \A i \in 1..n : fs[i].at \in Nat
      BY <1>1, <1>2, <1>3 DEF IsStack, IsFrame
    <2>2. PICK q : q = [i \in 1..n |-> fs[i].at]
      OBVIOUS
    <2>3. q \in Seq(Nat) /\ Len(q) = n /\ \A i \in 1..n : q[i] = fs[i].at
      BY <1>3, <2>1, <2>2
    <2>4. q = Owner(fs)
      BY <1>1, <2>2 DEF Owner
    <2>5. n \in 1..n
      BY <1>3
    <2> QED
      BY <1>1, <1>2, <1>3, <2>3, <2>4, <2>5 DEF Here, IsStack
  <1> QED
    BY <1>1, <1>3, <1>4, <1>5, <1>6, <1>9, <1>10 DEF HasPushed

(* A call at the current place has returned.                               *)
LEMMA GivesBack ==
    ASSUME NEW fs, NEW w, NEW t, InProgress(fs, "none", w, t), fs # << >>,
           NEW r \in {"true", "false"}, NEW v, CanStore(fs[Len(fs)], v)
    PROVE  /\ InProgress(fs, r, v, t) /\ Len(fs) \in Nat \ {0} /\ IsFrame(fs[Len(fs)])
           /\ Replaced(StackOf(fs, "none", w), StackOf(fs, r, v), Len(fs))
           /\ StackOf(fs, "none", w)[Len(fs)] = fs[Len(fs)]
           /\ StackOf(fs, r, v)[Len(fs)] = Behind(fs[Len(fs)], v)
           /\ Here(StackOf(fs, "none", w), Owner(fs), Len(fs))
  <1> DEFINE n == Len(fs)
  <1>1. PICK st, su : st = StackOf(fs, "none", w) /\ su = StackOf(fs, r, v)
    OBVIOUS
  <1>2. IsSeq(fs) /\ (\A j \in 1..n : IsCall(fs[j])) /\ IsStack(st, t) /\ t \in DOMAIN Defs
    BY <1>1 DEF InProgress
  <1>3. st = fs /\ n \in Nat \ {0}
    BY <1>1, <1>2, StackIs
  <1>4. /\ IsSeq(su) /\ Len(su) = n /\ su[n] = Behind(fs[n], v) /\ \A i \in 1..n - 1 : su[i] = fs[i]
    BY <1>1, <1>2, <1>3, StackIs
  <1>5. IsFrame(fs[n])
    <2>1. n \in 1..n
      BY <1>3
    <2> QED
      BY <1>2, <1>3, <2>1 DEF IsStack
  <1>6. CanStore(fs[n], v)
    OBVIOUS
  <1> HIDE DEF n
  <1>7. Replaced(fs, su, n)
    BY <1>4 DEF Replaced, n
  <1>8. IsFrame(su[n]) /\ su[n].kind = fs[n].kind /\ su[n].type = fs[n].type
    BY <1>4, <1>5, <1>6, BehindIsFrame
  <1>9. IsStack(su, t)
    <2>1. IsSeq(su) /\ IsStack(fs, t)
      BY <1>2, <1>3, <1>4
    <2> QED
      BY <1>3, <1>7, <1>8, <2>1, StackReplaced
  <1>10. InProgress(fs, r, v, t)
    BY <1>1, <1>2, <1>9 DEF InProgress, n
  <1>11. Here(fs, Owner(fs), n)
    <2>1. \A i \in 1..n : fs[i].at \in Nat
      BY <1>2, <1>3 DEF IsStack, IsFrame, n
    <2>2. PICK q : q = [i \in 1..n |-> fs[i].at]
      OBVIOUS
    <2>3. q \in Seq(Nat) /\ Len(q) = n /\ \A i \in 1..n : q[i] = fs[i].at
      BY <1>3, <2>1, <2>2
    <2>4. q = Owner(fs)
      BY <2>2 DEF Owner, n
    <2> QED
      BY <2>3, <2>4 DEF Here
  <1> QED
    BY <1>1, <1>3, <1>4, <1>5, <1>7, <1>10, <1>11 DEF n

(* The innermost call returns to its caller.                               *)
LEMMA Returns ==
    ASSUME NEW fs, NEW r, NEW w, NEW t, InProgress(fs, r, w, t), fs # << >>,
           NEW now \in {"true", "false"}, NEW v, NEW n, n = Len(fs) - 1, NEW st, st = StackOf(fs, r, w),
           NEW su, su = StackOf(Front(fs), now, v),
           st[n + 1].kind \in Lists => IsSeq(v)
    PROVE  /\ InProgress(Front(fs), now, v, t)
           /\ n \in Nat /\ Len(fs) = n + 1 /\ Len(Front(fs)) = n /\ IsFrame(st[n + 1])
           /\ Front(fs) = << >> => n = 0 /\ st[1].kind = "filter" /\ st[1].type = t
           /\ Front(fs) # << >> =>
                LET gs == Front(fs)
                IN /\ n \in Nat \ {0} /\ IsFrame(gs[n]) /\ Leads(gs[n], st[n + 1])
                   /\ Pushed(gs, st, n) /\ Replaced(gs, su, n) /\ su[n] = Behind(gs[n], v)
                   /\ Here(gs, Owner(gs), n)
  <1>1. IsSeq(fs) /\ (\A j \in 1..Len(fs) : IsCall(fs[j])) /\ IsStack(st, t) /\ t \in DOMAIN Defs
    BY DEF InProgress
  <1>2. PICK gs : gs = Front(fs)
    OBVIOUS
  <1>3. /\ IsSeq(gs) /\ n \in Nat /\ Len(fs) = n + 1 /\ Len(gs) = n /\ \A i \in 1..n : gs[i] = fs[i]
        /\ gs = << >> <=> n = 0
    <2>1. /\ IsSeq(gs) /\ Len(fs) \in Nat \ {0} /\ Len(gs) = Len(fs) - 1
          /\ \A i \in 1..Len(fs) - 1 : gs[i] = fs[i]
          /\ gs = << >> <=> Len(fs) = 1
      BY <1>1, <1>2, FrontIs
    <2>2. n \in Nat /\ Len(fs) = n + 1 /\ Len(fs) - 1 = n /\ (Len(fs) = 1 <=> n = 0)
      BY <2>1
    <2> QED
      BY <2>1, <2>2
  <1>4. IsSeq(st) /\ Len(st) = n + 1 /\ \A i \in 1..n : st[i] = fs[i]
    BY <1>1, <1>3, StackIs
  <1>5. IsFrame(st[n + 1])
    <2>1. n + 1 \in 1..n + 1
      BY <1>3
    <2> QED
      BY <1>1, <1>4, <2>1 DEF IsStack
  <1>6. IsSeq(su) /\ Len(su) = n /\ (\A i \in 1..n - 1 : su[i] = gs[i]) /\ (n > 0 => su[n] = Behind(gs[n], v))
    <2>1. su = StackOf(gs, now, v) /\ IsSeq(gs) /\ now # "none" /\ Len(gs) = n
      BY <1>2, <1>3
    <2>2. /\ IsSeq(su) /\ Len(su) = Len(gs) /\ \A i \in 1..Len(gs) - 1 : su[i] = gs[i]
          /\ Len(gs) > 0 => su[Len(gs)] = IF now = "none" THEN gs[Len(gs)] ELSE Behind(gs[Len(gs)], v)
      BY <2>1, StackIs
    <2> QED
      BY <2>1, <2>2
  <1>7. \A j \in 1..n : IsCall(gs[j])
    BY <1>1, <1>3
  <1>8. CASE n = 0
    <2>1. IsStack(su, t)
      BY <1>6, <1>8 DEF IsStack
    <2>2. InProgress(gs, now, v, t)
      BY <1>1, <1>2, <1>3, <1>7, <2>1 DEF InProgress
    <2>3. st[1].kind = "filter" /\ st[1].type = t
      BY <1>1, <1>4, <1>8 DEF IsStack
    <2> QED
      BY <1>2, <1>3, <1>5, <1>8, <2>2, <2>3
  <1>9. CASE n # 0
    <2>0. n \in Nat \ {0} /\ n \in 1..n /\ n \in 1..n + 1
      BY <1>3, <1>9
    <2>1. IsFrame(gs[n]) /\ Leads(gs[n], st[n + 1])
      <3>1. gs[n] = st[n]
        BY <1>3, <1>4, <2>0
      <3>2. n \in 1..Len(st) /\ n \in 1..Len(st) - 1
        BY <1>4, <2>0
      <3> QED
        BY <1>1, <3>1, <3>2 DEF IsStack
    <2>2. Pushed(gs, st, n) /\ Replaced(gs, su, n)
      BY <1>3, <1>4, <1>6 DEF Pushed, Replaced
    <2>3. IsStack(gs, t)
      <3>1. \A j \in 1..n : gs[j] = st[j] /\ j \in 1..Len(st)
        <4>1. n \in Nat /\ Len(st) = n + 1
          BY <1>3, <1>4
        <4>2. \A j \in 1..n : j \in 1..Len(st)
          BY <4>1
        <4>3. \A j \in 1..n : gs[j] = st[j]
          BY <1>3, <1>4
        <4> QED
          BY <4>2, <4>3
      <3>2. \A j \in 1..n - 1 : j \in 1..n /\ j + 1 \in 1..n /\ j \in 1..Len(st) - 1
        BY <1>3, <1>4
      <3>3. 1 \in 1..n
        BY <2>0
      <3> QED
        BY <1>1, <1>3, <1>4, <3>1, <3>2, <3>3 DEF IsStack
    <2>4. CanStore(gs[n], v)
      BY <2>1, LeadsIs
    <2>5. IsFrame(su[n]) /\ su[n].kind = gs[n].kind /\ su[n].type = gs[n].type
      BY <1>6, <2>0, <2>1, <2>4, BehindIsFrame
    <2>6. IsStack(su, t)
      BY <1>6, <2>0, <2>2, <2>3, <2>5, StackReplaced
    <2>7. InProgress(gs, now, v, t)
      BY <1>1, <1>2, <1>3, <1>7, <2>6 DEF InProgress
    <2>8. Here(gs, Owner(gs), n)
      <3>1. \A i \in 1..n : gs[i].at \in Nat
        BY <1>3, <2>3 DEF IsStack, IsFrame
      <3>2. PICK q : q = [i \in 1..n |-> gs[i].at]
        OBVIOUS
      <3>3. q \in Seq(Nat) /\ Len(q) = n /\ \A i \in 1..n : q[i] = gs[i].at
        BY <1>3, <3>1, <3>2
      <3>4. q = Owner(gs)
        BY <1>3, <3>2 DEF Owner
      <3> QED
        BY <3>3, <3>4 DEF Here
    <2>9. gs # << >>
      BY <1>3, <1>9
    <2> QED
      BY <1>2, <1>3, <1>5, <1>6, <2>0, <2>1, <2>2, <2>7, <2>8, <2>9
  <1> QED
    BY <1>8, <1>9

-----------------------------------------------------------------------------
LEMMA DecPushes ==
    ASSUME NEW fs, NEW v, NEW w, NEW h, NEW t, DecAll(fs, "none", v, h, t),
           NEW g, NEW gs, PushesTo(fs, g, gs), Blank(g),
           NEW k, k = IF g.kind \in {"array", "pointer"} THEN h \cup {Owner(fs)} ELSE h
    PROVE  DecAll(gs, "none", w, k, t)
  <1>1. PICK n, q : n = Len(fs) /\ q = Owner(fs)
    OBVIOUS
  <1>2. InProgress(fs, "none", v, t) /\ fs # << >> /\ g.at = 1
    BY DEF DecAll, PushesTo
  <1>3. /\ InProgress(gs, "none", w, t) /\ gs # << >> /\ n \in Nat \ {0} /\ Len(gs) = n + 1
        /\ Pushed(fs, gs, n) /\ gs[n + 1] = g /\ Here(fs, q, n)
        /\ StackOf(fs, "none", v) = fs /\ StackOf(gs, "none", w) = gs
    <2>1. HasPushed(fs, v, g, gs, w, t)
      BY <1>2, Pushes
    <2> QED
      BY <1>1, <2>1 DEF HasPushed
  <1>4. /\ k = IF gs[n + 1].kind \in {"array", "pointer"} THEN h \cup {q} ELSE h
        /\ gs[n + 1].at = 1 /\ Blank(gs[n + 1])
    BY <1>1, <1>2, <1>3
  <1>5. DecOK(fs, "none", h, n)
    BY <1>1, <1>2, <1>3 DEF DecAll
  <1>6. DecOK(gs, "none", k, n + 1)
    BY <1>3, <1>4, <1>5, DecPush
  <1> QED
    BY <1>3, <1>6 DEF DecAll

LEMMA DecGives ==
    ASSUME NEW fs, NEW w, NEW h, NEW t, DecAll(fs, "none", w, h, t), fs # << >>,
           NEW r \in {"true", "false"}, NEW v, CanStore(fs[Len(fs)], v),
           SlotOpens(fs[Len(fs)], v) => Hollow(SlotNode(fs[Len(fs)], v)),
           NEW k, k = IF SlotOwns(fs[Len(fs)], v) THEN h \cup {Owner(fs)} ELSE h
    PROVE  DecAll(fs, r, v, k, t)
  <1>1. PICK st, su, n, q : st = StackOf(fs, "none", w) /\ su = StackOf(fs, r, v) /\ n = Len(fs) /\ q = Owner(fs)
    OBVIOUS
  <1>2. InProgress(fs, "none", w, t) /\ DecOK(st, "none", h, n)
    BY <1>1 DEF DecAll
  <1>3. /\ InProgress(fs, r, v, t) /\ n \in Nat \ {0}
        /\ Replaced(st, su, n) /\ st[n] = fs[n] /\ su[n] = Behind(st[n], v) /\ Here(st, q, n) /\ IsFrame(st[n])
    BY <1>1, <1>2, GivesBack
  <1>4. /\ CanStore(st[n], v) /\ (SlotOpens(st[n], v) => Hollow(SlotNode(st[n], v)))
        /\ k = IF SlotOwns(st[n], v) THEN h \cup {q} ELSE h
    BY <1>1, <1>3
  <1>5. DecOK(su, r, k, n)
    BY <1>2, <1>3, <1>4, DecGive
  <1> QED
    BY <1>1, <1>3, <1>5 DEF DecAll

LEMMA DecReturns ==
    ASSUME NEW fs, NEW r, NEW w, NEW h, NEW t, DecAll(fs, r, w, h, t), fs # << >>,
           NEW st, st = StackOf(fs, r, w), NEW c, c = st[Len(fs)],
           NEW now \in {"true", "false"}, now = "false" \/ ~Gappy(c),
           c.kind = "pointer" => c.obj # << >>
    PROVE  DecAll(Front(fs), now, c.obj, h, t)
  <1>1. PICK gs, su, n : gs = Front(fs) /\ su = StackOf(gs, now, c.obj) /\ n = Len(fs) - 1
    OBVIOUS
  <1>2. InProgress(fs, r, w, t) /\ DecOK(st, r, h, Len(fs))
    BY DEF DecAll
  <1>3. IsSeq(fs) /\ IsStack(st, t)
    BY <1>2 DEF InProgress
  <1>4. n \in Nat /\ Len(fs) = n + 1 /\ Len(st) = n + 1 /\ c = st[n + 1]
    BY <1>1, <1>3, FrontIs, StackIs
  <1>5. IsFrame(c)
    <2>1. n + 1 \in 1..n + 1
      BY <1>4
    <2> QED
      BY <1>3, <1>4, <2>1 DEF IsStack
  <1>6. st[n + 1].kind \in Lists => IsSeq(c.obj)
    BY <1>4, <1>5 DEF IsFrame, Even, Lists
  <1>7. /\ InProgress(gs, now, c.obj, t) /\ Len(gs) = n
        /\ gs = << >> => n = 0 /\ st[1].kind = "filter" /\ st[1].type = t
        /\ gs # << >> =>
             /\ n \in Nat \ {0} /\ IsFrame(gs[n]) /\ Leads(gs[n], st[n + 1])
             /\ Pushed(gs, st, n) /\ Replaced(gs, su, n) /\ su[n] = Behind(gs[n], c.obj)
    BY <1>1, <1>2, <1>6, Returns
  <1>8. CASE gs = << >>
    <2>1. n = 0 /\ c = st[1] /\ c.kind = "filter" /\ c.type = t /\ DecOK(st, r, h, 1)
      BY <1>2, <1>4, <1>7, <1>8
    <2>2. Whole(Node("filter", t, c.obj), h)
      BY <1>5, <2>1, DecLast
    <2> QED
      BY <1>1, <1>7, <1>8, <2>2 DEF DecAll
  <1>9. CASE gs # << >>
    <2>1. DecOK(st, r, h, n + 1) /\ IsFrame(st[n + 1]) /\ su[n] = Behind(gs[n], st[n + 1].obj)
          /\ (now = "false" \/ ~Gappy(st[n + 1])) /\ (st[n + 1].kind = "pointer" => st[n + 1].obj # << >>)
      BY <1>2, <1>4, <1>5, <1>7, <1>9
    <2>2. DecOK(su, now, h, n)
      BY <1>7, <1>9, <2>1, DecPop
    <2> QED
      BY <1>1, <1>7, <1>9, <2>2 DEF DecAll
  <1> QED
    BY <1>8, <1>9

LEMMA FreePushes ==
    ASSUME NEW fs, NEW v, NEW w, NEW h, NEW t, FreeAll(fs, "none", v, h, t),
           NEW g, NEW gs, PushesTo(fs, g, gs), Enters(fs[Len(fs)], g)
    PROVE  FreeAll(gs, "none", w, h, t)
  <1>1. PICK n : n = Len(fs)
    OBVIOUS
  <1>2. InProgress(fs, "none", v, t) /\ fs # << >> /\ g.at = 1
    BY DEF FreeAll, PushesTo
  <1>3. /\ InProgress(gs, "none", w, t) /\ gs # << >> /\ n \in Nat \ {0} /\ Len(gs) = n + 1
        /\ Pushed(fs, gs, n) /\ gs[n + 1] = g /\ IsFrame(fs[n])
        /\ StackOf(fs, "none", v) = fs /\ StackOf(gs, "none", w) = gs
    <2>1. HasPushed(fs, v, g, gs, w, t)
      BY <1>2, Pushes
    <2> QED
      BY <1>1, <2>1 DEF HasPushed
  <1>4. fs[n].at \in Nat /\ gs[n + 1].at = 1 /\ Enters(fs[n], gs[n + 1])
    BY <1>1, <1>2, <1>3 DEF IsFrame
  <1>5. FreeOK(fs, "none", h, n)
    BY <1>1, <1>2, <1>3 DEF FreeAll
  <1>6. FreeOK(gs, "none", h, n + 1)
    BY <1>3, <1>4, <1>5, FreePush
  <1> QED
    BY <1>3, <1>6 DEF FreeAll

(* xdr_pointer frees what the pointer at the place points to.              *)
LEMMA FreePointer ==
    ASSUME NEW fs, NEW v, NEW w, NEW h, NEW t, FreeAll(fs, "none", v, h, t),
           NEW f, f = fs[Len(fs)], NEW a, NEW o, IsSeq(o), o # << >>, a \in DOMAIN Defs,
           Opens(f, f.at), Owns(f, f.at), Inner(f, f.at) = Node("pointer", a, o),
           NEW b, NEW fb, b.kind = "pointer", PushesTo(fs, b, fb),
           NEW g, NEW gs, g = Frame("filter", a, o[1]), Appends(fb, g, gs),
           b.type = a, b.obj = << >>
    PROVE  FreeAll(gs, "none", w, h, t)
  <1>1. PICK n : n = Len(fs)
    OBVIOUS
  <1>2. InProgress(fs, "none", v, t) /\ fs # << >> /\ b.at = 1
    BY DEF FreeAll, PushesTo
  <1>3. g.kind = "filter" /\ g.type = a /\ g.at = 1 /\ g.obj = o[1] /\ IsCall(g)
    BY DEF Frame, IsCall
  <1>4. a \notin Scalars
    BY CopyAssumption
  <1>5. /\ InProgress(fb, "none", v, t) /\ fb # << >> /\ n \in Nat \ {0} /\ Len(fb) = n + 1
        /\ Pushed(fs, fb, n) /\ fb[n + 1] = b /\ IsFrame(f) /\ StackOf(fs, "none", v) = fs
    <2>1. HasPushed(fs, v, b, fb, v, t)
      BY <1>2, Pushes
    <2> QED
      BY <1>1, <2>1 DEF HasPushed
  <1>6. FreeOK(fs, "none", h, n)
    BY <1>1, <1>2, <1>5 DEF FreeAll
  <1>7. FreeFrame(f, f.at)
    <2>1. n \in 1..n
      BY <1>5
    <2> QED
      BY <1>1, <1>6, <2>1 DEF FreeOK, After
  <1>8. PICK x, y : x = Node("pointer", a, o) /\ y = Node("filter", a, o[1])
    OBVIOUS
  <1>9. x.kind = "pointer" /\ x.type = a /\ x.obj = o
    BY <1>8 DEF Node
  <1>10. Len(o) \in Nat /\ Len(o) >= 1
    BY DEF IsSeq
  <1>11. Opens(x, 1) /\ Inner(x, 1) = y
    BY <1>4, <1>8, <1>9, <1>10 DEF Opens, Inner
  <1>12. Sound(x)
    BY <1>5, <1>7, <1>8 DEF FreeFrame, IsFrame
  <1>13. Sound(y)
    BY <1>11, <1>12, SoundIs
  <1>14. Alike(g, y)
    BY <1>3, <1>8, NodeIsAlike
  <1>15. IsFrame(g)
    <2>1. Even(g)
      BY <1>13, <1>14, SoundIs DEF Alike
    <2> QED
      BY <1>3, <2>1 DEF IsFrame, Lists
  <1>16. PushesTo(fb, g, gs)
    <2>1. Leads(b, g)
      BY <1>2, <1>3, <1>4 DEF Leads
    <2> QED
      BY <1>3, <1>5, <1>15, <2>1 DEF PushesTo
  <1>17. /\ InProgress(gs, "none", w, t) /\ gs # << >> /\ Len(gs) = Len(fb) + 1
         /\ Pushed(fb, gs, Len(fb)) /\ gs[Len(fb) + 1] = g /\ StackOf(gs, "none", w) = gs
    <2>1. HasPushed(fb, v, g, gs, w, t)
      BY <1>5, <1>16, Pushes
    <2> QED
      BY <2>1 DEF HasPushed
  (* As if the frame of xdr_pointer held what it points to. *)
  <1>18. PICK bb : bb = [kind |-> "pointer", type |-> a, at |-> 1, obj |-> o]
    OBVIOUS
  <1>19. bb.kind = "pointer" /\ bb.type = a /\ bb.at = 1 /\ bb.obj = o
    BY <1>18
  <1>20. PICK tb, tu : Appends(fs, bb, tb) /\ Appends(tb, g, tu)
    BY DEF Appends
  <1>21. IsSeq(fs)
    BY <1>2 DEF InProgress
  <1>22. IsSeq(tb) /\ Len(tb) = n + 1 /\ tb[n + 1] = bb /\ \A i \in 1..n : tb[i] = fs[i]
    BY <1>1, <1>20, <1>21, AppendIs
  <1>23. Len(tu) = n + 1 + 1 /\ tu[n + 1 + 1] = g /\ \A i \in 1..n + 1 : tu[i] = tb[i]
    BY <1>20, <1>22, AppendIs
  <1>24. Pushed(fs, tb, n) /\ Pushed(tb, tu, n + 1)
    BY <1>1, <1>22, <1>23 DEF Pushed
  <1>25. Alike(bb, x)
    BY <1>8, <1>19, NodeIsAlike
  <1>26. Enters(fs[n], tb[n + 1])
    BY <1>1, <1>8, <1>19, <1>22, <1>25 DEF Enters
  <1>27. fs[n].at \in Nat
    BY <1>1, <1>5 DEF IsFrame
  <1>28. FreeOK(tb, "none", h, n + 1)
    BY <1>5, <1>6, <1>19, <1>22, <1>24, <1>26, <1>27, FreePush
  <1>29. Enters(tb[n + 1], tu[n + 1 + 1])
    <2>1. Opens(bb, 1) /\ Inner(bb, 1) = y /\ ~Owns(bb, 1)
      <3>1. ~Owns(bb, 1)
        BY <1>19 DEF Owns, Stores
      <3> QED
        BY <1>11, <1>25, <3>1 DEF Alike
    <2> QED
      BY <1>3, <1>14, <1>19, <1>22, <1>23, <2>1 DEF Enters
  <1>30. FreeOK(tu, "none", h, n + 1 + 1)
    <2>1. n + 1 \in Nat \ {0} /\ tb[n + 1].at \in Nat /\ tu[n + 1 + 1].at = 1
      BY <1>3, <1>5, <1>19, <1>22, <1>23
    <2> QED
      BY <1>24, <1>28, <1>29, <2>1, FreePush
  <1>31. Ended(bb, 2) /\ Ended(b, 2)
    <2>1. \A i \in Nat : i >= 2 => i # 1
      OBVIOUS
    <2> QED
      BY <1>19, <2>1 DEF Ended, NoArm, Owns, Stores, Opens, Absent
  <1>32. PICK N, m : N = n + 1 + 1 /\ m = n + 1
    OBVIOUS
  <1>33. Len(gs) = N /\ gs[N] = g /\ \A i \in 1..m : gs[i] = fb[i]
    BY <1>5, <1>17, <1>32 DEF Pushed
  <1>34. FreeOK(gs, "none", h, N)
    <2>1. N \in Nat /\ m \in 1..N - 1 /\ 1 + 1 = 2
      BY <1>5, <1>32
    <2>2. \A i \in 1..N : i # m => gs[i] = tu[i]
      <3> TAKE i \in 1..N
      <3> HAVE i # m
      <3>1. i = N \/ i \in 1..n
        BY <1>5, <1>32
      <3>2. CASE i = N
        BY <1>23, <1>32, <1>33, <3>2
      <3>3. CASE i \in 1..n
        <4>1. i \in 1..m
          BY <1>5, <1>32, <3>3
        <4> QED
          BY <1>5, <1>22, <1>23, <1>32, <1>33, <3>3, <4>1 DEF Pushed
      <3> QED
        BY <3>1, <3>2, <3>3
    <2>3. gs[m] = b /\ tu[m] = bb
      <3>1. m \in 1..m /\ m \in 1..n + 1
        BY <1>5, <1>32
      <3> QED
        BY <1>5, <1>22, <1>23, <1>32, <1>33, <3>1
    <2>4. /\ gs[m].at = tu[m].at /\ gs[m].kind = tu[m].kind
          /\ Ended(tu[m], tu[m].at + 1) /\ Ended(gs[m], tu[m].at + 1)
      BY <1>2, <1>19, <1>31, <2>1, <2>3
    <2>5. FreeOK(tu, "none", h, N)
      BY <1>30, <1>32
    <2> QED
      BY <2>1, <2>2, <2>4, <2>5, FreeSwap
  <1>35. Len(gs) = N
    BY <1>33
  <1> QED
    BY <1>17, <1>34, <1>35 DEF FreeAll

-----------------------------------------------------------------------------
LEMMA FreeGives ==
    ASSUME NEW fs, NEW w, NEW h, NEW t, FreeAll(fs, "none", w, h, t), fs # << >>,
           NEW v, CanStore(fs[Len(fs)], v), NEW f, f = fs[Len(fs)],
           Opens(f, f.at) => Hollow(Inner(f, f.at)),
           NEW k, k = h \ {Owner(fs)} \/ (k = h /\ ~Owns(f, f.at))
    PROVE  FreeAll(fs, "true", v, k, t)
  <1>1. PICK st, su, n, q : st = StackOf(fs, "none", w) /\ su = StackOf(fs, "true", v) /\ n = Len(fs) /\ q = Owner(fs)
    OBVIOUS
  <1>2. InProgress(fs, "none", w, t) /\ FreeOK(st, "none", h, n)
    BY <1>1 DEF FreeAll
  <1>3. /\ InProgress(fs, "true", v, t) /\ n \in Nat \ {0}
        /\ Replaced(st, su, n) /\ st[n] = f /\ su[n] = Behind(f, v) /\ Here(st, q, n) /\ IsFrame(f)
    BY <1>1, <1>2, GivesBack
  <1>4. PICK g : g = Behind(f, v)
    OBVIOUS
  <1>5. StoredAs(f, v, g) /\ g.at = f.at + 1 /\ g.kind = f.kind /\ f.at \in Nat
    BY <1>3, <1>4, BehindIsFrame DEF IsFrame
  <1>6. /\ st[n].at \in Nat /\ StoredAs(st[n], v, su[n])
        /\ su[n].at = st[n].at + 1 /\ su[n].kind = st[n].kind
        /\ Opens(st[n], st[n].at) => Hollow(Inner(st[n], st[n].at))
    BY <1>3, <1>4, <1>5
  <1>7. FreeOK(su, "true", h \ {q}, n) /\ (~Owns(f, f.at) => q \notin h)
    <2>1. /\ FreeOK(su, "true", h \ {q}, n)
          /\ ~Owns(st[n], st[n].at) => q \notin h
      BY <1>2, <1>3, <1>6, FreeGive
    <2> QED
      BY <1>3, <2>1
  <1>8. k = h \ {q}
    BY <1>1, <1>7
  <1> QED
    BY <1>1, <1>3, <1>7, <1>8 DEF FreeAll

(* The call c returns v, and its block is released.                        *)
Leaves(c, r, h, q, now, v, k) ==
  /\ now \in {"true", "false"}
  /\ now = "false" => r = "false" \/ NoArm(c)
  /\ Clear(c, c.at)
  /\ c.kind \in Lists => IsSeq(v)
  /\ k = IF c.kind \in {"array", "pointer"} THEN h \ {q} ELSE h

LEMMA FreeReturns ==
    ASSUME NEW fs, NEW r, NEW w, NEW h, NEW t, FreeAll(fs, r, w, h, t), fs # << >>,
           NEW st, st = StackOf(fs, r, w), NEW c, c = st[Len(fs)],
           NEW now, NEW v, NEW k, Leaves(c, r, h, Owner(Front(fs)), now, v, k)
    PROVE  FreeAll(Front(fs), now, v, k, t)
  <1>0. /\ now \in {"true", "false"} /\ (now = "false" => r = "false" \/ NoArm(c))
        /\ Clear(c, c.at) /\ (c.kind \in Lists => IsSeq(v))
        /\ k = IF c.kind \in {"array", "pointer"} THEN h \ {Owner(Front(fs))} ELSE h
    BY DEF Leaves
  <1>1. PICK gs, su, n, q : gs = Front(fs) /\ su = StackOf(gs, now, v) /\ n = Len(fs) - 1 /\ q = Owner(gs)
    OBVIOUS
  <1>2. InProgress(fs, r, w, t) /\ FreeOK(st, r, h, Len(fs))
    BY DEF FreeAll
  <1>3. IsSeq(fs) /\ IsStack(st, t)
    BY <1>2 DEF InProgress
  <1>4. n \in Nat /\ Len(fs) = n + 1 /\ Len(st) = n + 1 /\ c = st[n + 1]
    BY <1>1, <1>3, FrontIs, StackIs
  <1>5. st[n + 1].kind \in Lists => IsSeq(v)
    BY <1>0, <1>4
  <1>6. /\ InProgress(gs, now, v, t) /\ Len(gs) = n
        /\ gs = << >> => n = 0 /\ st[1].kind = "filter" /\ st[1].type = t
        /\ gs # << >> =>
             /\ n \in Nat \ {0} /\ IsFrame(gs[n]) /\ Leads(gs[n], st[n + 1])
             /\ Pushed(gs, st, n) /\ Replaced(gs, su, n) /\ su[n] = Behind(gs[n], v) /\ Here(gs, q, n)
    BY <1>0, <1>1, <1>2, <1>5, Returns
  <1>7. CASE gs = << >>
    <2>1. n = 0 /\ c = st[1] /\ c.kind = "filter" /\ FreeOK(st, r, h, 1)
      BY <1>2, <1>4, <1>6, <1>7
    <2>2. h = {} /\ k = h
      BY <1>0, <2>1, FreeLast
    <2> QED
      BY <1>1, <1>6, <1>7, <2>2 DEF FreeAll
  <1>8. CASE gs # << >>
    <2>1. PICK f, g : f = gs[n] /\ g = su[n]
      OBVIOUS
    <2>2. CanStore(f, v) /\ ~IsTag(f)
      BY <1>5, <1>6, <1>8, <2>1, LeadsIs
    <2>3. StoredAs(f, v, g) /\ g.at = f.at + 1 /\ g.kind = f.kind /\ f.at \in Nat
      BY <1>6, <1>8, <2>1, <2>2, BehindIsFrame DEF IsFrame
    <2>4. /\ FreeOK(st, r, h, n + 1) /\ gs[n].at \in Nat /\ StoredAs(gs[n], v, su[n]) /\ ~IsTag(gs[n])
          /\ su[n].at = gs[n].at + 1 /\ su[n].kind = gs[n].kind
          /\ Clear(st[n + 1], st[n + 1].at)
          /\ now = "false" => r = "false" \/ NoArm(st[n + 1])
          /\ k = IF st[n + 1].kind \in {"array", "pointer"} THEN h \ {q} ELSE h
      BY <1>0, <1>1, <1>2, <1>4, <2>1, <2>2, <2>3
    <2>5. FreeOK(su, now, k, n)
      BY <1>6, <1>8, <2>4, FreePop
    <2>6. Len(gs) = n
      BY <1>6
    <2> QED
      BY <1>1, <1>6, <1>8, <2>5, <2>6 DEF FreeAll
  <1> QED
    BY <1>7, <1>8

(* The caller goes on when a call has returned true.                       *)
LEMMA Takes ==
    ASSUME NEW fs, NEW v, NEW w, NEW h, NEW t, InProgress(fs, "true", v, t), fs # << >>,
           NEW gs, gs = StackOf(fs, "true", v)
    PROVE  /\ DecAll(fs, "true", v, h, t) => DecAll(gs, "none", w, h, t)
           /\ FreeAll(fs, "true", v, h, t) => FreeAll(gs, "none", w, h, t)
  <1>1. PICK su, n : su = StackOf(gs, "none", w) /\ n = Len(fs)
    OBVIOUS
  <1>2. IsSeq(fs) /\ (\A j \in 1..n : IsCall(fs[j])) /\ IsStack(gs, t) /\ t \in DOMAIN Defs
    BY <1>1 DEF InProgress
  <1>3. /\ IsSeq(gs) /\ n \in Nat \ {0} /\ Len(gs) = n /\ gs[n] = Behind(fs[n], v)
        /\ \A j \in 1..n - 1 : gs[j] = fs[j]
    BY <1>1, <1>2, StackIs
  <1>4. su = gs
    BY <1>1, <1>3, StackIs
  <1>5. \A j \in 1..n : IsCall(gs[j])
    <2>1. IsCall(Behind(fs[n], v))
      BY DEF IsCall, Behind
    <2>2. \A j \in 1..n : j = n \/ j \in 1..n - 1
      BY <1>3
    <2> QED
      BY <1>2, <1>3, <2>1, <2>2
  <1>6. InProgress(gs, "none", w, t)
    BY <1>1, <1>2, <1>3, <1>4, <1>5 DEF InProgress
  <1>7. gs # << >>
    BY <1>3
  <1>8. DecOK(gs, "true", h, n) => DecOK(gs, "none", h, n)
    BY DEF DecOK, Full
  <1>9. FreeOK(gs, "true", h, n) => FreeOK(gs, "none", h, n)
    BY DEF FreeOK
  <1> QED
    BY <1>1, <1>3, <1>4, <1>6, <1>7, <1>8, <1>9 DEF DecAll, FreeAll

-----------------------------------------------------------------------------
(* The field d at which the filter f is, and the part p it holds.          *)
Fresh(d) ==
  IF d.rel = "alias" THEN Zero(d.type)
  ELSE IF d.rel = "vector" THEN [i \in 1..d.max |-> Zero(d.type)] ELSE << >>

AtField(f, d, p) ==
  /\ IsFrame(f) /\ f.kind = "filter" /\ f.at \in 1..Len(FieldsOf(f))
  /\ d = FieldsOf(f)[f.at] /\ IsField(d)
  /\ (Stores(f, f.at) /\ p = Slot(f, f.at)) \/ (Absent(f, f.at) /\ p = Fresh(d))

LEMMA ZeroIsEven ==
    ASSUME NEW g, g.kind = "filter", g.obj = << >>
    PROVE  Even(g) /\ Blank(g)
  <1>1. Even(g)
    BY ZeroIs DEF IsZero
  <1>2. Blank(g)
    BY DEF Blank, Absent
  <1> QED
    BY <1>1, <1>2

LEMMA ZerosAre ==
    ASSUME NEW n \in Nat, NEW t, NEW o, o = [i \in 1..n |-> Zero(t)]
    PROVE  IsSeq(o) /\ Len(o) = n /\ \A i \in 1..n : o[i] = Zero(t)
  <1>1. PICK z : z = Zero(t)
    OBVIOUS
  <1>2. o \in Seq({z}) /\ Len(o) = n /\ \A i \in 1..n : o[i] = z
    BY <1>1
  <1> QED
    BY <1>1, <1>2 DEF IsSeq

(* What can be given back to a field.                                      *)
LEMMA GivesField ==
    ASSUME NEW f, NEW d, NEW p, AtField(f, d, p), NEW v,
           d.rel \in Lists => IsSeq(v),
           d.rel = "alias" /\ d.type \in Scalars => v = p \/ Absent(f, f.at)
    PROVE  /\ CanStore(f, v)
           /\ SlotOwns(f, v) <=> HasBlock(d, v)
           /\ SlotOpens(f, v) <=> HasCalls(d, v)
           /\ SlotNode(f, v) = Node(KindOf(d), d.type, v)
  <1>1. /\ f.kind = "filter" /\ f.at \in 1..Len(FieldsOf(f)) /\ d = FieldsOf(f)[f.at] /\ IsFrame(f)
        /\ (Stores(f, f.at) /\ p = Slot(f, f.at)) \/ Absent(f, f.at)
    BY DEF AtField
  <1>2. f.type \in DOMAIN Defs /\ Even(f)
    BY <1>1 DEF IsFrame
  <1>3. Defs[f.type].kind = "union" => FieldsOf(f)[1].rel = "alias" /\ FieldsOf(f)[1].type \in Scalars
    BY <1>2, FieldsAre
  <1>4. CanStore(f, v)
    BY <1>1, <1>2, <1>3 DEF CanStore
  <1> QED
    BY <1>1, <1>4 DEF SlotOwns, SlotOpens, SlotNode

(* What is at the place of a field.                                        *)
LEMMA FieldHolds ==
    ASSUME NEW f, NEW d, NEW p, AtField(f, d, p)
    PROVE  /\ d.rel \in Lists => IsSeq(p)
           /\ Opens(f, f.at) <=> Stores(f, f.at) /\ HasCalls(d, p)
           /\ Owns(f, f.at) <=> Stores(f, f.at) /\ HasBlock(d, p)
           /\ Stores(f, f.at) => Inner(f, f.at) = Node(KindOf(d), d.type, p)
           /\ ~Stores(f, f.at) => Absent(f, f.at) /\ p = Fresh(d)
           /\ Absent(f, f.at) => ~Stores(f, f.at)
           /\ Blank(f) => Absent(f, f.at)
           /\ f.at \in Nat /\ f.at >= 1
  <1>1. /\ f.kind = "filter" /\ f.at \in 1..Len(FieldsOf(f)) /\ d = FieldsOf(f)[f.at] /\ IsFrame(f) /\ IsField(d)
        /\ (Stores(f, f.at) /\ p = Slot(f, f.at)) \/ (Absent(f, f.at) /\ p = Fresh(d))
    BY DEF AtField
  <1>2. Even(f) /\ f.at \in Nat /\ f.at >= 1
    BY <1>1 DEF IsFrame
  <1>3. Absent(f, f.at) => ~Stores(f, f.at)
    BY DEF Absent, Stores
  <1>4. ASSUME d.rel \in Lists PROVE IsSeq(p)
    <2>1. CASE Stores(f, f.at)
      BY <1>1, <1>2, <1>3, <1>4, <2>1 DEF Even
    <2>2. CASE ~Stores(f, f.at)
      <3>1. p = Fresh(d) /\ d.max \in Nat
        BY <1>1, <2>2 DEF IsField
      <3>2. CASE d.rel = "vector"
        <4>1. p = [i \in 1..d.max |-> Zero(d.type)]
          BY <3>1, <3>2 DEF Fresh
        <4> QED
          BY <3>1, <4>1, ZerosAre
      <3>3. CASE d.rel # "vector"
        <4>1. p = << >>
          BY <1>4, <3>1, <3>3 DEF Fresh, Lists
        <4>2. << >> \in Seq({})
          OBVIOUS
        <4> QED
          BY <4>1, <4>2 DEF IsSeq
      <3> QED
        BY <3>2, <3>3
    <2> QED
      BY <2>1, <2>2
  <1>5. Blank(f) => Absent(f, f.at)
    BY <1>1, <1>2 DEF Blank
  <1>6. /\ Opens(f, f.at) <=> Stores(f, f.at) /\ HasCalls(d, p)
        /\ Owns(f, f.at) <=> Stores(f, f.at) /\ HasBlock(d, p)
        /\ Stores(f, f.at) => Inner(f, f.at) = Node(KindOf(d), d.type, p)
    BY <1>1, <1>3 DEF Opens, Owns, Inner
  <1> QED
    BY <1>1, <1>2, <1>3, <1>4, <1>5, <1>6

LEMMA EmptyArray ==
    ASSUME NEW x, x.kind = "array", x.obj = << >>
    PROVE  Hollow(x)
  <1>1. << >> \in Seq({}) /\ Len(x.obj) = 0
    OBVIOUS
  <1>2. IsSeq(x.obj)
    BY <1>1 DEF IsSeq
  <1> QED
    BY <1>1, <1>2 DEF Hollow, Even, NoArm, Owns, Stores, Opens, Absent

(* A loop is called at a field.                                            *)
LEMMA CallsLoop ==
    ASSUME NEW fs, fs # << >>, NEW f, f = fs[Len(fs)], NEW d, NEW p, AtField(f, d, p),
           d.rel \in {"array", "vector"}, NEW o, IsSeq(o), d.rel = "array" => o # << >>,
           NEW g, g = Frame(d.rel, d.type, o), NEW gs, Appends(fs, g, gs)
    PROVE  PushesTo(fs, g, gs)
  <1>1. g.kind = d.rel /\ g.type = d.type /\ g.at = 1 /\ g.obj = o /\ IsCall(g)
    BY DEF Frame, IsCall
  <1>2. f.kind = "filter" /\ f.at \in 1..Len(FieldsOf(f)) /\ d = FieldsOf(f)[f.at] /\ IsField(d)
    BY DEF AtField
  <1>3. Leads(f, g)
    BY <1>1, <1>2 DEF Leads, KindOf, Lists
  <1>4. g.type \in Scalars \cup DOMAIN Defs
    BY <1>1, <1>2 DEF IsField
  <1>5. IsFrame(g)
    BY <1>1, <1>4 DEF IsFrame, Even, Lists
  <1> QED
    BY <1>1, <1>3, <1>5 DEF PushesTo

(* The filter of a type is called, at a field or at an element.            *)
LEMMA CallsFilter ==
    ASSUME NEW fs, fs # << >>, NEW f, f = fs[Len(fs)], NEW t, NEW o,
           \/ f.kind = "filter" /\ f.at \in 1..Len(FieldsOf(f)) /\ FieldsOf(f)[f.at].rel = "alias"
                /\ FieldsOf(f)[f.at].type = t
           \/ f.kind \in {"array", "vector"} /\ f.type = t /\ f.at \in 1..Len(f.obj)
           \/ f.kind = "pointer" /\ f.type = t /\ f.at = 1 /\ f.obj = << >>,
           t \in DOMAIN Defs,
           NEW g, g = Frame("filter", t, o), Even(g), NEW gs, Appends(fs, g, gs)
    PROVE  PushesTo(fs, g, gs)
  <1>1. g.kind = "filter" /\ g.type = t /\ g.at = 1 /\ g.obj = o /\ IsCall(g)
    BY DEF Frame, IsCall
  <1>2. t \notin Scalars
    BY CopyAssumption
  <1>3. Leads(f, g)
    BY <1>1, <1>2 DEF Leads, KindOf
  <1>4. IsFrame(g)
    BY <1>1 DEF IsFrame, Lists
  <1> QED
    BY <1>1, <1>3, <1>4 DEF PushesTo

(* xdr_reference is called.                                                *)
LEMMA CallsPointer ==
    ASSUME NEW fs, fs # << >>, NEW f, f = fs[Len(fs)], NEW d, NEW p, AtField(f, d, p),
           d.rel = "pointer", NEW g, g = Frame("pointer", d.type, << >>), NEW gs, Appends(fs, g, gs)
    PROVE  PushesTo(fs, g, gs) /\ Blank(g) /\ d.type \in DOMAIN Defs
  <1>1. g.kind = "pointer" /\ g.type = d.type /\ g.at = 1 /\ g.obj = << >> /\ IsCall(g)
    BY DEF Frame, IsCall
  <1>2. f.kind = "filter" /\ f.at \in 1..Len(FieldsOf(f)) /\ d = FieldsOf(f)[f.at] /\ d.type \in DOMAIN Defs
    BY DEF AtField, IsField
  <1>3. Leads(f, g)
    BY <1>1, <1>2 DEF Leads, KindOf, Lists
  <1>4. PICK o : o = << >>
    OBVIOUS
  <1>5. IsSeq(o) /\ Len(o) = 0
    <2>1. o \in Seq({}) /\ Len(o) = 0
      BY <1>4
    <2> QED
      BY <2>1 DEF IsSeq
  <1>6. g.obj = o
    BY <1>1, <1>4
  <1>7. Even(g) /\ Blank(g)
    BY <1>1, <1>5, <1>6 DEF Even, Blank
  <1>8. IsFrame(g)
    <2>0. g.at = 1 /\ g.kind = "pointer" /\ g.type = d.type /\ d.type \in DOMAIN Defs
      BY <1>1, <1>2
    <2>1. g.at \in Nat \ {0} /\ g.kind = "pointer" /\ g.kind \in Lists /\ g.type \in DOMAIN Defs /\ ~(g.at >= 2)
      BY <2>0 DEF Lists
    <2>2. g.kind \in {"filter"} \cup Lists /\ g.type \in Scalars \cup DOMAIN Defs
      BY <2>1
    <2>3. g.obj = << >> /\ g.kind # "array" /\ g.kind # "filter"
      BY <1>1
    <2> QED
      BY <1>7, <2>1, <2>2, <2>3 DEF IsFrame
  <1> QED
    BY <1>1, <1>2, <1>3, <1>7, <1>8 DEF PushesTo

(* What a filter that frees goes into.                                     *)
LEMMA EntersField ==
    ASSUME NEW f, NEW d, NEW p, AtField(f, d, p), FreeFrame(f, f.at),
           NEW g, g = Frame(KindOf(d), d.type, p), HasCalls(d, p),
           d.rel \in {"alias", "vector"} \/ (d.rel = "array" /\ p # << >>)
    PROVE  Enters(f, g) /\ Even(g)
  <1>1. g.kind = KindOf(d) /\ g.type = d.type /\ g.at = 1 /\ g.obj = p
    BY DEF Frame
  <1>2. /\ d.rel \in Lists => IsSeq(p)
        /\ Opens(f, f.at) <=> Stores(f, f.at) /\ HasCalls(d, p)
        /\ Owns(f, f.at) <=> Stores(f, f.at) /\ HasBlock(d, p)
        /\ Stores(f, f.at) => Inner(f, f.at) = Node(KindOf(d), d.type, p)
        /\ ~Stores(f, f.at) => Absent(f, f.at) /\ p = Fresh(d)
        /\ f.at \in Nat
    BY FieldHolds
  <1>3. IsField(d)
    BY DEF AtField
  <1>4. CASE Stores(f, f.at)
    <2>1. PICK x : x = Inner(f, f.at)
      OBVIOUS
    <2>2. x = Node(g.kind, g.type, g.obj)
      BY <1>1, <1>2, <1>4, <2>1
    <2>3. Alike(g, x)
      BY <2>2, NodeIsAlike
    <2>4. Opens(f, f.at) /\ Sound(x)
      BY <1>2, <1>4, <2>1 DEF FreeFrame
    <2>5. Even(g)
      BY <2>3, <2>4, SoundIs DEF Alike
    <2>6. Owns(f, f.at) <=> g.kind \in {"array", "pointer"}
      BY <1>1, <1>2, <1>4 DEF HasBlock, KindOf
    <2> QED
      BY <2>1, <2>3, <2>4, <2>5, <2>6 DEF Enters
  <1>5. CASE ~Stores(f, f.at)
    <2>1. Absent(f, f.at) /\ ~Opens(f, f.at) /\ p = Fresh(d)
      BY <1>2, <1>5
    <2>2. g.kind \in {"filter", "vector"}
      BY <1>1, <2>1 DEF Fresh, KindOf
    <2>3. CASE d.rel = "alias"
      <3>1. g.kind = "filter" /\ g.obj = << >>
        BY <1>1, <2>1, <2>3 DEF Fresh, Zero, HasCalls, KindOf
      <3> QED
        BY <2>1, <2>2, <3>1, ZeroIsEven DEF Enters
    <2>4. CASE d.rel # "alias"
      <3>1. g.kind = "vector" /\ p = [i \in 1..d.max |-> Zero(d.type)] /\ d.max \in Nat
        BY <1>1, <1>3, <2>1, <2>4 DEF Fresh, KindOf, IsField
      <3>2. Len(p) = d.max /\ \A i \in 1..d.max : p[i] = Zero(d.type)
        BY <3>1, ZerosAre
      <3>3. Blank(g)
        BY <1>1, <3>1, <3>2 DEF Blank
      <3>4. Even(g)
        BY <1>1, <1>2, <3>1 DEF Even, KindOf, Lists
      <3> QED
        BY <2>1, <2>2, <3>3, <3>4 DEF Enters
    <2> QED
      BY <2>3, <2>4
  <1> QED
    BY <1>4, <1>5

(* Loops and xdr_pointer end when there is nothing left at their places.   *)
LEMMA LoopEnded ==
    ASSUME NEW f, IsFrame(f), f.kind # "filter",
           IF f.kind = "pointer" THEN f.at >= 2 ELSE f.at > Len(f.obj)
    PROVE  /\ Ended(f, f.at)
           /\ DecFrame(f, f.at) => ~Gappy(f)
  <1>1. f.at \in Nat
    BY DEF IsFrame
  <1>2. \A i \in Nat : ~Owns(f, i) /\ ~Absent(f, i) /\ (i >= f.at => ~Opens(f, i))
    <2>1. f.kind # "pointer" => IsSeq(f.obj)
      BY DEF IsFrame, Even
    <2>2. f.kind # "pointer" => Len(f.obj) \in Nat
      BY <2>1 DEF IsSeq
    <2> QED
      BY <1>1, <2>2 DEF Owns, Stores, Absent, Opens
  <1>3. ~NoArm(f)
    BY DEF NoArm
  <1>4. Ended(f, f.at)
    BY <1>1, <1>2, <1>3 DEF Ended
  <1>5. DecFrame(f, f.at) => \A i \in Nat : ~GapAt(f, i)
    BY <1>1, <1>2 DEF DecFrame, GapAt
  <1>6. DecFrame(f, f.at) => ~Gappy(f)
    BY <1>3, <1>5, GappyIs
  <1> QED
    BY <1>4, <1>6

(* A filter ends behind its last field.                                    *)
LEMMA FilterEnded ==
    ASSUME NEW f, IsFrame(f), f.kind = "filter", f.at > Len(FieldsOf(f))
    PROVE  /\ Clear(f, f.at)
           /\ Done(f) /\ DecFrame(f, f.at) => ~Gappy(f)
           /\ ~Done(f) => NoArm(f)
  <1>1. f.at \in Nat /\ f.type \in DOMAIN Defs /\ (f.at >= 2 => ~Absent(f, 1))
    BY DEF IsFrame
  <1>2. Len(FieldsOf(f)) \in Nat
    BY <1>1, FieldsAre
  <1>3. \A i \in Nat : i >= f.at => ~Owns(f, i) /\ ~Opens(f, i) /\ ~Absent(f, i)
    BY <1>1, <1>2 DEF Owns, Opens, Stores, Absent
  <1>4. Clear(f, f.at)
    <2> SUFFICES ASSUME NEW i \in Nat, i >= f.at, PtrAt(f, i) PROVE FALSE
      BY DEF Clear
    <2>1. PICK p \in Seq(Nat), k \in Nat : p[k + 1] = i /\ Points(f, p, k)
      BY DEF PtrAt
    <2>2. PointsStep(f, p, k)
      BY <2>1, PointsIs
    <2>3. Owns(f, i) \/ Opens(f, i)
      BY <2>1, <2>2 DEF PointsStep
    <2> QED
      BY <1>3, <2>3
  <1>5. ASSUME Done(f), DecFrame(f, f.at) PROVE ~Gappy(f)
    <2>1. ~NoArm(f)
      BY <1>5 DEF NoArm
    <2>2. \A i \in Nat : ~GapAt(f, i)
      BY <1>1, <1>3, <1>5 DEF DecFrame, GapAt
    <2> QED
      BY <2>1, <2>2, GappyIs
  <1>6. ASSUME ~Done(f) PROVE NoArm(f)
    <2>1. Len(FieldsOf(f)) >= 1
      BY <1>1, <1>6, FieldsAre DEF Done
    <2>2. ~Absent(f, 1)
      BY <1>1, <1>2, <2>1
    <2>3. FieldsOf(f)[1].name \in DOMAIN f.obj
      BY <1>2, <2>1, <2>2 DEF Absent
    <2> QED
      BY <1>6, <2>3 DEF NoArm
  <1> QED
    BY <1>4, <1>5, <1>6

-----------------------------------------------------------------------------
(* The innermost call.                                                     *)
LEMMA TopIs ==
    ASSUME NEW fs, NEW r, NEW v, NEW h, NEW t, InProgress(fs, r, v, t), fs # << >>,
           NEW c, c = StackOf(fs, r, v)[Len(fs)]
    PROVE  /\ IsFrame(c) /\ IsCall(fs[Len(fs)]) /\ Len(fs) \in Nat \ {0}
           /\ c = IF r = "none" THEN fs[Len(fs)] ELSE Behind(fs[Len(fs)], v)
           /\ DecAll(fs, r, v, h, t) => DecFrame(c, Full(c, r))
           /\ FreeAll(fs, r, v, h, t) => FreeFrame(c, c.at) /\ (r = "false" => Clear(c, c.at))
  <1>1. PICK st, n : st = StackOf(fs, r, v) /\ n = Len(fs)
    OBVIOUS
  <1>2. IsSeq(fs) /\ (\A j \in 1..n : IsCall(fs[j])) /\ IsStack(st, t)
    BY <1>1 DEF InProgress
  <1>3. n \in Nat \ {0} /\ Len(st) = n /\ st[n] = IF r = "none" THEN fs[n] ELSE Behind(fs[n], v)
    BY <1>1, <1>2, StackIs
  <1>4. n \in 1..n /\ n \in 1..Len(st)
    BY <1>3
  <1>5. IsFrame(st[n]) /\ IsCall(fs[n])
    BY <1>2, <1>4 DEF IsStack
  <1>6. DecAll(fs, r, v, h, t) => DecFrame(st[n], Full(st[n], r))
    BY <1>1 DEF DecAll, DecOK
  <1>7. ASSUME FreeAll(fs, r, v, h, t) PROVE FreeFrame(st[n], st[n].at) /\ (r = "false" => Clear(st[n], st[n].at))
    <2>1. FreeOK(st, r, h, n)
      BY <1>1, <1>7 DEF FreeAll
    <2> QED
      BY <1>4, <2>1 DEF FreeOK, After
  <1> QED
    BY <1>1, <1>3, <1>5, <1>6, <1>7

LEMMA CallsIs ==
    ASSUME NEW rels, Calls(rels), InProgress(frames, "none", val, main)
    PROVE  /\ frames # << >> /\ ret = "none" /\ Top = frames[Len(frames)]
           /\ AtField(Top, Field, Part) /\ Field.rel \in rels
  <1>1. /\ frames # << >> /\ ret = "none" /\ Top = frames[Len(frames)] /\ Top.kind = "filter"
        /\ Top.at <= Len(FieldsOf(Top)) /\ Field.rel \in rels /\ Field = FieldsOf(Top)[Top.at]
    BY DEF Calls, Beginning, Within, MoreFields, Top, Field
  <1>2. PICK c : c = StackOf(frames, "none", val)[Len(frames)]
    OBVIOUS
  <1>3. IsFrame(c) /\ c = Top
    BY <1>1, <1>2, TopIs
  <1>4. IsFrame(Top) /\ Top.at \in Nat \ {0} /\ Top.type \in DOMAIN Defs
    BY <1>1, <1>3 DEF IsFrame
  <1>5. Len(FieldsOf(Top)) \in Nat /\ \A i \in 1..Len(FieldsOf(Top)) : IsField(FieldsOf(Top)[i])
    BY <1>4, FieldsAre
  <1>6. Top.at \in 1..Len(FieldsOf(Top)) /\ IsField(Field)
    BY <1>1, <1>4, <1>5
  <1>7. (Stores(Top, Top.at) /\ Part = Slot(Top, Top.at)) \/ (Absent(Top, Top.at) /\ Part = Fresh(Field))
    <2>1. CASE Field.name \in DOMAIN Top.obj
      BY <1>1, <1>6, <2>1 DEF Stores, Slot, Part
    <2>2. CASE Field.name \notin DOMAIN Top.obj
      <3>1. Absent(Top, Top.at)
        BY <1>1, <1>6, <2>2 DEF Absent
      <3>2. Part = Fresh(Field)
        BY <2>2 DEF Part, Fresh
      <3> QED
        BY <3>1, <3>2
    <2> QED
      BY <2>1, <2>2
  <1> QED
    BY <1>1, <1>4, <1>6, <1>7 DEF AtField

(* The first word of a stream is a number.                                 *)
LEMMA PeekIs ==
    ASSUME NEW word \in Peek(1)
    PROVE  word[1] \in 0..UMax
  <1>1. CASE 1 <= Len(items) /\ \A i \in 1..1 : items[i] \in { Word(w) : w \in 0..UMax }
    <2>1. word \in {[i \in 1..1 |-> items[i][1]]}
      BY <1>1 DEF Peek
    <2>2. word[1] = items[1][1]
      BY <2>1
    <2>3. items[1] \in { Word(w) : w \in 0..UMax }
      BY <1>1
    <2>4. PICK w \in 0..UMax : items[1] = <<w>>
      BY <2>3 DEF Word
    <2> QED
      BY <2>2, <2>4
  <1>2. CASE ~(1 <= Len(items) /\ \A i \in 1..1 : items[i] \in { Word(w) : w \in 0..UMax })
    <2>1. word \in [1..1 -> ForeignWords]
      BY <1>2 DEF Peek
    <2>2. word[1] \in ForeignWords
      BY <2>1
    <2> QED
      BY <2>2, CopyAssumption DEF UMax
  <1> QED
    BY <1>1, <1>2

(* Decoding: a field is given what was read, or left as it was.            *)
LEMMA DecField ==
    ASSUME NEW fs, NEW w, NEW h, NEW t, DecAll(fs, "none", w, h, t), fs # << >>,
           NEW f, f = fs[Len(fs)], NEW d, NEW p, AtField(f, d, p), NEW r \in {"true", "false"}, NEW v, NEW k,
           \/ d.rel \in {"string", "bytes", "opaque", "pointer", "array"}
           \/ d.rel = "alias" /\ d.type \in Scalars,
           \/ k = h /\ (d.rel \in {"string", "bytes", "pointer", "array"} => v = << >>)
           \/ k = h \cup {Owner(fs)} /\ d.rel \in {"string", "bytes"} /\ v # << >>
    PROVE  DecAll(fs, r, v, k, t)
  <1>1. InProgress(fs, "none", w, t)
    BY DEF DecAll
  <1>2. PICK c : c = StackOf(fs, "none", w)[Len(fs)]
    OBVIOUS
  <1>3. c = f /\ DecFrame(c, Full(c, "none"))
    BY <1>1, <1>2, TopIs
  <1>4. Absent(f, f.at)
    <2>1. Blank(f)
      BY <1>3 DEF DecFrame
    <2> QED
      BY <2>1, FieldHolds
  <1>5. d.rel \in Lists => IsSeq(v)
    <2>1. << >> \in Seq({})
      OBVIOUS
    <2> QED
      BY <2>1 DEF Lists, IsSeq
  <1>6. /\ CanStore(f, v)
        /\ SlotOwns(f, v) <=> HasBlock(d, v)
        /\ SlotOpens(f, v) <=> HasCalls(d, v)
        /\ SlotNode(f, v) = Node(KindOf(d), d.type, v)
    BY <1>4, <1>5, GivesField
  <1>7. ASSUME SlotOpens(f, v) PROVE Hollow(SlotNode(f, v))
    <2>1. d.rel = "array" /\ v = << >>
      BY <1>6, <1>7 DEF HasCalls
    <2>2. SlotNode(f, v).kind = "array" /\ SlotNode(f, v).obj = << >>
      BY <1>6, <2>1 DEF Node, KindOf
    <2> QED
      BY <2>2, EmptyArray
  <1>8. k = IF SlotOwns(f, v) THEN h \cup {Owner(fs)} ELSE h
    BY <1>6 DEF HasBlock
  <1>9. CanStore(fs[Len(fs)], v) /\ (SlotOpens(fs[Len(fs)], v) => Hollow(SlotNode(fs[Len(fs)], v)))
        /\ k = IF SlotOwns(fs[Len(fs)], v) THEN h \cup {Owner(fs)} ELSE h
    BY <1>6, <1>7, <1>8
  <1> QED
    BY <1>9, DecGives

(* Freeing: a field is given what is left of it.                           *)
LEMMA FreeField ==
    ASSUME NEW fs, NEW w, NEW h, NEW t, FreeAll(fs, "none", w, h, t), fs # << >>,
           NEW f, f = fs[Len(fs)], NEW d, NEW p, AtField(f, d, p), NEW v, NEW k,
           \/ d.rel \in {"string", "bytes", "opaque"}
           \/ d.rel \in {"pointer", "array"} /\ p = << >> /\ v = << >>
           \/ d.rel = "alias" /\ d.type \in Scalars /\ v = p,
           \/ k = h /\ d.rel \notin {"string", "bytes"}
           \/ k = h \ {Owner(fs)}
    PROVE  FreeAll(fs, "true", v, k, t)
  <1>1. d.rel \in Lists => IsSeq(v)
    <2>1. << >> \in Seq({})
      OBVIOUS
    <2> QED
      BY <2>1 DEF Lists, IsSeq
  <1>2. CanStore(f, v)
    BY <1>1, GivesField
  <1>3. /\ Opens(f, f.at) <=> Stores(f, f.at) /\ HasCalls(d, p)
        /\ Owns(f, f.at) <=> Stores(f, f.at) /\ HasBlock(d, p)
        /\ Stores(f, f.at) => Inner(f, f.at) = Node(KindOf(d), d.type, p)
    BY FieldHolds
  <1>4. ASSUME Opens(f, f.at) PROVE Hollow(Inner(f, f.at))
    <2>1. d.rel = "array" /\ p = << >>
      BY <1>3, <1>4 DEF HasCalls
    <2>2. Inner(f, f.at).kind = "array" /\ Inner(f, f.at).obj = << >>
      BY <1>3, <1>4, <2>1 DEF Node, KindOf
    <2> QED
      BY <2>2, EmptyArray
  <1>5. k = h \ {Owner(fs)} \/ (k = h /\ ~Owns(f, f.at))
    BY <1>3 DEF HasBlock
  <1>6. CanStore(fs[Len(fs)], v)
    BY <1>2
  <1> QED
    BY <1>4, <1>5, <1>6, FreeGives

-----------------------------------------------------------------------------
(* Decoding: each action.                                                  *)

LEMMA ScalarIs ==
    ASSUME NEW type, NEW v, Scalar(type, v)
    PROVE  /\ Encoding \/ Decoding \/ Freeing => frames' = frames /\ heap' = heap
           /\ Decoding => ret' \in {"true", "false"}
           /\ Freeing => ret' = "true" /\ val' = v
  <1>1. PICK ws, n : ws = ToWords(type, v) /\ n = Unit * Len(ws)
    OBVIOUS
  <1>2. CASE Encoding
    <2>1. ~Decoding /\ ~Freeing
      BY <1>2 DEF Encoding, Decoding, Freeing
    <2>2. IF Encodable(type, v) /\ Fits(n)
            THEN Write(Words(ws), n) /\ Gives("true", v) /\ UNCHANGED heap
            ELSE Fails(v)
      BY <1>1, <1>2, <2>1 DEF Scalar
    <2> QED
      BY <1>2, <2>1, <2>2 DEF Gives, Fails
  <1>3. CASE Decoding
    <2>1. ~Encoding /\ ~Freeing
      BY <1>3 DEF Encoding, Decoding, Freeing
    <2>2. IF Fits(n)
            THEN \E got \in Peek(Len(ws)) :
                   Read(n, Len(ws)) /\ Gives("true", FromWords(type, got)) /\ UNCHANGED heap
            ELSE Fails(v)
      BY <1>1, <1>3, <2>1 DEF Scalar
    <2> QED
      BY <1>3, <2>1, <2>2 DEF Gives, Fails
  <1>4. CASE Freeing
    <2>1. ~Encoding /\ ~Decoding
      BY <1>4 DEF Encoding, Decoding, Freeing
    <2>2. Gives("true", v) /\ UNCHANGED <<streamVars, heap>>
      BY <1>4, <2>1 DEF Scalar
    <2> QED
      BY <1>4, <2>1, <2>2 DEF Gives
  <1> QED
    BY <1>2, <1>3, <1>4

DecNow == Decoding /\ DecAll(frames, ret, val, heap, main)
DecNext == DecAll(frames', ret', val', heap', main)

LEMMA DecIs ==
    ASSUME DecNow
    PROVE  /\ ~Encoding /\ ~Freeing /\ InProgress(frames, ret, val, main)
           /\ DecAll(frames, ret, val, heap, main)
  BY DEF DecNow, Decoding, Encoding, Freeing, DecAll

(* The call at a field returns.                                            *)
LEMMA DecFieldGives ==
    ASSUME DecNow, NEW rels, Calls(rels),
           frames' = frames, ret' \in {"true", "false"},
           \/ Field.rel \in {"string", "bytes", "opaque", "pointer", "array"}
           \/ Field.rel = "alias" /\ Field.type \in Scalars,
           \/ heap' = heap /\ (Field.rel \in {"string", "bytes", "pointer", "array"} => val' = << >>)
           \/ heap' = heap \cup {Owner(frames)} /\ Field.rel \in {"string", "bytes"} /\ val' # << >>
    PROVE  DecNext
  <1>1. DecAll(frames, "none", val, heap, main) /\ InProgress(frames, "none", val, main)
    BY DecIs DEF Calls, Beginning
  <1>2. frames # << >> /\ Top = frames[Len(frames)] /\ AtField(Top, Field, Part)
    BY <1>1, CallsIs
  <1>3. PICK v, k, r, f, d, p : v = val' /\ k = heap' /\ r = ret' /\ f = Top /\ d = Field /\ p = Part
    OBVIOUS
  <1>4. /\ f = frames[Len(frames)] /\ AtField(f, d, p) /\ r \in {"true", "false"}
        /\ \/ d.rel \in {"string", "bytes", "opaque", "pointer", "array"}
           \/ d.rel = "alias" /\ d.type \in Scalars
        /\ \/ k = heap /\ (d.rel \in {"string", "bytes", "pointer", "array"} => v = << >>)
           \/ k = heap \cup {Owner(frames)} /\ d.rel \in {"string", "bytes"} /\ v # << >>
    BY <1>2, <1>3
  <1>5. DecAll(frames, r, v, k, main)
    BY <1>1, <1>2, <1>4, DecField
  <1> QED
    BY <1>3, <1>5 DEF DecNext

(* In an object that was cleared the field holds nothing.                  *)
LEMMA DecPart ==
    ASSUME DecNow, NEW rels, Calls(rels)
    PROVE  Part = Fresh(Field) /\ Absent(Top, Top.at)
  <1>1. DecAll(frames, "none", val, heap, main) /\ InProgress(frames, "none", val, main)
    BY DecIs DEF Calls, Beginning
  <1>2. frames # << >> /\ Top = frames[Len(frames)] /\ AtField(Top, Field, Part)
    BY <1>1, CallsIs
  <1>3. PICK c : c = StackOf(frames, "none", val)[Len(frames)]
    OBVIOUS
  <1>4. c = Top /\ DecFrame(c, Full(c, "none"))
    BY <1>1, <1>2, <1>3, TopIs
  <1>5. Blank(Top)
    BY <1>4 DEF DecFrame
  <1> QED
    BY <1>2, <1>5, FieldHolds

(* A call is made.                                                         *)
LEMMA DecCalls ==
    ASSUME NEW fs, NEW h, DecAll(fs, "none", val, h, main),
           NEW g, NEW gs, PushesTo(fs, g, gs), Blank(g),
           NEW k, k = IF g.kind \in {"array", "pointer"} THEN h \cup {Owner(fs)} ELSE h
    PROVE  DecAll(gs, "none", val, k, main)
  BY DecPushes

LEMMA DecAlias ==
    ASSUME DecNow, CallAlias
    PROVE  DecNext
  <1>1. Calls({"alias"})
    BY DEF CallAlias
  <1>2. DecAll(frames, "none", val, heap, main) /\ InProgress(frames, "none", val, main) /\ Decoding
    BY <1>1, DecIs DEF Calls, Beginning, DecNow
  <1>3. /\ frames # << >> /\ ret = "none" /\ Top = frames[Len(frames)] /\ AtField(Top, Field, Part)
        /\ Field.rel = "alias"
    BY <1>1, <1>2, CallsIs
  <1>4. CASE Field.type \in Scalars
    <2>1. Scalar(Field.type, Part)
      BY <1>4 DEF CallAlias
    <2>2. frames' = frames /\ heap' = heap /\ ret' \in {"true", "false"}
      BY <1>2, <2>1, ScalarIs
    <2> QED
      BY <1>1, <1>3, <1>4, <2>2, DecFieldGives
  <1>5. CASE Field.type \notin Scalars
    <2>1. Call(Field.type, Part, frames)
      BY <1>5 DEF CallAlias
    <2>2. Part = << >>
      BY <1>1, <1>3, <1>5, DecPart DEF Fresh, Zero
    <2>3. PICK g, gs, f, t : g = Frame("filter", t, << >>) /\ Appends(frames, g, gs) /\ f = Top /\ t = Field.type
      BY DEF Appends
    <2>4. frames' = gs /\ ret' = "none" /\ val' = val /\ heap' = heap
      BY <1>3, <2>1, <2>2, <2>3 DEF Call, Appends
    <2>5. g.kind = "filter" /\ g.obj = << >>
      BY <2>3 DEF Frame
    <2>6. Even(g) /\ Blank(g)
      BY <2>5, ZeroIsEven
    <2>7. /\ f.kind = "filter" /\ f.at \in 1..Len(FieldsOf(f)) /\ FieldsOf(f)[f.at].rel = "alias"
          /\ FieldsOf(f)[f.at].type = t /\ t \in DOMAIN Defs /\ f = frames[Len(frames)]
      BY <1>3, <1>5, <2>3 DEF AtField, IsField
    <2>8. PushesTo(frames, g, gs)
      BY <1>3, <2>3, <2>6, <2>7, CallsFilter
    <2>9. DecAll(gs, "none", val, heap, main)
      BY <1>2, <2>5, <2>6, <2>8, DecCalls
    <2> QED
      BY <2>4, <2>9 DEF DecNext
  <1> QED
    BY <1>4, <1>5

LEMMA DecCounted ==
    ASSUME DecNow, CallCounted
    PROVE  DecNext
  <1>1. Calls({"string", "bytes"})
    BY DEF CallCounted
  <1>2. DecAll(frames, "none", val, heap, main) /\ InProgress(frames, "none", val, main)
        /\ Decoding /\ ~Encoding /\ ~Freeing
    BY <1>1, DecIs DEF Calls, Beginning, DecNow
  <1>3. Field.rel \in {"string", "bytes"}
    BY <1>1, <1>2, CallsIs
  <1>4. Part = << >>
    BY <1>1, <1>3, DecPart DEF Fresh
  <1>5. DecodeCounted
    BY <1>2 DEF CallCounted
  <1>6. /\ frames' = frames /\ ret' \in {"true", "false"}
        /\ \/ heap' = heap /\ val' = << >>
           \/ heap' = heap \cup {Owner(frames)} /\ val' # << >>
    <2>1. ASSUME NEW s, NEW len \in 0..UMax, ~NoBytes(len), s = Unknown(len) \/ Len(s) = len PROVE Pointed(s) # << >>
      <3>1. CASE Field.rel = "string"
        <4>1. Pointed(s) = <<s>> /\ Len(<<s>>) = 1 /\ Len(<< >>) = 0
          BY <3>1 DEF Pointed
        <4> QED
          BY <4>1
      <3>2. CASE Field.rel # "string"
        <4>1. Pointed(s) = s /\ len # 0 /\ len \in Nat
          BY <2>1, <3>2 DEF Pointed, NoBytes
        <4>2. Len(Unknown(len)) = len
          BY <4>1 DEF Unknown
        <4>3. Len(s) # 0
          BY <2>1, <4>1, <4>2
        <4> QED
          BY <4>1, <4>3
      <3> QED
        BY <3>1, <3>2
    <2>2. CASE ~Fits(Unit)
      BY <1>4, <1>5, <2>2 DEF DecodeCounted, Fails, Gives
    <2>3. CASE Fits(Unit)
      <3>1. PICK word \in Peek(1) :
              LET len == word[1]
                  n   == Unit + Padded(len)
              IN \/ ~Permitted(len) /\ Fails(Part)
                 \/ /\ Permitted(len) /\ NoBytes(len)
                    /\ Read(Unit, 2)
                    /\ Gives("true", Part) /\ UNCHANGED heap
                 \/ /\ Permitted(len) /\ ~NoBytes(len)
                    /\ \E ok \in Allocates :
                         IF ~ok THEN Fails(Part)
                         ELSE /\ heap' = heap \cup {Owner(frames)}
                              /\ IF Fits(n)
                                   THEN Read(n, 2) /\ Gives("true", Pointed(Content(len, 2)))
                                   ELSE /\ Gives("false", Kept(Pointed(Unknown(len))))
                                        /\ UNCHANGED streamVars
        BY <1>5, <2>3 DEF DecodeCounted
      <3>2. PICK len : len = word[1] /\ len \in 0..UMax
        BY PeekIs
      <3>3. CASE Fails(Part)
        BY <1>4, <3>3 DEF Fails, Gives
      <3>4. CASE Gives("true", Part) /\ UNCHANGED heap
        BY <1>4, <3>4 DEF Gives
      <3>5. CASE ~NoBytes(len) /\ heap' = heap \cup {Owner(frames)} /\ Gives("true", Pointed(Content(len, 2)))
        <4>1. Content(len, 2) = Unknown(len) \/ Len(Content(len, 2)) = len
          BY DEF Content
        <4>2. Pointed(Content(len, 2)) # << >>
          BY <2>1, <3>2, <3>5, <4>1
        <4> QED
          BY <3>5, <4>2 DEF Gives
      <3>6. CASE ~NoBytes(len) /\ heap' = heap \cup {Owner(frames)} /\ Gives("false", Kept(Pointed(Unknown(len))))
        <4>1. Pointed(Unknown(len)) # << >>
          BY <2>1, <3>2, <3>6
        <4> QED
          BY <3>6, <4>1 DEF Gives, Kept
      <3> QED
        BY <3>1, <3>2, <3>3, <3>4, <3>5, <3>6
    <2> QED
      BY <2>2, <2>3
  <1> QED
    BY <1>1, <1>3, <1>6, DecFieldGives

LEMMA DecOpaque ==
    ASSUME DecNow, CallOpaque
    PROVE  DecNext
  <1>1. Calls({"opaque"})
    BY DEF CallOpaque
  <1>2. InProgress(frames, "none", val, main) /\ Decoding /\ ~Encoding /\ ~Freeing
    BY <1>1, DecIs DEF Calls, Beginning, DecNow
  <1>3. Field.rel = "opaque"
    BY <1>1, <1>2, CallsIs
  <1>4. frames' = frames /\ heap' = heap /\ ret' \in {"true", "false"}
    BY <1>2 DEF CallOpaque, Gives, Fails
  <1> QED
    BY <1>1, <1>3, <1>4, DecFieldGives

-----------------------------------------------------------------------------
LEMMA DecPointer ==
    ASSUME DecNow, CallPointer
    PROVE  DecNext
  <1>1. Calls({"pointer"})
    BY DEF CallPointer
  <1>2. DecAll(frames, "none", val, heap, main) /\ InProgress(frames, "none", val, main)
        /\ Decoding /\ ~Encoding /\ ~Freeing
    BY <1>1, DecIs DEF Calls, Beginning, DecNow
  <1>3. /\ frames # << >> /\ ret = "none" /\ Top = frames[Len(frames)] /\ AtField(Top, Field, Part)
        /\ Field.rel = "pointer"
    BY <1>1, <1>2, CallsIs
  <1>4. Part = << >>
    BY <1>1, <1>3, DecPart DEF Fresh
  <1>5. PICK b, fb, g, gs, f, t, z :
          /\ b = Frame("pointer", t, << >>) /\ Appends(frames, b, fb)
          /\ g = Frame("filter", t, z) /\ Appends(fb, g, gs) /\ f = Top /\ t = Field.type /\ z = Zero(t)
    BY DEF Appends
  <1>6. \/ /\ frames' = frames /\ ret' \in {"true", "false"} /\ heap' = heap /\ val' = << >>
        \/ /\ frames' = gs /\ ret' = ret /\ val' = val /\ heap' = heap \cup {Owner(frames)}
    <2>1. fb = Append(frames, Frame("pointer", Field.type, << >>))
          /\ gs = Append(fb, Frame("filter", Field.type, Zero(Field.type)))
      BY <1>5 DEF Appends
    <2>2. IF ~Fits(Unit) THEN Fails(Part)
          ELSE \E more \in Peek(1), ok \in Allocates :
                 /\ Read(Unit, 1)
                 /\ IF more[1] = 0 THEN Gives("true", << >>) /\ UNCHANGED heap
                    ELSE IF ~ok THEN Gives("false", Part) /\ UNCHANGED heap
                    ELSE /\ frames' = Append(Append(frames, Frame("pointer", Field.type, << >>)),
                                             Frame("filter", Field.type, Zero(Field.type)))
                         /\ UNCHANGED <<ret, val>>
                         /\ heap' = heap \cup {Owner(frames)}
      BY <1>2 DEF CallPointer
    <2> QED
      BY <1>4, <2>1, <2>2 DEF Fails, Gives
  <1>7. CASE frames' = frames /\ ret' \in {"true", "false"} /\ heap' = heap /\ val' = << >>
    BY <1>1, <1>3, <1>7, DecFieldGives
  <1>8. CASE frames' = gs /\ ret' = ret /\ val' = val /\ heap' = heap \cup {Owner(frames)}
    <2>1. PushesTo(frames, b, fb) /\ Blank(b) /\ t \in DOMAIN Defs
      BY <1>3, <1>5, CallsPointer
    <2>2. b.kind = "pointer" /\ b.type = t /\ b.at = 1 /\ b.obj = << >>
      BY <1>5 DEF Frame
    <2>3. DecAll(fb, "none", val, heap \cup {Owner(frames)}, main)
      <3>1. PICK k : k = heap \cup {Owner(frames)}
        OBVIOUS
      <3>2. k = IF b.kind \in {"array", "pointer"} THEN heap \cup {Owner(frames)} ELSE heap
        BY <2>2, <3>1
      <3> QED
        BY <1>2, <2>1, <3>1, <3>2, DecCalls
    <2>4. IsSeq(frames)
      BY <1>2 DEF InProgress
    <2>5. fb # << >> /\ fb[Len(fb)] = b
      BY <1>5, <2>4, AppendIs
    <2>6. g.kind = "filter" /\ g.obj = << >>
      BY <1>5, <2>1, CopyAssumption DEF Frame, Zero
    <2>7. Even(g) /\ Blank(g)
      BY <2>6, ZeroIsEven
    <2>8. PushesTo(fb, g, gs)
      BY <1>5, <2>1, <2>2, <2>5, <2>7, CallsFilter
    <2>9. DecAll(gs, "none", val, heap \cup {Owner(frames)}, main)
      BY <2>3, <2>6, <2>7, <2>8, DecCalls
    <2> QED
      BY <1>3, <1>8, <2>9 DEF DecNext
  <1> QED
    BY <1>6, <1>7, <1>8

(* A loop over elements that are zero.                                     *)
LEMMA DecLoop ==
    ASSUME DecNow, NEW rels, Calls(rels), Field.rel \in {"array", "vector"},
           NEW n \in Nat, Field.rel = "array" => n # 0,
           frames' = Append(frames, Frame(Field.rel, Field.type, [i \in 1..n |-> Zero(Field.type)])),
           ret' = ret, val' = val,
           heap' = IF Field.rel = "array" THEN heap \cup {Owner(frames)} ELSE heap
    PROVE  DecNext
  <1>1. DecAll(frames, "none", val, heap, main) /\ InProgress(frames, "none", val, main)
    BY DecIs DEF Calls, Beginning
  <1>2. frames # << >> /\ ret = "none" /\ Top = frames[Len(frames)] /\ AtField(Top, Field, Part)
    BY <1>1, CallsIs
  <1>3. PICK g, gs, f, d, p, o, k :
          /\ o = [i \in 1..n |-> Zero(d.type)] /\ g = Frame(d.rel, d.type, o) /\ Appends(frames, g, gs)
          /\ f = Top /\ d = Field /\ p = Part /\ k = heap'
    BY DEF Appends
  <1>4. IsSeq(o) /\ Len(o) = n /\ \A i \in 1..n : o[i] = Zero(d.type)
    BY <1>3, ZerosAre
  <1>5. g.kind = d.rel /\ g.type = d.type /\ g.at = 1 /\ g.obj = o
    BY <1>3 DEF Frame
  <1>6. d.rel \in {"array", "vector"} /\ (d.rel = "array" => o # << >>)
    BY <1>3, <1>4
  <1>7. f = frames[Len(frames)] /\ AtField(f, d, p)
    BY <1>2, <1>3
  <1>8. PushesTo(frames, g, gs)
    BY <1>2, <1>3, <1>4, <1>6, <1>7, CallsLoop
  <1>9. Blank(g)
    BY <1>4, <1>5, <1>6 DEF Blank
  <1>10. k = IF g.kind \in {"array", "pointer"} THEN heap \cup {Owner(frames)} ELSE heap
    BY <1>3, <1>5, <1>6
  <1>11. DecAll(gs, "none", val, k, main)
    BY <1>1, <1>8, <1>9, <1>10, DecCalls
  <1>12. frames' = gs
    BY <1>3 DEF Appends
  <1> QED
    BY <1>2, <1>3, <1>11, <1>12 DEF DecNext

LEMMA DecArray ==
    ASSUME DecNow, CallArray
    PROVE  DecNext
  <1>1. Calls({"array"})
    BY DEF CallArray
  <1>2. InProgress(frames, "none", val, main) /\ Decoding /\ ~Encoding /\ ~Freeing
    BY <1>1, DecIs DEF Calls, Beginning, DecNow
  <1>3. Field.rel = "array"
    BY <1>1, <1>2, CallsIs
  <1>4. Part = << >>
    BY <1>1, <1>3, DecPart DEF Fresh
  <1>5. \/ frames' = frames /\ ret' \in {"true", "false"} /\ heap' = heap /\ val' = << >>
        \/ \E n \in Nat \ {0} :
             /\ frames' = Append(frames, Frame("array", Field.type, [i \in 1..n |-> Zero(Field.type)]))
             /\ ret' = ret /\ val' = val /\ heap' = heap \cup {Owner(frames)}
    <2>1. \/ Fails(Part)
          \/ \E word \in Peek(1), ok \in Allocates :
                LET c == word[1]
                IN IF ~Countable(c) \/ (c > 0 /\ ~ok) THEN Gives("false", Part) /\ UNCHANGED heap
                   ELSE IF c = 0 THEN Gives("true", Part) /\ UNCHANGED heap
                   ELSE /\ Loop("array", [i \in 1..c |-> Zero(Field.type)])
                        /\ heap' = heap \cup {Owner(frames)}
      BY <1>2 DEF CallArray
    <2>2. CASE Fails(Part)
      BY <1>4, <2>2 DEF Fails, Gives
    <2>3. ASSUME NEW word \in Peek(1),
                 \/ Gives("false", Part) /\ UNCHANGED heap
                 \/ Gives("true", Part) /\ UNCHANGED heap
                 \/ /\ word[1] # 0 /\ Loop("array", [i \in 1..word[1] |-> Zero(Field.type)])
                    /\ heap' = heap \cup {Owner(frames)}
          PROVE  <1>5!:
      <3>1. word[1] \in Nat
        BY PeekIs
      <3>2. CASE Gives("false", Part) /\ UNCHANGED heap
        BY <1>4, <3>2 DEF Gives
      <3>3. CASE Gives("true", Part) /\ UNCHANGED heap
        BY <1>4, <3>3 DEF Gives
      <3>4. CASE /\ word[1] # 0 /\ Loop("array", [i \in 1..word[1] |-> Zero(Field.type)])
                 /\ heap' = heap \cup {Owner(frames)}
        BY <3>1, <3>4 DEF Loop
      <3> QED
        BY <2>3, <3>2, <3>3, <3>4
    <2> QED
      BY <2>1, <2>2, <2>3
  <1>6. CASE frames' = frames /\ ret' \in {"true", "false"} /\ heap' = heap /\ val' = << >>
    BY <1>1, <1>3, <1>6, DecFieldGives
  <1>7. ASSUME NEW n \in Nat \ {0},
               frames' = Append(frames, Frame("array", Field.type, [i \in 1..n |-> Zero(Field.type)])),
               ret' = ret, val' = val, heap' = heap \cup {Owner(frames)}
        PROVE  DecNext
    BY <1>1, <1>3, <1>7, DecLoop
  <1> QED
    BY <1>5, <1>6, <1>7

LEMMA DecVector ==
    ASSUME DecNow, CallVector
    PROVE  DecNext
  <1>1. Calls({"vector"})
    BY DEF CallVector
  <1>2. InProgress(frames, "none", val, main)
    BY <1>1, DecIs DEF Calls, Beginning
  <1>3. Field.rel = "vector" /\ Field.max \in Nat
    BY <1>1, <1>2, CallsIs DEF AtField, IsField
  <1>4. Part = [i \in 1..Field.max |-> Zero(Field.type)]
    BY <1>1, <1>3, DecPart DEF Fresh
  <1>5. /\ frames' = Append(frames, Frame("vector", Field.type, [i \in 1..Field.max |-> Zero(Field.type)]))
        /\ ret' = ret /\ val' = val /\ heap' = heap
    BY <1>4 DEF CallVector, Loop
  <1> QED
    BY <1>1, <1>3, <1>5, DecLoop

-----------------------------------------------------------------------------
(* The innermost call when nothing is returned to it.                      *)
LEMMA InLoopIs ==
    ASSUME InLoop, ret = "none", InProgress(frames, "none", val, main)
    PROVE  /\ frames # << >> /\ Top = frames[Len(frames)] /\ IsFrame(Top)
           /\ Top.kind \in {"array", "vector"} /\ Len(Top.obj) \in Nat /\ Top.at \in Nat \ {0}
  <1>1. frames # << >> /\ Top = frames[Len(frames)] /\ Top.kind \in {"array", "vector"}
    BY DEF InLoop, Top
  <1>2. PICK c : c = StackOf(frames, "none", val)[Len(frames)]
    OBVIOUS
  <1>3. IsFrame(c) /\ c = Top
    BY <1>1, <1>2, TopIs
  <1>4. IsFrame(Top)
    BY <1>3
  <1>5. IsSeq(Top.obj) /\ Top.at \in Nat \ {0}
    BY <1>1, <1>4 DEF IsFrame, Even
  <1> QED
    BY <1>1, <1>4, <1>5 DEF IsSeq

LEMMA DecElement ==
    ASSUME DecNow, Element
    PROVE  DecNext
  <1>1. InLoop /\ ret = "none" /\ Top.at <= Len(Top.obj)
    BY DEF Element
  <1>2. DecAll(frames, "none", val, heap, main) /\ InProgress(frames, "none", val, main) /\ Decoding
    BY <1>1, DecIs DEF DecNow
  <1>3. PICK f : f = Top
    OBVIOUS
  <1>4. /\ frames # << >> /\ f = frames[Len(frames)] /\ IsFrame(f)
        /\ f.kind \in {"array", "vector"} /\ f.at \in 1..Len(f.obj)
    BY <1>1, <1>2, <1>3, InLoopIs
  <1>5. CASE f.type \in Scalars
    <2>1. Scalar(f.type, f.obj[f.at])
      BY <1>3, <1>5 DEF Element
    <2>2. PICK r, v, k : r = ret' /\ v = val' /\ k = heap'
      OBVIOUS
    <2>3. frames' = frames /\ k = heap /\ r \in {"true", "false"}
      BY <1>2, <2>1, <2>2, ScalarIs
    <2>4. CanStore(f, v) /\ ~SlotOpens(f, v) /\ ~SlotOwns(f, v)
      BY <1>4, <1>5 DEF CanStore, IsFrame, SlotOpens, SlotOwns, Lists
    <2>5. /\ CanStore(frames[Len(frames)], v)
          /\ SlotOpens(frames[Len(frames)], v) => Hollow(SlotNode(frames[Len(frames)], v))
          /\ k = IF SlotOwns(frames[Len(frames)], v) THEN heap \cup {Owner(frames)} ELSE heap
      BY <1>4, <2>3, <2>4
    <2>6. DecAll(frames, r, v, k, main)
      BY <1>2, <1>4, <2>3, <2>5, DecGives
    <2> QED
      BY <2>2, <2>3, <2>6 DEF DecNext
  <1>6. CASE f.type \notin Scalars
    <2>1. Call(f.type, f.obj[f.at], frames)
      BY <1>3, <1>6 DEF Element
    <2>2. PICK g, gs, t, o : g = Frame("filter", t, o) /\ Appends(frames, g, gs) /\ t = f.type /\ o = f.obj[f.at]
      BY DEF Appends
    <2>3. frames' = gs /\ ret' = "none" /\ val' = val /\ heap' = heap
      BY <1>1, <2>1, <2>2 DEF Call, Appends
    <2>4. t \in DOMAIN Defs
      BY <1>4, <1>6, <2>2 DEF IsFrame
    <2>5. o = << >>
      <3>1. PICK c : c = StackOf(frames, "none", val)[Len(frames)]
        OBVIOUS
      <3>2. c = f /\ DecFrame(c, Full(c, "none"))
        BY <1>2, <1>4, <3>1, TopIs
      <3>3. Blank(f) /\ f.at \in Nat
        BY <1>4, <3>2 DEF DecFrame, IsFrame
      <3>4. f.obj[f.at] = Zero(f.type)
        BY <1>4, <3>3 DEF Blank
      <3> QED
        BY <1>6, <2>2, <3>4 DEF Zero
    <2>6. g.kind = "filter" /\ g.obj = << >>
      BY <2>2, <2>5 DEF Frame
    <2>7. Even(g) /\ Blank(g)
      BY <2>6, ZeroIsEven
    <2>8. PushesTo(frames, g, gs)
      BY <1>4, <2>2, <2>4, <2>7, CallsFilter
    <2>9. DecAll(gs, "none", val, heap, main)
      BY <1>2, <2>6, <2>7, <2>8, DecCalls
    <2> QED
      BY <2>3, <2>9 DEF DecNext
  <1> QED
    BY <1>5, <1>6

StepsOn(f, u, g) == g = [f EXCEPT !.at = @ + 1, !.obj = u]

LEMMA ExceptIs ==
    ASSUME NEW k, NEW t, NEW a, NEW o, NEW f, f = [kind |-> k, type |-> t, at |-> a, obj |-> o], NEW u,
           NEW g, StepsOn(f, u, g)
    PROVE  g = [kind |-> k, type |-> t, at |-> a + 1, obj |-> u]
  <1>1. PICK b : b = a + 1
    OBVIOUS
  <1>2. PICK e, r : e = [f EXCEPT !.at = b, !.obj = u] /\ r = [kind |-> k, type |-> t, at |-> b, obj |-> u]
    OBVIOUS
  <1>3. PICK D : D = {"kind", "type", "at", "obj"}
    OBVIOUS
  <1>4. DOMAIN f = D /\ f.kind = k /\ f.type = t /\ f.at = a
    BY <1>3
  <1>5. r = [x \in D |-> r[x]] /\ r.kind = k /\ r.type = t /\ r.at = b /\ r.obj = u
    BY <1>2, <1>3
  <1>6. e = [x \in D |-> e[x]]
    BY <1>2, <1>4
  <1>7. e.kind = k /\ e.type = t
    BY <1>2, <1>3, <1>4
  <1>8. e.at = b
    BY <1>2, <1>3, <1>4
  <1>9. e.obj = u
    BY <1>2, <1>3, <1>4
  <1>10. \A x \in D : e[x] = r[x]
    BY <1>3, <1>5, <1>7, <1>8, <1>9
  <1>11. e = r
    BY <1>5, <1>6, <1>10
  <1>12. g = e
    BY <1>1, <1>2, <1>4 DEF StepsOn
  <1> QED
    BY <1>1, <1>2, <1>11, <1>12

(* What a call returns is stored; the calls as they are then.              *)
LEMMA PutIs ==
    ASSUME NEW fs, NEW r, NEW v, NEW t, InProgress(fs, r, v, t), fs # << >>, r # "none",
           NEW f, f = fs[Len(fs)]
    PROVE  /\ StackOf(fs, r, v) = [fs EXCEPT ![Len(fs)].at = @ + 1, ![Len(fs)].obj = Put(f, v)]
           /\ StackOf(fs, r, v)[Len(fs)] = Behind(f, v) /\ IsFrame(Behind(f, v))
  <1>1. PICK n : n = Len(fs)
    OBVIOUS
  <1>2. IsSeq(fs) /\ n \in Nat \ {0} /\ IsCall(f)
    <2>1. PICK c : c = StackOf(fs, r, v)[Len(fs)]
      OBVIOUS
    <2> QED
      BY <1>1, <2>1, TopIs DEF InProgress
  <1>3. PICK S : fs \in Seq(S)
    BY <1>2 DEF IsSeq
  <1>4. DOMAIN fs = 1..n /\ fs = [j \in 1..n |-> fs[j]]
    BY <1>1, <1>3
  <1>5. [f EXCEPT !.at = @ + 1, !.obj = Put(f, v)] = Behind(f, v)
    <2>1. f = [kind |-> f.kind, type |-> f.type, at |-> f.at, obj |-> f.obj]
      BY <1>2 DEF IsCall
    <2>2. PICK k, t1, a, o : k = f.kind /\ t1 = f.type /\ a = f.at /\ o = f.obj
      OBVIOUS
    <2>3. PICK u : u = Put(f, v)
      OBVIOUS
    <2>4. f = [kind |-> k, type |-> t1, at |-> a, obj |-> o]
      BY <2>1, <2>2
    <2>5. PICK g : StepsOn(f, u, g)
      BY DEF StepsOn
    <2>6. Behind(f, v) = [kind |-> k, type |-> t1, at |-> a + 1, obj |-> u]
      BY <2>2, <2>3 DEF Behind
    <2>7. g = [kind |-> k, type |-> t1, at |-> a + 1, obj |-> u]
      BY <2>4, <2>5, ExceptIs
    <2>8. g = [f EXCEPT !.at = @ + 1, !.obj = u]
      BY <2>5 DEF StepsOn
    <2> QED
      BY <2>3, <2>6, <2>7, <2>8
  <1>6. [fs EXCEPT ![n].at = @ + 1, ![n].obj = Put(f, v)] = StackOf(fs, r, v)
    <2>1. PICK u : u = Put(f, v)
      OBVIOUS
    <2>2. PICK b : b = Behind(f, v)
      OBVIOUS
    <2>3. [fs[n] EXCEPT !.at = @ + 1, !.obj = u] = b
      BY <1>1, <1>5, <2>1, <2>2
    <2>4. n \in 1..n
      BY <1>2
    <2>5. [fs EXCEPT ![n].at = @ + 1, ![n].obj = u] = [j \in 1..n |-> IF j = n THEN b ELSE fs[j]]
      BY <1>4, <2>3, <2>4
    <2>6. StackOf(fs, r, v) = [j \in 1..n |-> IF j = n THEN b ELSE fs[j]]
      <3>1. \A j \in 1..n : (IF j = n /\ r # "none" THEN Behind(fs[j], v) ELSE fs[j]) = IF j = n THEN b ELSE fs[j]
        BY <1>1, <2>2
      <3> QED
        BY <1>1, <3>1 DEF StackOf
    <2> QED
      BY <2>1, <2>5, <2>6
  <1>7. StackOf(fs, r, v)[n] = Behind(f, v) /\ IsFrame(Behind(f, v))
    <2>1. PICK c : c = StackOf(fs, r, v)[Len(fs)]
      OBVIOUS
    <2> QED
      BY <1>1, <2>1, TopIs
  <1> QED
    BY <1>1, <1>6, <1>7

-----------------------------------------------------------------------------
(* What returns, decoding and freeing.                                     *)
FreeNow == Freeing /\ FreeAll(frames, ret, val, heap, main)
FreeNext == FreeAll(frames', ret', val', heap', main)

LEMMA FreeIs ==
    ASSUME FreeNow
    PROVE  /\ ~Encoding /\ ~Decoding /\ InProgress(frames, ret, val, main)
           /\ FreeAll(frames, ret, val, heap, main)
  BY DEF FreeNow, Decoding, Encoding, Freeing, FreeAll

(* What was returned is stored.                                            *)
LEMMA StoredNext ==
    ASSUME DecNow \/ FreeNow, frames # << >>, ret = "true",
           frames' = [frames EXCEPT ![Len(frames)].at = @ + 1, ![Len(frames)].obj = Put(Top, val)],
           ret' = "none", val' = << >>, heap' = heap
    PROVE  (DecNow => DecNext) /\ (FreeNow => FreeNext)
  <1>1. InProgress(frames, "true", val, main)
    BY DecIs, FreeIs
  <1>2. PICK gs, w : gs = StackOf(frames, "true", val) /\ w = val'
    OBVIOUS
  <1>3. PICK f, u : f = Top /\ u = Put(Top, val)
    OBVIOUS
  <1>4. f = frames[Len(frames)]
    BY <1>3 DEF Top
  <1>5. gs = [frames EXCEPT ![Len(frames)].at = @ + 1, ![Len(frames)].obj = Put(f, val)]
    BY <1>1, <1>2, <1>4, PutIs
  <1>6. frames' = gs
    BY <1>3, <1>5
  <1>7. /\ DecAll(frames, "true", val, heap, main) => DecAll(gs, "none", w, heap, main)
        /\ FreeAll(frames, "true", val, heap, main) => FreeAll(gs, "none", w, heap, main)
    BY <1>1, <1>2, Takes
  <1>8. DecNow => DecAll(frames, "true", val, heap, main)
    BY DecIs
  <1>9. FreeNow => FreeAll(frames, "true", val, heap, main)
    BY FreeIs
  <1> QED
    BY <1>2, <1>6, <1>7, <1>8, <1>9 DEF DecNext, FreeNext

(* The innermost call when something is returned to it.                    *)
LEMMA ReturnedIs ==
    ASSUME DecNow \/ FreeNow, frames # << >>, ret # "none"
    PROVE  /\ InProgress(frames, ret, val, main) /\ ret \in {"true", "false"} /\ Top = frames[Len(frames)]
           /\ StackOf(frames, ret, val)[Len(frames)] = Behind(Top, val) /\ IsFrame(Behind(Top, val))
           /\ DecNow => DecFrame(Behind(Top, val), Full(Behind(Top, val), ret))
           /\ FreeNow /\ ret = "false" => Clear(Behind(Top, val), Behind(Top, val).at)
  <1>1. InProgress(frames, ret, val, main) /\ ret \in {"true", "false"}
    BY DecIs, FreeIs DEF InProgress
  <1>2. Top = frames[Len(frames)]
    BY DEF Top
  <1>3. PICK c : c = StackOf(frames, ret, val)[Len(frames)]
    OBVIOUS
  <1>4. IsFrame(c) /\ c = Behind(Top, val)
    BY <1>1, <1>2, <1>3, TopIs
  <1>5. /\ DecAll(frames, ret, val, heap, main) => DecFrame(c, Full(c, ret))
        /\ FreeAll(frames, ret, val, heap, main) /\ ret = "false" => Clear(c, c.at)
    BY <1>1, <1>3, TopIs
  <1>6. DecNow => DecAll(frames, ret, val, heap, main)
    BY DecIs
  <1>7. FreeNow => FreeAll(frames, ret, val, heap, main)
    BY FreeIs
  <1> QED
    BY <1>1, <1>2, <1>3, <1>4, <1>5, <1>6, <1>7

(* A call returns to its caller.                                           *)
LEMMA DecReturnsNext ==
    ASSUME DecNow, frames # << >>, NEW c, c = StackOf(frames, ret, val)[Len(frames)],
           NEW now \in {"true", "false"}, now = "false" \/ ~Gappy(c), c.kind = "pointer" => c.obj # << >>,
           NEW o, o = c.obj, frames' = Front(frames), ret' = now, val' = o, heap' = heap
    PROVE  DecNext
  <1>1. DecAll(frames, ret, val, heap, main)
    BY DecIs
  <1>2. PICK st : st = StackOf(frames, ret, val)
    OBVIOUS
  <1>3. c = st[Len(frames)]
    BY <1>2
  <1>4. DecAll(Front(frames), now, c.obj, heap, main)
    BY <1>1, <1>2, <1>3, DecReturns
  <1> QED
    BY <1>4 DEF DecNext

LEMMA FreeReturnsNext ==
    ASSUME FreeNow, frames # << >>, NEW c, c = StackOf(frames, ret, val)[Len(frames)],
           NEW now \in {"true", "false"}, now = "false" => ret = "false" \/ NoArm(c), Clear(c, c.at),
           NEW v, c.kind \in Lists => IsSeq(v), frames' = Front(frames), ret' = now, val' = v,
           heap' = IF c.kind \in {"array", "pointer"} THEN heap \ {Owner(Front(frames))} ELSE heap
    PROVE  FreeNext
  <1>1. FreeAll(frames, ret, val, heap, main)
    BY FreeIs
  <1>2. PICK st, k : st = StackOf(frames, ret, val) /\ k = heap'
    OBVIOUS
  <1>3. c = st[Len(frames)] /\ Leaves(c, ret, heap, Owner(Front(frames)), now, v, k)
    BY <1>2 DEF Leaves
  <1>4. FreeAll(Front(frames), now, v, k, main)
    BY <1>1, <1>2, <1>3, FreeReturns
  <1> QED
    BY <1>2, <1>4 DEF FreeNext

(* A loop or xdr_pointer returns.                                          *)
LEMMA EndsNext ==
    ASSUME DecNow \/ FreeNow, frames # << >>, NEW c, c = StackOf(frames, ret, val)[Len(frames)],
           c.kind = Top.kind, c.kind # "filter", IsFrame(c),
           NEW now \in {"true", "false"}, now = "false" => ret = "false",
           FreeNow => Clear(c, c.at),
           DecNow => now = "false" \/ ~Gappy(c), c.kind = "pointer" => c.obj # << >>,
           NEW o, o = c.obj, Ends(now, o)
    PROVE  (DecNow => DecNext) /\ (FreeNow => FreeNext)
  <1>1. CASE DecNow
    <2>1. ~Freeing /\ ~FreeNow
      BY <1>1, DecIs DEF FreeNow
    <2>2. frames' = Front(frames) /\ ret' = now /\ val' = o /\ heap' = heap
      BY <2>1 DEF Ends, Return
    <2> QED
      BY <1>1, <2>1, <2>2, DecReturnsNext
  <1>2. CASE FreeNow
    <2>1. Freeing /\ ~DecNow
      BY <1>2, FreeIs DEF FreeNow, DecNow
    <2>2. PICK v : v = val'
      OBVIOUS
    <2>3. /\ frames' = Front(frames) /\ ret' = now
          /\ c.kind \in {"array", "pointer"} => heap' = heap \ {Owner(Front(frames))} /\ v = << >>
          /\ c.kind \notin {"array", "pointer"} => heap' = heap /\ v = o
      <3>1. CASE Top.kind \in {"array", "pointer"}
        BY <2>1, <2>2, <3>1 DEF Ends, Return, Releases
      <3>2. CASE Top.kind \notin {"array", "pointer"}
        BY <2>1, <2>2, <3>2 DEF Ends, Return, Releases
      <3> QED
        BY <3>1, <3>2
    <2>4. c.kind \in Lists => IsSeq(v)
      <3>1. PICK z : z = << >>
        OBVIOUS
      <3>2. z \in Seq({})
        BY <3>1
      <3>3. IsSeq(z)
        BY <3>2 DEF IsSeq
      <3>4. c.kind = "vector" => IsSeq(o)
        BY DEF IsFrame, Even
      <3>5. c.kind \in {"array", "pointer"} => v = z
        BY <2>3, <3>1
      <3> QED
        BY <2>3, <3>3, <3>4, <3>5 DEF Lists
    <2>5. heap' = IF c.kind \in {"array", "pointer"} THEN heap \ {Owner(Front(frames))} ELSE heap
      BY <2>3
    <2> QED
      BY <1>2, <2>1, <2>2, <2>3, <2>4, <2>5, FreeReturnsNext
  <1> QED
    BY <1>1, <1>2

LEMMA ElementReturnsNext ==
    ASSUME DecNow \/ FreeNow, ElementReturns
    PROVE  (DecNow => DecNext) /\ (FreeNow => FreeNext)
  <1>1. /\ frames # << >> /\ Top.kind \in {"array", "vector"} /\ ret # "none"
        /\ IF ret = "true"
             THEN /\ frames' = [frames EXCEPT ![Len(frames)].at = @ + 1, ![Len(frames)].obj = PutAt(Top.obj, Top.at, val)]
                  /\ ret' = "none" /\ val' = << >> /\ UNCHANGED heap
             ELSE Ends("false", PutAt(Top.obj, Top.at, val))
    BY DEF ElementReturns, InLoop, PutAt
  <1>2. PutAt(Top.obj, Top.at, val) = Put(Top, val)
    BY <1>1 DEF Put
  <1>3. CASE ret = "true"
    BY <1>1, <1>2, <1>3, StoredNext
  <1>4. CASE ret # "true"
    <2>1. PICK c, o : c = Behind(Top, val) /\ o = c.obj
      OBVIOUS
    <2>2. c.kind = Top.kind /\ o = Put(Top, val) /\ c.kind # "filter" /\ c.kind # "pointer"
      BY <1>1, <2>1 DEF Behind
    <2>3. c = StackOf(frames, ret, val)[Len(frames)] /\ IsFrame(c) /\ ret = "false"
          /\ (FreeNow => Clear(c, c.at))
      BY <1>1, <1>4, <2>1, ReturnedIs
    <2>4. Ends("false", o)
      BY <1>1, <1>2, <1>4, <2>2
    <2> QED
      BY <1>1, <2>1, <2>2, <2>3, <2>4, EndsNext
  <1> QED
    BY <1>3, <1>4

LEMMA ElementsDoneNext ==
    ASSUME DecNow \/ FreeNow, ElementsDone
    PROVE  (DecNow => DecNext) /\ (FreeNow => FreeNext)
  <1>1. InLoop /\ ret = "none" /\ Top.at > Len(Top.obj) /\ Ends("true", Top.obj)
    BY DEF ElementsDone
  <1>2. InProgress(frames, "none", val, main)
    BY <1>1, DecIs, FreeIs
  <1>3. PICK c, o : c = Top /\ o = c.obj
    OBVIOUS
  <1>4. frames # << >> /\ c = frames[Len(frames)] /\ IsFrame(c) /\ c.kind \in {"array", "vector"}
    BY <1>1, <1>2, <1>3, InLoopIs
  <1>5. PICK t : t = StackOf(frames, ret, val)[Len(frames)]
    OBVIOUS
  <1>6. t = c /\ (DecAll(frames, "none", val, heap, main) => DecFrame(c, Full(c, "none")))
    BY <1>1, <1>2, <1>4, <1>5, TopIs
  <1>7. Ended(c, c.at) /\ (DecFrame(c, c.at) => ~Gappy(c))
    BY <1>1, <1>3, <1>4, LoopEnded
  <1>8. DecNow => ~Gappy(c)
    BY <1>1, <1>6, <1>7, DecIs DEF Full
  <1>9. Clear(c, c.at)
    BY <1>7, EndedIs
  <1> QED
    BY <1>1, <1>3, <1>4, <1>5, <1>6, <1>8, <1>9, EndsNext

LEMMA PointerReturnsNext ==
    ASSUME DecNow \/ FreeNow, PointerReturns
    PROVE  (DecNow => DecNext) /\ (FreeNow => FreeNext)
  <1>1. frames # << >> /\ Top.kind = "pointer" /\ ret # "none" /\ Ends(ret, <<val>>)
    BY DEF PointerReturns, Returned, Within
  <1>2. PICK c, o : c = Behind(Top, val) /\ o = c.obj
    OBVIOUS
  <1>3. c.kind = Top.kind /\ o = <<val>>
    BY <1>1, <1>2 DEF Behind, Put
  <1>4. c = StackOf(frames, ret, val)[Len(frames)] /\ IsFrame(c) /\ ret \in {"true", "false"}
        /\ (DecNow => DecFrame(c, Full(c, ret)))
    BY <1>1, <1>2, ReturnedIs
  <1>5. o # << >>
    <2>1. Len(<<val>>) = 1 /\ Len(<< >>) = 0
      OBVIOUS
    <2> QED
      BY <1>3, <2>1
  <1>6. c.kind = "pointer" /\ c.at >= 2
    BY <1>1, <1>2, <1>3, <1>4, <1>5 DEF IsFrame
  <1>7. Ended(c, c.at) /\ (DecFrame(c, c.at) => ~Gappy(c))
    BY <1>4, <1>6, LoopEnded
  <1>8. DecNow => ret = "false" \/ ~Gappy(c)
    BY <1>4, <1>7 DEF Full
  <1>9. Clear(c, c.at)
    BY <1>7, EndedIs
  <1>10. Ends(ret, o)
    BY <1>1, <1>3
  <1> QED
    BY <1>1, <1>2, <1>3, <1>4, <1>5, <1>6, <1>8, <1>9, <1>10, EndsNext

LEMMA FieldReturnsNext ==
    ASSUME DecNow \/ FreeNow, FieldReturns
    PROVE  (DecNow => DecNext) /\ (FreeNow => FreeNext)
  <1>1. /\ frames # << >> /\ Top.kind = "filter" /\ ret = "true"
        /\ frames' = [frames EXCEPT ![Len(frames)].at = @ + 1, ![Len(frames)].obj = WithField]
        /\ ret' = "none" /\ val' = << >> /\ heap' = heap
    BY DEF FieldReturns, Returned, Within
  <1>2. WithField = Put(Top, val)
    BY <1>1 DEF Put, WithField, Field
  <1> QED
    BY <1>1, <1>2, StoredNext

LEMMA FieldFailsNext ==
    ASSUME DecNow \/ FreeNow, FieldFails
    PROVE  (DecNow => DecNext) /\ (FreeNow => FreeNext)
  <1>1. /\ frames # << >> /\ Top.kind = "filter" /\ ret = "false"
        /\ frames' = Front(frames) /\ ret' = "false" /\ val' = WithField /\ heap' = heap
    BY DEF FieldFails, Returned, Within, Return
  <1>2. PICK c, o : c = Behind(Top, val) /\ o = c.obj
    OBVIOUS
  <1>3. c.kind = "filter" /\ o = WithField
    BY <1>1, <1>2 DEF Behind, Put, WithField, Field
  <1>4. c = StackOf(frames, ret, val)[Len(frames)] /\ (FreeNow => Clear(c, c.at))
    BY <1>1, <1>2, ReturnedIs
  <1>5. DecNow => DecNext
    BY <1>1, <1>2, <1>3, <1>4, DecReturnsNext
  <1>6. FreeNow => FreeNext
    <2>1. c.kind \notin {"array", "pointer"} /\ c.kind \notin Lists
      BY <1>3 DEF Lists
    <2> QED
      BY <1>1, <1>3, <1>4, <2>1, FreeReturnsNext
  <1> QED
    BY <1>5, <1>6

LEMMA FilterEndsNext ==
    ASSUME DecNow \/ FreeNow, FilterEnds
    PROVE  (DecNow => DecNext) /\ (FreeNow => FreeNext)
  <1>1. PICK now : now = IF Done(Top) THEN "true" ELSE "false"
    OBVIOUS
  <1>2. /\ frames # << >> /\ Top.kind = "filter" /\ ret = "none" /\ ~(Top.at <= Len(FieldsOf(Top)))
        /\ frames' = Front(frames) /\ ret' = now /\ val' = Top.obj /\ heap' = heap
    BY <1>1 DEF FilterEnds, Beginning, Within, Return, MoreFields
  <1>3. InProgress(frames, "none", val, main)
    BY <1>2, DecIs, FreeIs
  <1>4. PICK c, o : c = StackOf(frames, ret, val)[Len(frames)] /\ o = c.obj
    OBVIOUS
  <1>5. c = Top /\ IsFrame(c) /\ (DecAll(frames, "none", val, heap, main) => DecFrame(c, Full(c, "none")))
    BY <1>2, <1>3, <1>4, TopIs DEF Top
  <1>6. c.kind = "filter" /\ c.at > Len(FieldsOf(c))
    <2>1. c.at \in Nat /\ c.type \in DOMAIN Defs
      BY <1>2, <1>5 DEF IsFrame
    <2>2. Len(FieldsOf(c)) \in Nat
      BY <2>1, FieldsAre
    <2>3. ~(c.at <= Len(FieldsOf(c)))
      BY <1>2, <1>5
    <2> QED
      BY <1>2, <1>5, <2>1, <2>2, <2>3
  <1>7. /\ Clear(c, c.at)
        /\ Done(c) /\ DecFrame(c, c.at) => ~Gappy(c)
        /\ ~Done(c) => NoArm(c)
    BY <1>5, <1>6, FilterEnded
  <1>8. now \in {"true", "false"} /\ (now = "true" <=> Done(c))
    BY <1>1, <1>5
  <1>9. ASSUME DecNow PROVE DecNext
    <2>1. now = "false" \/ ~Gappy(c)
      BY <1>2, <1>5, <1>7, <1>8, <1>9, DecIs DEF Full
    <2>2. val' = o /\ c.kind # "pointer"
      BY <1>2, <1>4, <1>5, <1>6
    <2> QED
      BY <1>2, <1>4, <1>8, <1>9, <2>1, <2>2, DecReturnsNext
  <1>10. ASSUME FreeNow PROVE FreeNext
    <2>1. c.kind \notin {"array", "pointer"} /\ c.kind \notin Lists
      BY <1>6 DEF Lists
    <2>2. val' = o
      BY <1>2, <1>4, <1>5
    <2> QED
      BY <1>2, <1>4, <1>7, <1>8, <1>10, <2>1, <2>2, FreeReturnsNext
  <1> QED
    BY <1>9, <1>10

-----------------------------------------------------------------------------
(* Freeing: the calls.                                                     *)

(* The field where the innermost filter is.                                *)
LEMMA FreeCalls ==
    ASSUME FreeNow, NEW rels, Calls(rels)
    PROVE  /\ FreeAll(frames, "none", val, heap, main) /\ InProgress(frames, "none", val, main)
           /\ Freeing /\ ~Encoding /\ ~Decoding
           /\ frames # << >> /\ ret = "none" /\ Top = frames[Len(frames)]
           /\ AtField(Top, Field, Part) /\ Field.rel \in rels /\ FreeFrame(Top, Top.at)
  <1>1. FreeAll(frames, "none", val, heap, main) /\ InProgress(frames, "none", val, main)
    BY FreeIs DEF Calls, Beginning
  <1>2. frames # << >> /\ ret = "none" /\ Top = frames[Len(frames)] /\ AtField(Top, Field, Part) /\ Field.rel \in rels
    BY <1>1, CallsIs
  <1>3. PICK c : c = StackOf(frames, "none", val)[Len(frames)]
    OBVIOUS
  <1>4. c = Top /\ FreeFrame(c, c.at)
    BY <1>1, <1>2, <1>3, TopIs
  <1>5. Freeing /\ ~Encoding /\ ~Decoding
    BY FreeIs DEF FreeNow
  <1> QED
    BY <1>1, <1>2, <1>4, <1>5

LEMMA FreeFieldGives ==
    ASSUME FreeNow, NEW rels, Calls(rels), frames' = frames, ret' = "true",
           \/ Field.rel \in {"string", "bytes", "opaque"}
           \/ Field.rel \in {"pointer", "array"} /\ Part = << >> /\ val' = << >>
           \/ Field.rel = "alias" /\ Field.type \in Scalars /\ val' = Part,
           \/ heap' = heap /\ Field.rel \notin {"string", "bytes"}
           \/ heap' = heap \ {Owner(frames)}
    PROVE  FreeNext
  <1>1. /\ FreeAll(frames, "none", val, heap, main) /\ frames # << >>
        /\ Top = frames[Len(frames)] /\ AtField(Top, Field, Part)
    BY FreeCalls
  <1>2. PICK v, k, f, d, p : v = val' /\ k = heap' /\ f = Top /\ d = Field /\ p = Part
    OBVIOUS
  <1>3. /\ f = frames[Len(frames)] /\ AtField(f, d, p)
        /\ \/ d.rel \in {"string", "bytes", "opaque"}
           \/ d.rel \in {"pointer", "array"} /\ p = << >> /\ v = << >>
           \/ d.rel = "alias" /\ d.type \in Scalars /\ v = p
        /\ \/ k = heap /\ d.rel \notin {"string", "bytes"}
           \/ k = heap \ {Owner(frames)}
    BY <1>1, <1>2
  <1>4. FreeAll(frames, "true", v, k, main)
    BY <1>1, <1>3, FreeField
  <1> QED
    BY <1>2, <1>4 DEF FreeNext

LEMMA FreeAlias ==
    ASSUME FreeNow, CallAlias
    PROVE  FreeNext
  <1>1. Calls({"alias"})
    BY DEF CallAlias
  <1>2. /\ FreeAll(frames, "none", val, heap, main) /\ Freeing
        /\ frames # << >> /\ ret = "none" /\ Top = frames[Len(frames)] /\ AtField(Top, Field, Part)
        /\ Field.rel = "alias" /\ FreeFrame(Top, Top.at)
    BY <1>1, FreeCalls
  <1>3. CASE Field.type \in Scalars
    <2>1. Scalar(Field.type, Part)
      BY <1>3 DEF CallAlias
    <2>2. frames' = frames /\ heap' = heap /\ ret' = "true" /\ val' = Part
      BY <1>2, <2>1, ScalarIs
    <2> QED
      BY <1>1, <1>2, <1>3, <2>2, FreeFieldGives
  <1>4. CASE Field.type \notin Scalars
    <2>1. Call(Field.type, Part, frames)
      BY <1>4 DEF CallAlias
    <2>2. PICK g, gs, f, d, p, t :
            g = Frame("filter", t, p) /\ Appends(frames, g, gs) /\ f = Top /\ d = Field /\ p = Part /\ t = d.type
      BY DEF Appends
    <2>3. frames' = gs /\ ret' = "none" /\ val' = val /\ heap' = heap
      BY <1>2, <2>1, <2>2 DEF Call, Appends
    <2>4. /\ f.kind = "filter" /\ f.at \in 1..Len(FieldsOf(f)) /\ FieldsOf(f)[f.at].rel = "alias"
          /\ FieldsOf(f)[f.at].type = t /\ t \in DOMAIN Defs /\ f = frames[Len(frames)]
      BY <1>2, <1>4, <2>2 DEF AtField, IsField
    <2>5. /\ AtField(f, d, p) /\ FreeFrame(f, f.at) /\ HasCalls(d, p) /\ d.rel = "alias"
          /\ g = Frame(KindOf(d), d.type, p)
      BY <1>2, <1>4, <2>2 DEF HasCalls, KindOf
    <2>6. Enters(f, g) /\ Even(g)
      BY <2>5, EntersField
    <2>7. PushesTo(frames, g, gs)
      BY <1>2, <2>2, <2>4, <2>6, CallsFilter
    <2>8. Enters(frames[Len(frames)], g)
      BY <2>4, <2>6
    <2>9. FreeAll(gs, "none", val, heap, main)
      BY <1>2, <2>7, <2>8, FreePushes
    <2> QED
      BY <2>3, <2>9 DEF FreeNext
  <1> QED
    BY <1>3, <1>4

LEMMA FreeCountedNext ==
    ASSUME FreeNow, CallCounted
    PROVE  FreeNext
  <1>1. Calls({"string", "bytes"})
    BY DEF CallCounted
  <1>2. Freeing /\ ~Encoding /\ ~Decoding /\ Field.rel \in {"string", "bytes"}
    BY <1>1, FreeCalls
  <1>3. frames' = frames /\ heap' = heap \ {Owner(frames)} /\ ret' = "true"
    BY <1>2 DEF CallCounted, FreeCounted, Gives
  <1> QED
    BY <1>1, <1>2, <1>3, FreeFieldGives

LEMMA FreeOpaque ==
    ASSUME FreeNow, CallOpaque
    PROVE  FreeNext
  <1>1. Calls({"opaque"})
    BY DEF CallOpaque
  <1>2. Freeing /\ ~Encoding /\ ~Decoding /\ Field.rel = "opaque"
    BY <1>1, FreeCalls
  <1>3. frames' = frames /\ heap' = heap /\ ret' = "true"
    BY <1>2 DEF CallOpaque, Gives
  <1> QED
    BY <1>1, <1>2, <1>3, FreeFieldGives

LEMMA FreePointerNext ==
    ASSUME FreeNow, CallPointer
    PROVE  FreeNext
  <1>1. Calls({"pointer"})
    BY DEF CallPointer
  <1>2. /\ FreeAll(frames, "none", val, heap, main) /\ Freeing /\ ~Encoding /\ ~Decoding
        /\ frames # << >> /\ ret = "none" /\ Top = frames[Len(frames)] /\ AtField(Top, Field, Part)
        /\ Field.rel = "pointer"
    BY <1>1, FreeCalls
  <1>3. IF Part = << >> THEN Gives("true", Part) /\ UNCHANGED <<streamVars, heap>>
        ELSE /\ frames' = Append(Append(frames, Frame("pointer", Field.type, << >>)),
                                 Frame("filter", Field.type, Part[1]))
             /\ UNCHANGED <<ret, val>> /\ UNCHANGED <<streamVars, heap>>
    BY <1>2 DEF CallPointer
  <1>4. CASE Part = << >>
    <2>1. frames' = frames /\ heap' = heap /\ ret' = "true" /\ val' = << >>
      BY <1>3, <1>4 DEF Gives
    <2> QED
      BY <1>1, <1>2, <1>4, <2>1, FreeFieldGives
  <1>5. CASE Part # << >>
    <2>1. PICK b, fb, g, gs, f, d, o, a :
            /\ b = Frame("pointer", a, << >>) /\ Appends(frames, b, fb)
            /\ g = Frame("filter", a, o[1]) /\ Appends(fb, g, gs) /\ f = Top /\ d = Field /\ o = Part /\ a = d.type
      BY DEF Appends
    <2>2. frames' = gs /\ ret' = "none" /\ val' = val /\ heap' = heap
      BY <1>2, <1>3, <1>5, <2>1 DEF Appends
    <2>3. AtField(f, d, o) /\ f = frames[Len(frames)] /\ d.rel = "pointer" /\ o # << >>
      BY <1>2, <1>5, <2>1
    <2>4. /\ IsSeq(o)
          /\ Opens(f, f.at) <=> Stores(f, f.at) /\ HasCalls(d, o)
          /\ Owns(f, f.at) <=> Stores(f, f.at) /\ HasBlock(d, o)
          /\ Stores(f, f.at) => Inner(f, f.at) = Node(KindOf(d), d.type, o)
          /\ ~Stores(f, f.at) => o = Fresh(d)
      BY <2>3, FieldHolds DEF Lists
    <2>5. Stores(f, f.at) /\ HasCalls(d, o) /\ HasBlock(d, o) /\ KindOf(d) = "pointer"
      BY <2>3, <2>4 DEF Fresh, HasCalls, HasBlock, KindOf
    <2>6. Opens(f, f.at) /\ Owns(f, f.at) /\ Inner(f, f.at) = Node("pointer", a, o)
      BY <2>1, <2>4, <2>5
    <2>7. PushesTo(frames, b, fb) /\ a \in DOMAIN Defs
      BY <1>2, <2>1, <2>3, CallsPointer
    <2>8. b.kind = "pointer" /\ b.type = a /\ b.obj = << >>
      BY <2>1 DEF Frame
    <2>9. FreeAll(gs, "none", val, heap, main)
      BY <1>2, <2>1, <2>3, <2>4, <2>6, <2>7, <2>8, FreePointer
    <2> QED
      BY <2>2, <2>9 DEF FreeNext
  <1> QED
    BY <1>4, <1>5

(* The loop over what is in a field.                                       *)
LEMMA FreeLoop ==
    ASSUME FreeNow, NEW rels, Calls(rels), Field.rel = "vector" \/ (Field.rel = "array" /\ Part # << >>),
           frames' = Append(frames, Frame(Field.rel, Field.type, Part)),
           ret' = ret, val' = val, heap' = heap
    PROVE  FreeNext
  <1>1. /\ FreeAll(frames, "none", val, heap, main)
        /\ frames # << >> /\ ret = "none" /\ Top = frames[Len(frames)] /\ AtField(Top, Field, Part)
        /\ FreeFrame(Top, Top.at)
    BY FreeCalls
  <1>2. PICK g, gs, f, d, p : g = Frame(d.rel, d.type, p) /\ Appends(frames, g, gs) /\ f = Top /\ d = Field /\ p = Part
    BY DEF Appends
  <1>3. /\ f = frames[Len(frames)] /\ AtField(f, d, p) /\ FreeFrame(f, f.at)
        /\ d.rel \in {"array", "vector"} /\ (d.rel = "array" => p # << >>)
    BY <1>1, <1>2
  <1>4. IsSeq(p)
    BY <1>3, FieldHolds DEF Lists
  <1>5. HasCalls(d, p) /\ g = Frame(KindOf(d), d.type, p)
    BY <1>2, <1>3 DEF HasCalls, KindOf
  <1>6. Enters(f, g)
    BY <1>3, <1>5, EntersField
  <1>7. PushesTo(frames, g, gs)
    BY <1>1, <1>2, <1>3, <1>4, CallsLoop
  <1>8. Enters(frames[Len(frames)], g)
    BY <1>3, <1>6
  <1>9. FreeAll(gs, "none", val, heap, main)
    BY <1>1, <1>7, <1>8, FreePushes
  <1>10. frames' = gs
    BY <1>2 DEF Appends
  <1> QED
    BY <1>1, <1>9, <1>10 DEF FreeNext

LEMMA FreeArray ==
    ASSUME FreeNow, CallArray
    PROVE  FreeNext
  <1>1. Calls({"array"})
    BY DEF CallArray
  <1>2. Freeing /\ ~Encoding /\ ~Decoding /\ Field.rel = "array"
    BY <1>1, FreeCalls
  <1>3. IF Part = << >> THEN Gives("true", Part) /\ heap' = heap ELSE Loop("array", Part) /\ heap' = heap
    BY <1>2 DEF CallArray
  <1>4. CASE Part = << >>
    <2>1. frames' = frames /\ heap' = heap /\ ret' = "true" /\ val' = << >>
      BY <1>3, <1>4 DEF Gives
    <2> QED
      BY <1>1, <1>2, <1>4, <2>1, FreeFieldGives
  <1>5. CASE Part # << >>
    <2>1. frames' = Append(frames, Frame(Field.rel, Field.type, Part)) /\ ret' = ret /\ val' = val /\ heap' = heap
      BY <1>2, <1>3, <1>5 DEF Loop
    <2> QED
      BY <1>1, <1>2, <1>5, <2>1, FreeLoop
  <1> QED
    BY <1>4, <1>5

LEMMA FreeVector ==
    ASSUME FreeNow, CallVector
    PROVE  FreeNext
  <1>1. Calls({"vector"})
    BY DEF CallVector
  <1>2. Field.rel = "vector"
    BY <1>1, FreeCalls
  <1>3. frames' = Append(frames, Frame(Field.rel, Field.type, Part)) /\ ret' = ret /\ val' = val /\ heap' = heap
    BY <1>2 DEF CallVector, Loop
  <1> QED
    BY <1>1, <1>2, <1>3, FreeLoop

LEMMA FreeElement ==
    ASSUME FreeNow, Element
    PROVE  FreeNext
  <1>1. InLoop /\ ret = "none" /\ Top.at <= Len(Top.obj)
    BY DEF Element
  <1>2. FreeAll(frames, "none", val, heap, main) /\ InProgress(frames, "none", val, main) /\ Freeing
    BY <1>1, FreeIs DEF FreeNow
  <1>3. PICK f : f = Top
    OBVIOUS
  <1>4. /\ frames # << >> /\ f = frames[Len(frames)] /\ IsFrame(f)
        /\ f.kind \in {"array", "vector"} /\ f.at \in 1..Len(f.obj) /\ f.at \in Nat
    BY <1>1, <1>2, <1>3, InLoopIs
  <1>5. ~Owns(f, f.at)
    BY <1>4 DEF Owns, Stores
  <1>6. CASE f.type \in Scalars
    <2>1. Scalar(f.type, f.obj[f.at])
      BY <1>3, <1>6 DEF Element
    <2>2. PICK v, k : v = val' /\ k = heap'
      OBVIOUS
    <2>3. frames' = frames /\ k = heap /\ ret' = "true"
      BY <1>2, <2>1, <2>2, ScalarIs
    <2>4. CanStore(f, v) /\ ~Opens(f, f.at)
      BY <1>4, <1>6 DEF CanStore, IsFrame, Opens, Lists
    <2>5. CanStore(frames[Len(frames)], v)
      BY <1>4, <2>4
    <2>6. FreeAll(frames, "true", v, k, main)
      BY <1>2, <1>4, <1>5, <2>3, <2>4, <2>5, FreeGives
    <2> QED
      BY <2>2, <2>3, <2>6 DEF FreeNext
  <1>7. CASE f.type \notin Scalars
    <2>1. Call(f.type, f.obj[f.at], frames)
      BY <1>3, <1>7 DEF Element
    <2>2. PICK g, gs, t, o : g = Frame("filter", t, o) /\ Appends(frames, g, gs) /\ t = f.type /\ o = f.obj[f.at]
      BY DEF Appends
    <2>3. frames' = gs /\ ret' = "none" /\ val' = val /\ heap' = heap
      BY <1>1, <2>1, <2>2 DEF Call, Appends
    <2>4. t \in DOMAIN Defs
      BY <1>4, <1>7, <2>2 DEF IsFrame
    <2>5. FreeFrame(f, f.at)
      <3>1. PICK c : c = StackOf(frames, "none", val)[Len(frames)]
        OBVIOUS
      <3> QED
        BY <1>2, <1>4, <3>1, TopIs
    <2>6. PICK x : x = Inner(f, f.at)
      OBVIOUS
    <2>7. Opens(f, f.at) /\ x = Node("filter", t, o)
      BY <1>4, <1>7, <2>2, <2>6 DEF Opens, Inner
    <2>8. g.kind = "filter" /\ g.type = t /\ g.obj = o
      BY <2>2 DEF Frame
    <2>9. Alike(g, x)
      BY <2>7, <2>8, NodeIsAlike
    <2>10. Sound(x)
      <3>1. \A i \in Nat : i >= f.at /\ Opens(f, i) => Sound(Inner(f, i))
        BY <2>5 DEF FreeFrame
      <3>2. f.at >= f.at
        BY <1>4
      <3>3. Sound(Inner(f, f.at))
        BY <1>4, <2>7, <3>1, <3>2
      <3> QED
        BY <2>6, <3>3
    <2>11. Even(g)
      BY <2>9, <2>10, SoundIs DEF Alike
    <2>12. Enters(f, g)
      BY <1>5, <2>6, <2>7, <2>8, <2>9 DEF Enters
    <2>13. PushesTo(frames, g, gs)
      BY <1>4, <2>2, <2>4, <2>11, CallsFilter
    <2>14. Enters(frames[Len(frames)], g)
      BY <1>4, <2>12
    <2>15. FreeAll(gs, "none", val, heap, main)
      BY <1>2, <2>13, <2>14, FreePushes
    <2> QED
      BY <2>3, <2>15 DEF FreeNext
  <1> QED
    BY <1>6, <1>7

-----------------------------------------------------------------------------
(* Every step.                                                             *)

(* No block while an object is encoded.  While one is decoded, the blocks  *)
(* are those of the pieces that the calls hold; while one is freed, those  *)
(* each call has still in front of it: mem_free of xdr_bytes, xdr_string,  *)
(* xdr_array and xdr_reference takes one away, and a filter that fails has *)
(* left none, in the calls around it neither.  At the end none.            *)
CopyInv ==
  /\ main \in DOMAIN Defs
  /\ x_op \in {"encode", "decode", "free", "done"}
  /\ Encoding => heap = {} /\ dst = Zero(main)
  /\ Decoding => DecAll(frames, ret, val, heap, main)
  /\ Freeing => FreeAll(frames, ret, val, heap, main)
  /\ x_op = "done" => heap = {} /\ frames = << >>

(* A call of the filter of the type t on an object o that was cleared, and *)
(* one on an object with blocks that it points to.                         *)
LEMMA FirstCall ==
    ASSUME NEW t \in DOMAIN Defs, NEW o, NEW g, g = Frame("filter", t, o),
           NEW fs, fs = <<g>>, NEW v, Even(g)
    PROVE  /\ InProgress(fs, "none", v, t) /\ fs # << >> /\ Len(fs) = 1 /\ fs[1] = g /\ IsFrame(g)
           /\ StackOf(fs, "none", v) = fs
           /\ g.kind = "filter" /\ g.type = t /\ g.at = 1 /\ g.obj = o
  <1>1. g.kind = "filter" /\ g.type = t /\ g.at = 1 /\ g.obj = o /\ IsCall(g)
    BY DEF Frame, IsCall
  <1>2. fs \in Seq({g}) /\ Len(fs) = 1 /\ fs[1] = g /\ fs # << >>
    OBVIOUS
  <1>3. IsSeq(fs)
    BY <1>2 DEF IsSeq
  <1>4. IsFrame(g)
    BY <1>1 DEF IsFrame, Lists
  <1>5. PICK st : st = StackOf(fs, "none", v)
    OBVIOUS
  <1>6. st = fs
    BY <1>3, <1>5, StackIs
  <1>7. \A j \in 1..1 : j = 1
    OBVIOUS
  <1>8. IsStack(fs, t)
    BY <1>1, <1>2, <1>3, <1>4, <1>7 DEF IsStack
  <1>9. InProgress(fs, "none", v, t)
    BY <1>1, <1>2, <1>3, <1>5, <1>6, <1>7, <1>8 DEF InProgress
  <1> QED
    BY <1>1, <1>2, <1>4, <1>5, <1>6, <1>9

LEMMA FirstDec ==
    ASSUME NEW t \in DOMAIN Defs, NEW v
    PROVE  DecAll(<<Frame("filter", t, Zero(t))>>, "none", v, {}, t)
  <1>1. PICK g, fs, o : o = << >> /\ g = Frame("filter", t, o) /\ fs = <<g>>
    OBVIOUS
  <1>2. Zero(t) = o
    BY <1>1, CopyAssumption DEF Zero
  <1>3. g.kind = "filter" /\ g.obj = << >>
    BY <1>1 DEF Frame
  <1>4. Even(g) /\ IsZero(g)
    BY <1>3, ZeroIsEven DEF IsZero
  <1>5. /\ InProgress(fs, "none", v, t) /\ fs # << >> /\ Len(fs) = 1 /\ fs[1] = g /\ IsFrame(g)
        /\ StackOf(fs, "none", v) = fs /\ g.at = 1
    BY <1>1, <1>4, FirstCall
  <1>6. DecOK(fs, "none", {}, 1)
    BY <1>4, <1>5, DecFirst
  <1>7. DecAll(fs, "none", v, {}, t)
    BY <1>5, <1>6 DEF DecAll
  <1> QED
    BY <1>1, <1>2, <1>7

LEMMA FirstFree ==
    ASSUME NEW t \in DOMAIN Defs, NEW o, NEW h, Whole(Node("filter", t, o), h), NEW v
    PROVE  FreeAll(<<Frame("filter", t, o)>>, "none", v, h, t)
  <1>1. PICK g, fs, x : g = Frame("filter", t, o) /\ fs = <<g>> /\ x = Node("filter", t, o)
    OBVIOUS
  <1>2. g.kind = "filter" /\ g.type = t /\ g.obj = o
    BY <1>1 DEF Frame
  <1>3. Alike(g, x)
    BY <1>1, <1>2, NodeIsAlike
  <1>4. Even(g)
    BY <1>1, <1>3, SoundIs DEF Whole, Alike
  <1>5. /\ InProgress(fs, "none", v, t) /\ fs # << >> /\ Len(fs) = 1 /\ fs[1] = g
        /\ StackOf(fs, "none", v) = fs /\ g.at = 1
    BY <1>1, <1>4, FirstCall
  <1>6. FreeOK(fs, "none", h, 1)
    <2>1. Whole(x, h) /\ Alike(fs[1], x) /\ fs[1].at = 1
      BY <1>1, <1>3, <1>5
    <2> QED
      BY <2>1, FreeFirst
  <1>7. FreeAll(fs, "none", v, h, t)
    BY <1>5, <1>6 DEF FreeAll
  <1> QED
    BY <1>1, <1>7

(* A cleared object owns nothing.                                          *)
LEMMA ZeroIsWhole ==
    ASSUME NEW t \in DOMAIN Defs
    PROVE  Whole(Node("filter", t, Zero(t)), {})
  <1>1. PICK x : x = Node("filter", t, Zero(t))
    OBVIOUS
  <1>2. IsZero(x)
    BY <1>1, CopyAssumption DEF Zero, Node, IsZero
  <1>3. Sound(x) /\ \A p \in Seq(Nat), k \in Nat : ~Points(x, p, k)
    BY <1>2, ZeroIs
  <1>4. \A p \in Seq(Nat) : ~Points(x, p, 0)
    BY <1>3
  <1>5. Whole(x, {})
    BY <1>3, <1>4 DEF Whole
  <1> QED
    BY <1>1, <1>5

LEMMA InitCopyInv == Init => CopyInv
  <1> SUFFICES ASSUME Init PROVE CopyInv
    OBVIOUS
  <1>1. heap = {} /\ ret = "none" /\ val = << >> /\ dst = Zero(main)
    BY DEF Init
  <1>2. CASE x_op = "encode"
    <2>1. main \in DOMAIN Defs
      BY <1>2, CopyAssumption DEF Init
    <2> QED
      BY <1>1, <1>2, <2>1 DEF CopyInv, Encoding, Decoding, Freeing
  <1>3. CASE x_op = "decode"
    <2>1. main \in DOMAIN Defs /\ frames = <<Frame("filter", main, Zero(main))>>
      BY <1>3, CopyAssumption DEF Init
    <2>2. DecAll(frames, ret, val, heap, main)
      BY <1>1, <2>1, FirstDec
    <2> QED
      BY <1>3, <2>1, <2>2 DEF CopyInv, Encoding, Decoding, Freeing
  <1> QED
    BY <1>2, <1>3 DEF Init

(* Encoding allocates nothing.                                             *)
LEMMA EncodeKeeps ==
    ASSUME Encoding, Filter
    PROVE  heap' = heap
  <1>1. ~Decoding /\ ~Freeing
    BY DEF Encoding, Decoding, Freeing
  <1>2. CASE CallAlias
    BY <1>2, ScalarIs DEF CallAlias, Call
  <1>3. CASE CallCounted
    BY <1>1, <1>3 DEF CallCounted, EncodeCounted, Gives, Fails
  <1>4. CASE CallOpaque
    BY <1>1, <1>4 DEF CallOpaque, Fails
  <1>5. CASE CallPointer
    BY <1>1, <1>5 DEF CallPointer, Fails
  <1>6. CASE CallArray
    BY <1>1, <1>6 DEF CallArray, Fails
  <1>7. CASE CallVector
    BY <1>7 DEF CallVector
  <1>8. CASE Element
    BY <1>8, ScalarIs DEF Element, Call
  <1>9. CASE ElementReturns \/ ElementsDone \/ PointerReturns
    BY <1>1, <1>9 DEF ElementReturns, ElementsDone, PointerReturns, Ends
  <1>10. CASE FieldReturns \/ FieldFails \/ FilterEnds
    BY <1>10 DEF FieldReturns, FieldFails, FilterEnds
  <1> QED
    BY <1>2, <1>3, <1>4, <1>5, <1>6, <1>7, <1>8, <1>9, <1>10 DEF Filter

LEMMA FilterKeeps ==
    ASSUME CopyInv, Filter
    PROVE  CopyInv'
  <1>1. x_op' = x_op /\ main' = main /\ dst' = dst
    BY DEF Filter
  <1>2. CASE Encoding
    <2>1. heap' = heap
      BY <1>2, EncodeKeeps
    <2> QED
      BY <1>1, <1>2, <2>1 DEF CopyInv, Encoding, Decoding, Freeing
  <1>3. CASE Decoding
    <2>1. DecNow
      BY <1>3 DEF CopyInv, DecNow
    <2>2. DecNext
      BY <2>1, DecAlias, DecCounted, DecOpaque, DecPointer, DecArray, DecVector, DecElement,
         ElementReturnsNext, ElementsDoneNext, PointerReturnsNext, FieldReturnsNext, FieldFailsNext,
         FilterEndsNext DEF Filter
    <2> QED
      BY <1>1, <1>3, <2>2 DEF CopyInv, DecNext, Encoding, Decoding, Freeing
  <1>4. CASE Freeing
    <2>1. FreeNow
      BY <1>4 DEF CopyInv, FreeNow
    <2>2. FreeNext
      BY <2>1, FreeAlias, FreeCountedNext, FreeOpaque, FreePointerNext, FreeArray, FreeVector, FreeElement,
         ElementReturnsNext, ElementsDoneNext, PointerReturnsNext, FieldReturnsNext, FieldFailsNext,
         FilterEndsNext DEF Filter
    <2> QED
      BY <1>1, <1>4, <2>2 DEF CopyInv, FreeNext, Encoding, Decoding, Freeing
  <1>5. CASE x_op = "done"
    <2>1. frames = << >>
      BY <1>5 DEF CopyInv
    <2> QED
      BY <2>1 DEF Filter, CallAlias, CallCounted, CallOpaque, CallPointer, CallArray, CallVector, Element,
         ElementReturns, ElementsDone, PointerReturns, FieldReturns, FieldFails, FilterEnds,
         Calls, Beginning, Returned, Within, InLoop
  <1> QED
    BY <1>2, <1>3, <1>4, <1>5 DEF CopyInv, Encoding, Decoding, Freeing

LEMMA EncodedKeeps ==
    ASSUME CopyInv, Encoded
    PROVE  CopyInv'
  <1>1. /\ main \in DOMAIN Defs /\ main' = main /\ heap' = {} /\ dst' = dst
        /\ dst = Zero(main) /\ ret' = "none" /\ val' = << >>
        /\ frames' = <<Frame("filter", main, Zero(main))>> /\ x_op' \in {"decode", "free"}
    BY DEF CopyInv, Encoded, Again, Constants
  <1>2. DecAll(frames', ret', val', heap', main')
    BY <1>1, FirstDec
  <1>3. FreeAll(frames', ret', val', heap', main')
    BY <1>1, ZeroIsWhole, FirstFree
  <1> QED
    BY <1>1, <1>2, <1>3 DEF CopyInv, Encoding, Decoding, Freeing

LEMMA DecodedKeeps ==
    ASSUME CopyInv, Decoded
    PROVE  CopyInv'
  <1>1. /\ main \in DOMAIN Defs /\ main' = main /\ heap' = heap
        /\ ret' = "none" /\ frames' = <<Frame("filter", main, val)>> /\ x_op' = "free"
        /\ DecAll(frames, ret, val, heap, main) /\ frames = << >>
    BY DEF CopyInv, Decoded, Again, Constants
  <1>2. Whole(Node("filter", main, val), heap)
    BY <1>1 DEF DecAll
  <1>3. FreeAll(frames', ret', val', heap', main')
    BY <1>1, <1>2, FirstFree
  <1> QED
    BY <1>1, <1>3 DEF CopyInv, Encoding, Decoding, Freeing

LEMMA FreedKeeps ==
    ASSUME CopyInv, Freed
    PROVE  CopyInv'
  <1>1. /\ main \in DOMAIN Defs /\ main' = main /\ heap' = heap /\ frames' = frames /\ x_op' = "done"
        /\ FreeAll(frames, ret, val, heap, main) /\ frames = << >>
    BY DEF CopyInv, Freed, Constants, callVars
  <1>2. heap = {}
    BY <1>1 DEF FreeAll
  <1> QED
    BY <1>1, <1>2 DEF CopyInv, Encoding, Decoding, Freeing

LEMMA NextCopyInv == CopyInv /\ [Next]_vars => CopyInv'
  <1> SUFFICES ASSUME CopyInv, [Next]_vars PROVE CopyInv'
    OBVIOUS
  <1>1. CASE UNCHANGED vars
    BY <1>1 DEF CopyInv, vars, callVars, Encoding, Decoding, Freeing
  <1>2. CASE Finished
    BY <1>1, <1>2 DEF Finished
  <1> QED
    BY <1>1, <1>2, FilterKeeps, EncodedKeeps, DecodedKeeps, FreedKeeps DEF Next

(* The invariant holds of xdr_copy and of xdr_pack's decoding for every    *)
(* .x file, object and buffer, wherever the filter or malloc fails.        *)
THEOREM CopyInvariance == Spec => []CopyInv
  BY InitCopyInv, NextCopyInv, PTL DEF Spec

(* xdr_free (xdr.c:69) releases every block that decoding allocated, also  *)
(* of an object that was decoded half-way, although a filter stops at the  *)
(* first field that fails.                                                 *)
THEOREM FreeReleasesAll == Spec => []NothingLeaked
  <1>1. CopyInv => NothingLeaked
    BY DEF CopyInv, NothingLeaked
  <1> QED
    BY <1>1, CopyInvariance, PTL

(* What xdr_copy and xdr_pack have when the outermost filter returns: each *)
(* block that is left belongs to a pointer of the object, and each pointer *)
(* that is not NULL has its block, so that xdr_free neither misses one nor *)
(* frees what was never allocated.                                         *)
PointersOf(t, o) == { p \in Seq(Nat) : Points(Node("filter", t, o), p, 0) }
DecodedOwnsHeap == Decoding /\ frames = << >> => heap = PointersOf(main, val)

THEOREM HeapStaysObject == Spec => []DecodedOwnsHeap
  <1>1. CopyInv => DecodedOwnsHeap
    <2> SUFFICES ASSUME CopyInv, Decoding, frames = << >> PROVE heap = PointersOf(main, val)
      BY DEF DecodedOwnsHeap
    <2>1. Whole(Node("filter", main, val), heap)
      BY DEF CopyInv, DecAll
    <2>2. PICK x : x = Node("filter", main, val)
      OBVIOUS
    <2>3. heap \subseteq Seq(Nat) /\ \A p \in Seq(Nat) : p \in heap <=> Points(x, p, 0)
      BY <2>1, <2>2 DEF Whole
    <2>4. heap = { p \in Seq(Nat) : Points(x, p, 0) }
      BY <2>3, Zenon
    <2> QED
      BY <2>2, <2>4 DEF PointersOf
  <1> QED
    BY <1>1, CopyInvariance, PTL

=============================================================================
