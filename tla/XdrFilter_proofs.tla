---------------------------- MODULE XdrFilter_proofs ----------------------------
(***************************************************************************)
(* The labels of the filters rpcgen writes, for every .x file, object and  *)
(* document: they are the fields in progress, whatever fails; and the      *)
(* cursor of a decoding stream is at the element they name.                *)
(***************************************************************************)
EXTENDS XdrFilter, XdrXmlTree_proofs, FiniteSetTheorems, SequenceTheorems, TLAPS

-----------------------------------------------------------------------------
(* Sequences that hold what a set of places does, in order.                *)

Upto(t, i) == { j \in DOMAIN t : j <= i }

\* u has one place more than t, behind its places.
Extends(u, t, n) ==
  /\ DOMAIN t \in SUBSET (1..n - 1) /\ DOMAIN u = DOMAIN t \cup {n}
  /\ \A i \in DOMAIN t : u[i] = t[i]

LEMMA PlacesAreFinite ==
    ASSUME NEW t, NEW n \in Nat, DOMAIN t \in SUBSET (1..n)
    PROVE  /\ IsFiniteSet(DOMAIN t) /\ Cardinality(DOMAIN t) \in Nat
           /\ \A i \in DOMAIN t : Cardinality(Upto(t, i)) \in 1..Cardinality(DOMAIN t)
  <1>1. IsFiniteSet(1..n)
    BY FS_Interval
  <1>2. IsFiniteSet(DOMAIN t) /\ Cardinality(DOMAIN t) \in Nat
    BY <1>1, FS_Subset, FS_CardinalityType
  <1>3. ASSUME NEW i \in DOMAIN t PROVE Cardinality(Upto(t, i)) \in 1..Cardinality(DOMAIN t)
    <2> DEFINE S == Upto(t, i)
    <2>1. S \in SUBSET DOMAIN t /\ i \in S
      BY DEF Upto
    <2> HIDE DEF S
    <2>2. IsFiniteSet(S) /\ Cardinality(S) <= Cardinality(DOMAIN t) /\ Cardinality(S) \in Nat
      BY <1>2, <2>1, FS_Subset, FS_CardinalityType
    <2>3. Cardinality(S) # 0
      BY <2>1, <2>2, FS_EmptySet
    <2> QED
      BY <1>2, <2>2, <2>3 DEF S
  <1> QED
    BY <1>2, <1>3

LEMMA ExtendsIs ==
    ASSUME NEW t, NEW u, NEW n \in Nat \ {0}, Extends(u, t, n)
    PROVE  /\ Cardinality(DOMAIN t) \in Nat
           /\ Cardinality(DOMAIN u) = Cardinality(DOMAIN t) + 1
           /\ Cardinality(Upto(u, n)) = Cardinality(DOMAIN t) + 1
           /\ \A i \in DOMAIN t : /\ Upto(u, i) = Upto(t, i)
                                  /\ Cardinality(Upto(t, i)) \in 1..Cardinality(DOMAIN t)
  <1>1. /\ IsFiniteSet(DOMAIN t) /\ Cardinality(DOMAIN t) \in Nat
        /\ \A i \in DOMAIN t : Cardinality(Upto(t, i)) \in 1..Cardinality(DOMAIN t)
    <2>1. n - 1 \in Nat /\ DOMAIN t \in SUBSET (1..n - 1)
      BY DEF Extends
    <2> QED
      BY <2>1, PlacesAreFinite
  <1>2. n \notin DOMAIN t /\ DOMAIN u = DOMAIN t \cup {n}
    BY DEF Extends
  <1>3. Cardinality(DOMAIN u) = Cardinality(DOMAIN t) + 1
    BY <1>1, <1>2, FS_AddElement
  <1>4. Upto(u, n) = DOMAIN u
    <2>1. \A j \in DOMAIN u : j <= n
      BY DEF Extends
    <2> QED
      BY <2>1 DEF Upto
  <1>5. \A i \in DOMAIN t : Upto(u, i) = Upto(t, i)
    <2>1. \A i \in DOMAIN t : ~(n <= i)
      BY DEF Extends
    <2> QED
      BY <1>2, <2>1 DEF Upto
  <1> QED
    BY <1>1, <1>3, <1>4, <1>5

LEMMA InOrderPush ==
    ASSUME NEW S, NEW s \in Seq(S), NEW t, NEW u, NEW n \in Nat \ {0}, Extends(u, t, n),
           InOrder(s, t), u[n] \in S
    PROVE  InOrder(Append(s, u[n]), u)
  <1> DEFINE c == Cardinality(DOMAIN t)
             a == Append(s, u[n])
  <1>1. /\ c \in Nat /\ Cardinality(DOMAIN u) = c + 1 /\ Cardinality(Upto(u, n)) = c + 1
        /\ \A i \in DOMAIN t : Upto(u, i) = Upto(t, i) /\ Cardinality(Upto(t, i)) \in 1..c
    BY ExtendsIs
  <1>2. Len(s) = c /\ \A i \in DOMAIN t : s[Cardinality(Upto(t, i))] = t[i]
    BY DEF InOrder, Upto
  <1> HIDE DEF c
  <1>3. Len(a) = c + 1 /\ a[c + 1] = u[n] /\ \A k \in 1..c : a[k] = s[k]
    BY <1>1, <1>2
  <1> HIDE DEF a
  <1>4. ASSUME NEW i \in DOMAIN u PROVE a[Cardinality(Upto(u, i))] = u[i]
    <2>1. CASE i = n
      BY <1>1, <1>3, <2>1
    <2>2. CASE i # n
      <3>1. i \in DOMAIN t /\ u[i] = t[i]
        BY <2>2 DEF Extends
      <3> QED
        BY <1>1, <1>2, <1>3, <3>1
    <2> QED
      BY <2>1, <2>2
  <1>5. Len(a) = Cardinality(DOMAIN u)
    BY <1>1, <1>3
  <1> QED
    BY <1>4, <1>5 DEF InOrder, Upto, a

LEMMA InOrderPop ==
    ASSUME NEW S, NEW s \in Seq(S), NEW t, NEW u, NEW n \in Nat \ {0}, Extends(u, t, n),
           InOrder(s, u)
    PROVE  s # << >> /\ Front(s) \in Seq(S) /\ InOrder(Front(s), t)
  <1> DEFINE c == Cardinality(DOMAIN t)
             a == Front(s)
  <1>1. /\ c \in Nat /\ Cardinality(DOMAIN u) = c + 1
        /\ \A i \in DOMAIN t : Upto(u, i) = Upto(t, i) /\ Cardinality(Upto(t, i)) \in 1..c
    BY ExtendsIs
  <1>2. Len(s) = c + 1 /\ \A i \in DOMAIN u : s[Cardinality(Upto(u, i))] = u[i]
    BY <1>1 DEF InOrder, Upto
  <1> HIDE DEF c
  <1>3. a \in Seq(S) /\ Len(a) = c /\ \A k \in 1..c : a[k] = s[k]
    <2>1. a = SubSeq(s, 1, c)
      BY <1>1, <1>2 DEF Front
    <2>2. 1 \in 1..Len(s) + 1 /\ c \in 1 - 1..Len(s) /\ c - 1 + 1 = c
      BY <1>1, <1>2
    <2>3. /\ SubSeq(s, 1, c) \in Seq(S) /\ Len(SubSeq(s, 1, c)) = c - 1 + 1
          /\ \A k \in 1..c - 1 + 1 : SubSeq(s, 1, c)[k] = s[1 + k - 1]
      BY <2>2, SubSeqProperties
    <2>4. \A k \in 1..c : 1 + k - 1 = k
      BY <1>1
    <2> QED
      BY <2>1, <2>2, <2>3, <2>4
  <1> HIDE DEF a
  <1>4. ASSUME NEW i \in DOMAIN t PROVE a[Cardinality(Upto(t, i))] = t[i]
    <2>1. i \in DOMAIN u /\ u[i] = t[i]
      BY DEF Extends
    <2> QED
      BY <1>1, <1>2, <1>3, <2>1
  <1>5. Len(a) = Cardinality(DOMAIN t)
    BY <1>3 DEF c
  <1>6. s # << >>
    BY <1>1, <1>2
  <1> QED
    BY <1>3, <1>4, <1>5, <1>6 DEF InOrder, Upto, a
-----------------------------------------------------------------------------
(* The calls in progress.                                                  *)

FrameFields == {"kind", "type", "at", "count", "pending", "obj", "home"}

(* A filter holds a label while it has called the filter of that field.    *)
IsFrame(f) ==
  /\ DOMAIN f = FrameFields
  /\ f.kind \in {"filter", "pointer", "array", "vector"}
  /\ f.type \in DOMAIN Defs \cup Scalars
  /\ f.kind = "filter" => f.type \in DOMAIN Defs
  /\ f.at \in Nat \ {0} /\ f.pending \in BOOLEAN
  /\ f.pending => f.kind = "filter" /\ f.at <= Len(FieldsOf(f))

(* Calls are made by filters that hold a label, or for a field that has one.*)
Calling(f) == f.kind = "filter" => f.pending

IsStack(fs) ==
  /\ \E S : fs \in Seq(S)
  /\ \A i \in 1..Len(fs) : IsFrame(fs[i])
  /\ \A i \in 1..Len(fs) - 1 : Calling(fs[i])

HoldersOf(fs) == { i \in 1..Len(fs) : fs[i].pending }
LabelOf(f) == FieldsOf(f)[f.at].name
Held(fs) == [i \in HoldersOf(fs) |-> LabelOf(fs[i])]

LEMMA FieldsAre ==
    ASSUME NEW f, IsFrame(f), f.kind = "filter"
    PROVE  FieldsOf(f) \in Seq(Fields)
  <1> DEFINE def == Defs[f.type]
             arm == Arm(def, f.obj[def.tag.name])
  <1>1. IsDefinition(def)
    BY FilterAssumption DEF IsFrame
  <1> HIDE DEF def
  <1>2. CASE def.kind = "struct"
    <2>1. def.fields \in Seq(Fields)
      BY <1>1, <1>2 DEF IsDefinition
    <2>2. FieldsOf(f) = def.fields
      BY <1>2 DEF FieldsOf, def
    <2> QED
      BY <2>1, <2>2
  <1>3. CASE def.kind # "struct"
    <2>1. /\ def.tag \in Fields /\ def.default \in Seq(Seq(Fields))
          /\ \A tag \in DOMAIN def.arms : def.arms[tag] \in Seq(Fields)
      BY <1>1, <1>3 DEF IsDefinition
    <2>2. <<def.tag>> \in Seq(Fields)
      BY <2>1
    <2>3. arm \in Seq(Seq(Fields))
      BY <2>1 DEF Arm
    <2> HIDE DEF arm
    <2>4. FieldsOf(f) = <<def.tag>> \/ (arm # << >> /\ FieldsOf(f) = <<def.tag>> \o arm[1])
      BY <1>3 DEF FieldsOf, def, arm
    <2>5. arm # << >> => arm[1] \in Seq(Fields)
      BY <2>3
    <2>6. CASE arm # << >> /\ FieldsOf(f) = <<def.tag>> \o arm[1]
      <3>1. <<def.tag>> \o arm[1] \in Seq(Fields)
        BY <2>2, <2>5, <2>6, ConcatProperties
      <3> QED
        BY <2>6, <3>1
    <2> QED
      BY <2>2, <2>4, <2>6
  <1> QED
    BY <1>2, <1>3

LEMMA FieldIs ==
    ASSUME NEW f, IsFrame(f), f.kind = "filter", f.at <= Len(FieldsOf(f))
    PROVE  /\ FieldsOf(f)[f.at] \in Fields
           /\ LabelOf(f) \in Names
           /\ FieldsOf(f)[f.at].type \in DOMAIN Defs \cup Scalars
  <1>1. PICK s \in Seq(Fields) : s = FieldsOf(f)
    BY FieldsAre
  <1>2. f.at \in 1..Len(s)
    BY <1>1 DEF IsFrame
  <1>3. s[f.at] \in Fields
    BY <1>2
  <1> QED
    BY <1>1, <1>3 DEF Fields, LabelOf

LEMMA NewFrame ==
    ASSUME NEW kind \in {"filter", "pointer", "array", "vector"}, NEW type \in DOMAIN Defs \cup Scalars,
           kind = "filter" => type \in DOMAIN Defs, NEW of
    PROVE  /\ IsFrame(Frame(kind, type, of)) /\ ~Frame(kind, type, of).pending
           /\ Frame(kind, type, of).kind = kind
  BY DEF IsFrame, Frame, FrameFields

LEMMA HeldPlaces ==
    ASSUME NEW fs, IsStack(fs)
    PROVE  Len(fs) \in Nat /\ DOMAIN Held(fs) = HoldersOf(fs) /\ HoldersOf(fs) \in SUBSET (1..Len(fs))
  <1>1. PICK S : fs \in Seq(S)
    BY DEF IsStack
  <1> QED
    BY <1>1 DEF Held, HoldersOf

LEMMA StackPush ==
    ASSUME NEW fs, IsStack(fs), fs # << >> => Calling(fs[Len(fs)]),
           NEW f, IsFrame(f), ~f.pending
    PROVE  /\ IsStack(Append(fs, f)) /\ Held(Append(fs, f)) = Held(fs)
           /\ Append(fs, f) # << >> /\ Append(fs, f)[Len(Append(fs, f))] = f
  <1> DEFINE gs == Append(fs, f)
  <1>1. PICK S : fs \in Seq(S)
    BY DEF IsStack
  <1>2. fs \in Seq(S \cup {f}) /\ Len(fs) \in Nat
    BY <1>1
  <1>3. /\ gs \in Seq(S \cup {f}) /\ Len(gs) = Len(fs) + 1
        /\ gs[Len(fs) + 1] = f /\ \A i \in 1..Len(fs) : gs[i] = fs[i]
    BY <1>2
  <1> HIDE DEF gs
  <1>4. \A i \in 1..Len(gs) : i = Len(fs) + 1 \/ i \in 1..Len(fs)
    BY <1>2, <1>3
  <1>5. ASSUME NEW i \in 1..Len(gs) - 1 PROVE Calling(gs[i])
    <2>1. i \in 1..Len(fs) /\ (i = Len(fs) => fs # << >>) /\ (i # Len(fs) => i \in 1..Len(fs) - 1)
      BY <1>1, <1>2, <1>3
    <2> QED
      BY <1>3, <2>1 DEF IsStack
  <1>6. IsStack(gs)
    <2>1. \A i \in 1..Len(gs) : IsFrame(gs[i])
      BY <1>3, <1>4 DEF IsStack
    <2> QED
      BY <1>3, <1>5, <2>1 DEF IsStack
  <1>7. HoldersOf(gs) = HoldersOf(fs)
    <2>1. \A i \in 1..Len(fs) : i \in 1..Len(gs)
      BY <1>2, <1>3
    <2> QED
      BY <1>3, <1>4, <2>1 DEF HoldersOf
  <1>8. Held(gs) = Held(fs)
    <2>1. \A i \in HoldersOf(fs) : gs[i] = fs[i]
      BY <1>3 DEF HoldersOf
    <2> QED
      BY <1>7, <2>1 DEF Held
  <1>9. gs # << >> /\ gs[Len(gs)] = f
    BY <1>2, <1>3
  <1> QED
    BY <1>6, <1>8, <1>9 DEF gs

LEMMA StackTop ==
    ASSUME NEW fs, IsStack(fs), fs # << >>
    PROVE  Len(fs) \in Nat \ {0} /\ IsFrame(fs[Len(fs)])
  <1>1. PICK S : fs \in Seq(S)
    BY DEF IsStack
  <1>2. Len(fs) \in Nat \ {0}
    BY <1>1
  <1> QED
    BY <1>2 DEF IsStack

LEMMA StackPop ==
    ASSUME NEW fs, IsStack(fs), fs # << >>
    PROVE  /\ IsStack(Front(fs))
           /\ Front(fs) # << >> => Calling(Front(fs)[Len(Front(fs))])
           /\ ~fs[Len(fs)].pending => Held(Front(fs)) = Held(fs)
           /\ fs[Len(fs)].pending => Extends(Held(fs), Held(Front(fs)), Len(fs))
  <1> DEFINE gs == Front(fs)
             n == Len(fs)
  <1>1. PICK S : fs \in Seq(S)
    BY DEF IsStack
  <1>2. n \in Nat \ {0}
    BY <1>1
  <1>3. gs \in Seq(S) /\ Len(gs) = n - 1 /\ \A i \in 1..n - 1 : gs[i] = fs[i]
    <2>1. 1 \in 1..Len(fs) + 1 /\ n - 1 \in 1 - 1..Len(fs) /\ (n - 1) - 1 + 1 = n - 1
      BY <1>2
    <2>2. /\ SubSeq(fs, 1, n - 1) \in Seq(S) /\ Len(SubSeq(fs, 1, n - 1)) = (n - 1) - 1 + 1
          /\ \A k \in 1..(n - 1) - 1 + 1 : SubSeq(fs, 1, n - 1)[k] = fs[1 + k - 1]
      BY <1>1, <2>1, SubSeqProperties
    <2>3. \A k \in 1..n - 1 : 1 + k - 1 = k
      BY <1>2
    <2> QED
      BY <2>1, <2>2, <2>3 DEF Front
  <1> HIDE DEF gs
  <1>4. \A i \in 1..n - 1 : i \in 1..n /\ IsFrame(gs[i]) /\ Calling(gs[i])
    BY <1>2, <1>3 DEF IsStack
  <1>5. IsStack(gs)
    <2>1. \A i \in 1..Len(gs) - 1 : i \in 1..n - 1
      BY <1>2, <1>3
    <2> QED
      BY <1>3, <1>4, <2>1 DEF IsStack
  <1>6. gs # << >> => Calling(gs[Len(gs)])
    <2>1. gs # << >> => Len(gs) \in 1..n - 1
      BY <1>2, <1>3
    <2> QED
      BY <1>4, <2>1
  <1>7. HoldersOf(gs) = HoldersOf(fs) \ {n}
    BY <1>2, <1>3 DEF HoldersOf
  <1>8. \A i \in HoldersOf(gs) : gs[i] = fs[i]
    BY <1>3 DEF HoldersOf
  <1>9. CASE ~fs[n].pending
    <2>1. HoldersOf(gs) = HoldersOf(fs)
      BY <1>7, <1>9 DEF HoldersOf
    <2>2. Held(gs) = Held(fs)
      BY <1>8, <2>1 DEF Held
    <2> QED
      BY <1>5, <1>6, <1>9, <2>2 DEF gs
  <1>10. CASE fs[n].pending
    <2>1. HoldersOf(fs) = HoldersOf(gs) \cup {n} /\ HoldersOf(gs) \in SUBSET (1..n - 1)
      <3>1. n \in HoldersOf(fs)
        BY <1>2, <1>10 DEF HoldersOf
      <3> QED
        BY <1>3, <1>7, <3>1 DEF HoldersOf
    <2>2. \A i \in HoldersOf(gs) : Held(fs)[i] = Held(gs)[i]
      BY <1>8, <2>1 DEF Held
    <2>3. Extends(Held(fs), Held(gs), n)
      BY <2>1, <2>2 DEF Extends, Held
    <2> QED
      BY <1>5, <1>6, <1>10, <2>3 DEF gs
  <1> QED
    BY <1>9, <1>10

LEMMA StackSet ==
    ASSUME NEW fs, IsStack(fs), fs # << >>, NEW f, IsFrame(f)
    PROVE  LET gs == [fs EXCEPT ![Len(fs)] = f]
               old == fs[Len(fs)]
           IN  /\ IsStack(gs) /\ gs # << >> /\ Len(gs) = Len(fs) /\ gs[Len(gs)] = f
               /\ ~old.pending /\ ~f.pending => Held(gs) = Held(fs)
               /\ ~old.pending /\ f.pending => Extends(Held(gs), Held(fs), Len(fs)) /\ Held(gs)[Len(fs)] = LabelOf(f)
               /\ old.pending /\ ~f.pending => Extends(Held(fs), Held(gs), Len(fs))
  <1> DEFINE gs == [fs EXCEPT ![Len(fs)] = f]
             n == Len(fs)
  <1>1. PICK S : fs \in Seq(S)
    BY DEF IsStack
  <1>2. n \in Nat \ {0} /\ fs \in Seq(S \cup {f})
    BY <1>1
  <1>3. gs \in Seq(S \cup {f}) /\ Len(gs) = n /\ gs[n] = f /\ \A i \in 1..n - 1 : gs[i] = fs[i]
    BY <1>2
  <1> HIDE DEF gs
  <1>4. \A i \in 1..n : i = n \/ i \in 1..n - 1
    BY <1>2
  <1>5. IsStack(gs)
    <2>1. \A i \in 1..Len(gs) : IsFrame(gs[i])
      BY <1>2, <1>3, <1>4 DEF IsStack
    <2>2. \A i \in 1..Len(gs) - 1 : Calling(gs[i])
      BY <1>3 DEF IsStack
    <2> QED
      BY <1>3, <2>1, <2>2 DEF IsStack
  <1>6. gs # << >>
    BY <1>2, <1>3
  <1>7. HoldersOf(gs) \ {n} = HoldersOf(fs) \ {n} /\ HoldersOf(fs) \ {n} \in SUBSET (1..n - 1)
    BY <1>2, <1>3, <1>4 DEF HoldersOf
  <1>8. \A i \in HoldersOf(fs) \ {n} : gs[i] = fs[i]
    BY <1>3, <1>7
  <1>9. (n \in HoldersOf(gs) <=> f.pending) /\ (n \in HoldersOf(fs) <=> fs[n].pending)
    BY <1>2, <1>3 DEF HoldersOf
  <1>10. ASSUME ~fs[n].pending, ~f.pending PROVE Held(gs) = Held(fs)
    <2>0. n \notin HoldersOf(gs) /\ n \notin HoldersOf(fs)
      BY <1>9, <1>10
    <2>1. HoldersOf(gs) = HoldersOf(fs)
      BY <1>7, <2>0
    <2>2. \A i \in HoldersOf(fs) : gs[i] = fs[i]
      BY <1>8, <2>0
    <2> QED
      BY <2>1, <2>2 DEF Held
  <1>11. ASSUME ~fs[n].pending, f.pending PROVE Extends(Held(gs), Held(fs), n) /\ Held(gs)[n] = LabelOf(f)
    <2>1. HoldersOf(gs) = HoldersOf(fs) \cup {n} /\ HoldersOf(fs) \in SUBSET (1..n - 1)
      BY <1>7, <1>9, <1>11
    <2>2. \A i \in HoldersOf(fs) : Held(gs)[i] = Held(fs)[i]
      BY <1>8, <1>9, <1>11, <2>1 DEF Held
    <2>3. Held(gs)[n] = LabelOf(f)
      BY <1>3, <2>1 DEF Held
    <2> QED
      BY <2>1, <2>2, <2>3 DEF Extends, Held
  <1>12. ASSUME fs[n].pending, ~f.pending PROVE Extends(Held(fs), Held(gs), n)
    <2>1. HoldersOf(fs) = HoldersOf(gs) \cup {n} /\ HoldersOf(gs) \in SUBSET (1..n - 1)
      BY <1>7, <1>9, <1>12
    <2>2. \A i \in HoldersOf(gs) : Held(fs)[i] = Held(gs)[i]
      BY <1>7, <1>8, <1>9, <1>12, <2>1 DEF Held
    <2> QED
      BY <2>1, <2>2 DEF Extends, Held
  <1> QED
    BY <1>3, <1>5, <1>6, <1>10, <1>11, <1>12 DEF gs
-----------------------------------------------------------------------------
(* The labels of the calls in progress.                                    *)

\* A union has a default arm, so an arm for every discriminant that is read.
EveryArm == \A type \in DOMAIN Defs : Defs[type].kind = "union" => Defs[type].default # << >>

\* What holds between two calls, of the frames, the labels and the result.
Kept(fs, ls, r) ==
  /\ IsStack(fs) /\ ls \in Seq(Names) /\ InOrder(ls, Held(fs))
  /\ r # "none" /\ fs # << >> => Calling(fs[Len(fs)])

LabelInv ==
  /\ Kept(frames, labels, ret)
  /\ main \in DOMAIN Defs
  /\ ~Encoding /\ ~Decoding => frames = << >>
  /\ x_op = "parse" => ret = "none"

\* The same frames and labels, however the call in progress goes on.
LEMMA KeptAs ==
    ASSUME NEW fs, NEW ls, NEW r, Kept(fs, ls, r), NEW gs, IsStack(gs), Held(gs) = Held(fs),
           NEW q, q # "none" /\ gs # << >> => Calling(gs[Len(gs)])
    PROVE  Kept(gs, ls, q)
  BY DEF Kept

LEMMA KeptPushed ==
    ASSUME NEW fs, NEW ls, NEW r, Kept(fs, ls, r), fs # << >>, ~fs[Len(fs)].pending,
           NEW f, IsFrame(f), f.pending
    PROVE  Kept([fs EXCEPT ![Len(fs)] = f], Append(ls, LabelOf(f)), "none")
  <1> DEFINE gs == [fs EXCEPT ![Len(fs)] = f]
             n == Len(fs)
  <1>1. IsStack(fs) /\ ls \in Seq(Names) /\ InOrder(ls, Held(fs))
    BY DEF Kept
  <1>2. n \in Nat \ {0}
    BY <1>1, StackTop
  <1>3. IsStack(gs) /\ Extends(Held(gs), Held(fs), n) /\ Held(gs)[n] = LabelOf(f)
    BY <1>1, StackSet
  <1>4. LabelOf(f) \in Names
    BY FieldIs DEF IsFrame
  <1> HIDE DEF gs, n
  <1>5. InOrder(Append(ls, Held(gs)[n]), Held(gs))
    <2>1. PICK t, u : t = Held(fs) /\ u = Held(gs)
      OBVIOUS
    <2>2. InOrder(Append(ls, u[n]), u)
      BY <1>1, <1>2, <1>3, <1>4, <2>1, InOrderPush
    <2> QED
      BY <2>1, <2>2
  <1>6. Append(ls, LabelOf(f)) \in Seq(Names)
    BY <1>1, <1>4
  <1>7. Kept(gs, Append(ls, LabelOf(f)), "none")
    BY <1>3, <1>5, <1>6 DEF Kept
  <1> QED
    BY <1>7 DEF gs, n

LEMMA KeptPopped ==
    ASSUME NEW fs, NEW ls, NEW r, Kept(fs, ls, r), fs # << >>, NEW gs, IsStack(gs),
           Extends(Held(fs), Held(gs), Len(fs)),
           NEW q, q # "none" /\ gs # << >> => Calling(gs[Len(gs)])
    PROVE  ls # << >> /\ Kept(gs, Front(ls), q)
  <1>1. IsStack(fs) /\ ls \in Seq(Names) /\ InOrder(ls, Held(fs))
    BY DEF Kept
  <1>2. Len(fs) \in Nat \ {0}
    BY <1>1, StackTop
  <1>3. PICK t, u : t = Held(gs) /\ u = Held(fs)
    OBVIOUS
  <1>4. ls # << >> /\ Front(ls) \in Seq(Names) /\ InOrder(Front(ls), t)
    BY <1>1, <1>2, <1>3, InOrderPop
  <1> QED
    BY <1>3, <1>4 DEF Kept

\* A call that is not a filter with a label returns.
LEMMA KeptReturn ==
    ASSUME NEW fs, NEW ls, NEW r, Kept(fs, ls, r), fs # << >>, ~fs[Len(fs)].pending, NEW q
    PROVE  Kept(Front(fs), ls, q)
  <1>1. IsStack(fs)
    BY DEF Kept
  <1>2. /\ IsStack(Front(fs)) /\ Held(Front(fs)) = Held(fs)
        /\ Front(fs) # << >> => Calling(Front(fs)[Len(Front(fs))])
    BY <1>1, StackPop
  <1>3. PICK gs : gs = Front(fs)
    OBVIOUS
  <1>4. Kept(gs, ls, q)
    BY <1>2, <1>3, KeptAs
  <1> QED
    BY <1>3, <1>4

\* A call is made, and what it returns is taken.
LEMMA KeptCall ==
    ASSUME NEW fs, NEW ls, Kept(fs, ls, "none"), fs # << >>, Calling(fs[Len(fs)]),
           NEW type \in DOMAIN Defs \cup Scalars, NEW o, NEW n, NEW written,
           ret = "none", Call(type, o, n, fs, written)
    PROVE  Kept(frames', ls, ret')
  <1>1. CASE type \in Scalars
    <2>1. frames' = fs
      BY <1>1 DEF Call
    <2>2. IsStack(fs)
      BY DEF Kept
    <2>3. PICK r : r = ret'
      OBVIOUS
    <2>4. Kept(fs, ls, r)
      BY <2>2, KeptAs
    <2> QED
      BY <2>1, <2>3, <2>4
  <1>2. CASE type \notin Scalars
    <2> DEFINE f == Frame("filter", type, o)
    <2>1. frames' = Append(fs, f) /\ ret' = "none"
      BY <1>2 DEF Call
    <2>2. IsFrame(f) /\ ~f.pending
      BY <1>2, NewFrame
    <2> HIDE DEF f
    <2>3. IsStack(fs)
      BY DEF Kept
    <2>4. IsStack(Append(fs, f)) /\ Held(Append(fs, f)) = Held(fs)
      BY <2>2, <2>3, StackPush
    <2>5. PICK gs : gs = Append(fs, f)
      OBVIOUS
    <2>6. Kept(gs, ls, "none")
      BY <2>4, <2>5, KeptAs
    <2> QED
      BY <2>1, <2>5, <2>6
  <1> QED
    BY <1>1, <1>2

\* A call in progress begins another, for a pointer or for elements.
LEMMA KeptBegin ==
    ASSUME NEW fs, NEW ls, Kept(fs, ls, "none"), fs # << >>, Calling(fs[Len(fs)]),
           NEW f, IsFrame(f), ~f.pending, f.kind # "filter"
    PROVE  /\ Kept(Append(fs, f), ls, "none") /\ Append(fs, f) # << >>
           /\ Calling(Append(fs, f)[Len(Append(fs, f))])
  <1>1. IsStack(fs)
    BY DEF Kept
  <1>2. PICK gs : gs = Append(fs, f)
    OBVIOUS
  <1>3. IsStack(gs) /\ Held(gs) = Held(fs) /\ gs # << >> /\ gs[Len(gs)] = f
    BY <1>1, <1>2, StackPush
  <1>4. Kept(gs, ls, "none")
    BY <1>3, KeptAs
  <1>5. Calling(f)
    BY DEF Calling
  <1> QED
    BY <1>2, <1>3, <1>4, <1>5
-----------------------------------------------------------------------------
(* What the calls do, by the action.                                       *)

LEMMA TopIs ==
    ASSUME NEW fs, NEW ls, NEW r, Kept(fs, ls, r), fs # << >>
    PROVE  Len(fs) \in Nat \ {0} /\ IsFrame(fs[Len(fs)])
  BY StackTop DEF Kept

LEMMA PushFieldKeeps ==
    ASSUME Kept(frames, labels, ret), PushField
    PROVE  Kept(frames', labels', ret')
  <1>1. PICK fs, ls : fs = frames /\ ls = labels
    OBVIOUS
  <1> DEFINE f == fs[Len(fs)]
             g == [f EXCEPT !.pending = TRUE]
             gs == [fs EXCEPT ![Len(fs)] = g]
  <1>2. /\ fs # << >> /\ f.kind = "filter" /\ ret = "none" /\ ~f.pending
        /\ f.at <= Len(FieldsOf(f))
    BY <1>1 DEF PushField, Beginning, Within, Top, MoreFields
  <1>3. IsFrame(f) /\ Len(fs) \in Nat \ {0}
    BY <1>1, <1>2, TopIs
  <1>4. g.type = f.type /\ g.at = f.at /\ g.obj = f.obj /\ g.kind = f.kind /\ g.pending
    BY <1>3 DEF IsFrame, FrameFields
  <1>5. FieldsOf(g) = FieldsOf(f)
    BY <1>4 DEF FieldsOf
  <1>6. IsFrame(g)
    <2>1. DOMAIN g = FrameFields
      BY <1>3 DEF IsFrame
    <2> HIDE DEF g
    <2> QED
      BY <1>2, <1>3, <1>4, <1>5, <2>1 DEF IsFrame
  <1>7. LabelOf(g) = FieldsOf(f)[f.at].name
    BY <1>4, <1>5 DEF LabelOf
  <1>8. frames' = gs /\ labels' = Append(ls, LabelOf(g)) /\ ret' = "none"
    BY <1>1, <1>2, <1>7 DEF PushField, Push, Field, Top
  <1>9. PICK h : h = g
    OBVIOUS
  <1>10. Kept([fs EXCEPT ![Len(fs)] = h], Append(ls, LabelOf(h)), "none")
    BY <1>1, <1>2, <1>4, <1>6, <1>9, KeptPushed
  <1> QED
    BY <1>8, <1>9, <1>10

\* The filter of a field is called: the field has a type, its label is held.
LEMMA CallsAre ==
    ASSUME Kept(frames, labels, ret), NEW rel, Calls(rel)
    PROVE  /\ Kept(frames, labels, "none") /\ ret = "none" /\ frames # << >>
           /\ Calling(frames[Len(frames)]) /\ Field.type \in DOMAIN Defs \cup Scalars
           /\ Field.rel \in {"alias", "pointer", "array", "vector"}
  <1>1. PICK fs, ls : fs = frames /\ ls = labels
    OBVIOUS
  <1> DEFINE f == fs[Len(fs)]
  <1>2. fs # << >> /\ f.kind = "filter" /\ ret = "none" /\ f.pending
    BY <1>1 DEF Calls, Beginning, Within, Top
  <1>3. IsFrame(f)
    BY <1>1, <1>2, TopIs
  <1>4. f.at <= Len(FieldsOf(f))
    BY <1>2, <1>3 DEF IsFrame
  <1>5. FieldsOf(f)[f.at] \in Fields /\ FieldsOf(f)[f.at].type \in DOMAIN Defs \cup Scalars
    BY <1>2, <1>3, <1>4, FieldIs
  <1>6. FieldsOf(f)[f.at].rel \in {"alias", "pointer", "array", "vector"}
    BY <1>5 DEF Fields
  <1>7. FieldsOf(f)[f.at] = Field
    BY <1>1 DEF Field, Top
  <1> QED
    BY <1>1, <1>2, <1>5, <1>6, <1>7 DEF Calling

LEMMA CallAliasKeeps ==
    ASSUME Kept(frames, labels, ret), CallAlias
    PROVE  Kept(frames', labels', ret')
  <1>1. PICK fs, ls, type, o, n : fs = frames /\ ls = labels /\ type = Field.type /\ o = Part /\ n = current
    OBVIOUS
  <1>2. /\ Kept(fs, ls, "none") /\ ret = "none" /\ fs # << >>
        /\ Calling(fs[Len(fs)]) /\ type \in DOMAIN Defs \cup Scalars
    BY <1>1, CallsAre DEF CallAlias
  <1>3. Call(type, o, n, fs, << >>) /\ labels' = ls
    BY <1>1 DEF CallAlias
  <1>4. Kept(frames', ls, ret')
    BY <1>2, <1>3, KeptCall
  <1> QED
    BY <1>3, <1>4

LEMMA CallPointerKeeps ==
    ASSUME Kept(frames, labels, ret), CallPointer
    PROVE  Kept(frames', labels', ret')
  <1> DEFINE there == IF Encoding THEN Part # << >> ELSE Present(current)
             object == IF Encoding THEN Part[1] ELSE Nothing
  <1>1. PICK fs, ls, type, o, n : fs = frames /\ ls = labels /\ type = Field.type /\ o = object /\ n = current
    OBVIOUS
  <1> HIDE DEF object
  <1>2. /\ Kept(fs, ls, "none") /\ ret = "none" /\ fs # << >>
        /\ Calling(fs[Len(fs)]) /\ type \in DOMAIN Defs \cup Scalars
    BY <1>1, CallsAre DEF CallPointer
  <1>3. labels' = ls
    BY <1>1 DEF CallPointer
  <1>4. CASE there
    <2>1. PICK f : f = Frame("pointer", type, Nothing)
      OBVIOUS
    <2>2. IsFrame(f) /\ ~f.pending /\ f.kind = "pointer"
      BY <1>2, <2>1, NewFrame
    <2>3. PICK gs : gs = Append(fs, f)
      OBVIOUS
    <2>4. Kept(gs, ls, "none") /\ gs # << >> /\ Calling(gs[Len(gs)])
      BY <1>2, <2>2, <2>3, KeptBegin
    <2>5. Call(type, o, n, gs, << >>)
      BY <1>1, <1>4, <2>1, <2>3 DEF CallPointer, object
    <2>6. Kept(frames', ls, ret')
      BY <1>2, <2>4, <2>5, KeptCall
    <2> QED
      BY <1>3, <2>6
  <1>5. CASE ~there
    <2>1. frames' = fs /\ ret' = "true"
      BY <1>1, <1>5 DEF CallPointer
    <2>2. Kept(fs, ls, "true")
      BY <1>2 DEF Kept
    <2> QED
      BY <1>3, <2>1, <2>2
  <1> QED
    BY <1>4, <1>5

\* The innermost call returns, and it is no filter that holds a label.
LEMMA ReturnKeeps ==
    ASSUME Kept(frames, labels, ret), frames # << >>, Top.kind # "filter" \/ ~Top.pending,
           NEW r, NEW v, Return(r, v), labels' = labels
    PROVE  Kept(frames', labels', ret')
  <1>1. PICK fs, ls, q : fs = frames /\ ls = labels /\ q = ret
    OBVIOUS
  <1>2. IsFrame(fs[Len(fs)])
    BY <1>1, TopIs
  <1>3. ~fs[Len(fs)].pending
    BY <1>1, <1>2 DEF IsFrame, Top
  <1>4. Kept(Front(fs), ls, r)
    BY <1>1, <1>3, KeptReturn
  <1>5. frames' = Front(fs) /\ ret' = r /\ labels' = ls
    BY <1>1 DEF Return
  <1> QED
    BY <1>4, <1>5

LEMMA PointerReturnsKeeps ==
    ASSUME Kept(frames, labels, ret), PointerReturns
    PROVE  Kept(frames', labels', ret')
  <1>1. frames # << >> /\ Top.kind = "pointer"
    BY DEF PointerReturns, Returned, Within
  <1>2. PICK r, v : r = (IF Encoding THEN ret ELSE "true") /\ v = <<val>>
    OBVIOUS
  <1>3. Return(r, v) /\ labels' = labels
    BY <1>2 DEF PointerReturns
  <1> QED
    BY <1>1, <1>3, ReturnKeeps

LEMMA CallElementsKeeps ==
    ASSUME Kept(frames, labels, ret), CallElements
    PROVE  Kept(frames', labels', ret')
  <1>1. PICK rel \in {"array", "vector"} : /\ Calls(rel)
       /\ frames' = Append(frames,
            [Frame(rel, Field.type, Part) EXCEPT
               !.home = ArrayHome,
               !.count = IF rel = "vector" THEN Field.len
                         ELSE IF Encoding THEN Len(Part)
                         ELSE Len(Children(node, current))])
    BY DEF CallElements
  <1>2. PICK fs, ls, type, o, home, count : /\ fs = frames /\ ls = labels /\ type = Field.type /\ o = Part
              /\ home = ArrayHome /\ count = IF rel = "vector" THEN Field.len
                         ELSE IF Encoding THEN Len(Part)
                         ELSE Len(Children(node, current))
    OBVIOUS
  <1>3. /\ Kept(fs, ls, "none") /\ ret = "none" /\ fs # << >>
        /\ Calling(fs[Len(fs)]) /\ type \in DOMAIN Defs \cup Scalars
    BY <1>1, <1>2, CallsAre
  <1>4. PICK f : f = Frame(rel, type, o)
    OBVIOUS
  <1>5. IsFrame(f) /\ ~f.pending /\ f.kind = rel
    BY <1>3, <1>4, NewFrame
  <1>6. PICK g : g = [f EXCEPT !.home = home, !.count = count]
    OBVIOUS
  <1>7. DOMAIN g = DOMAIN f /\ g.kind = f.kind /\ g.type = f.type /\ g.at = f.at /\ g.pending = f.pending
    BY <1>5, <1>6 DEF IsFrame, FrameFields
  <1>8. IsFrame(g) /\ ~g.pending /\ g.kind # "filter"
    BY <1>5, <1>7 DEF IsFrame
  <1>9. frames' = Append(fs, g)
    BY <1>1, <1>2, <1>4, <1>6
  <1>10. Kept(Append(fs, g), ls, "none")
    BY <1>3, <1>8, KeptBegin
  <1>11. labels' = ls /\ ret' = "none"
    BY <1>2, <1>3 DEF CallElements
  <1> QED
    BY <1>9, <1>10, <1>11

LEMMA ArrayElementKeeps ==
    ASSUME Kept(frames, labels, ret), ArrayElement
    PROVE  Kept(frames', labels', ret')
  <1> DEFINE element == IF Encoding THEN Null ELSE Children(node, Top.home)[Top.at]
             object == IF Encoding THEN Top.obj[Top.at] ELSE Nothing
             written == IF Encoding THEN <<Layout, Open("elt")>> ELSE << >>
  <1>1. PICK fs, ls, type, o, n, w : /\ fs = frames /\ ls = labels /\ type = Top.type
                                     /\ o = object /\ n = element /\ w = written
    OBVIOUS
  <1>2. fs # << >> /\ fs[Len(fs)].kind = "array" /\ ret = "none" /\ type = fs[Len(fs)].type
    BY <1>1 DEF ArrayElement, Beginning, Within, Top
  <1>3. Call(type, o, n, fs, w) /\ labels' = ls
    BY <1>1 DEF ArrayElement
  <1> HIDE DEF element, object, written
  <1>4. Kept(fs, ls, "none") /\ IsFrame(fs[Len(fs)])
    BY <1>1, <1>2, TopIs
  <1>5. Calling(fs[Len(fs)]) /\ type \in DOMAIN Defs \cup Scalars
    BY <1>2, <1>4 DEF Calling, IsFrame
  <1>6. Kept(frames', ls, ret')
    BY <1>2, <1>3, <1>4, <1>5, KeptCall
  <1> QED
    BY <1>3, <1>6

LEMMA VectorElementKeeps ==
    ASSUME Kept(frames, labels, ret), VectorElement
    PROVE  Kept(frames', labels', ret')
  <1> DEFINE object == IF Encoding THEN Top.obj[Top.at] ELSE Nothing
  <1>1. PICK fs, ls, type, o, n : /\ fs = frames /\ ls = labels /\ type = Top.type
                                  /\ o = object /\ n = current
    OBVIOUS
  <1>2. fs # << >> /\ fs[Len(fs)].kind = "vector" /\ ret = "none" /\ type = fs[Len(fs)].type
    BY <1>1 DEF VectorElement, Beginning, Within, Top
  <1>3. Call(type, o, n, fs, << >>) /\ labels' = ls
    BY <1>1 DEF VectorElement
  <1> HIDE DEF object
  <1>4. Kept(fs, ls, "none") /\ IsFrame(fs[Len(fs)])
    BY <1>1, <1>2, TopIs
  <1>5. Calling(fs[Len(fs)]) /\ type \in DOMAIN Defs \cup Scalars
    BY <1>2, <1>4 DEF Calling, IsFrame
  <1>6. Kept(frames', ls, ret')
    BY <1>2, <1>3, <1>4, <1>5, KeptCall
  <1> QED
    BY <1>3, <1>6

LEMMA AnotherKeeps ==
    ASSUME Kept(frames, labels, ret), frames # << >>, Top.kind # "filter",
           Another, labels' = labels
    PROVE  Kept(frames', labels', ret')
  <1>1. PICK fs, ls, o : fs = frames /\ ls = labels /\ o = IF Encoding THEN Top.obj ELSE Append(Top.obj, val)
    OBVIOUS
  <1> DEFINE f == fs[Len(fs)]
  <1>2. IsFrame(f) /\ Len(fs) \in Nat \ {0} /\ IsStack(fs) /\ f.kind # "filter"
    BY <1>1, TopIs DEF Kept, Top
  <1>3. PICK g : g = [f EXCEPT !.at = f.at + 1, !.obj = o]
    OBVIOUS
  <1>4. DOMAIN g = DOMAIN f /\ g.kind = f.kind /\ g.type = f.type /\ g.at = f.at + 1 /\ g.pending = f.pending
    BY <1>2, <1>3 DEF IsFrame, FrameFields
  <1>5. IsFrame(g) /\ ~f.pending /\ ~g.pending
    BY <1>2, <1>4 DEF IsFrame
  <1>6. PICK gs : gs = [fs EXCEPT ![Len(fs)] = g]
    OBVIOUS
  <1>7. IsStack(gs) /\ Held(gs) = Held(fs)
    BY <1>1, <1>2, <1>5, <1>6, StackSet
  <1>8. frames' = gs
    BY <1>1, <1>2, <1>3, <1>6 DEF Another, Top, IsFrame, FrameFields, IsStack
  <1>9. Kept(gs, ls, "none")
    BY <1>1, <1>7, KeptAs
  <1>10. ret' = "none" /\ labels' = ls
    BY <1>1 DEF Another
  <1> QED
    BY <1>8, <1>9, <1>10

LEMMA ArrayElementReturnsKeeps ==
    ASSUME Kept(frames, labels, ret), ArrayElementReturns
    PROVE  Kept(frames', labels', ret')
  <1>1. frames # << >> /\ Top.kind # "filter" /\ Another /\ labels' = labels
    BY DEF ArrayElementReturns, Returned, Within
  <1> QED
    BY <1>1, AnotherKeeps

LEMMA VectorElementReturnsKeeps ==
    ASSUME Kept(frames, labels, ret), VectorElementReturns
    PROVE  Kept(frames', labels', ret')
  <1>1. frames # << >> /\ Top.kind # "filter" /\ labels' = labels
    BY DEF VectorElementReturns, Returned, Within
  <1>2. PICK v : v = Top.obj
    OBVIOUS
  <1>3. Another \/ Return("false", v)
    BY <1>2 DEF VectorElementReturns
  <1> QED
    BY <1>1, <1>3, AnotherKeeps, ReturnKeeps

LEMMA ElementsDoneKeeps ==
    ASSUME Kept(frames, labels, ret), ElementsDone
    PROVE  Kept(frames', labels', ret')
  <1>1. PICK v : v = Top.obj
    OBVIOUS
  <1>2. frames # << >> /\ Top.kind # "filter" /\ labels' = labels /\ Return("true", v)
    BY <1>1 DEF ElementsDone, Beginning, Within
  <1> QED
    BY <1>2, ReturnKeeps

LEMMA FieldReturnsKeeps ==
    ASSUME Kept(frames, labels, ret), FieldReturns
    PROVE  Kept(frames', labels', ret')
  <1>1. PICK fs, ls, r, o : /\ fs = frames /\ ls = labels /\ r = ret
                            /\ o = IF Encoding THEN Top.obj ELSE (Field.name :> val) @@ Top.obj
    OBVIOUS
  <1> DEFINE f == fs[Len(fs)]
  <1>2. fs # << >> /\ f.kind = "filter" /\ r = "true"
    BY <1>1 DEF FieldReturns, Returned, Within, Top
  <1>3. IsFrame(f) /\ Len(fs) \in Nat \ {0} /\ IsStack(fs) /\ f.pending
    BY <1>1, <1>2, TopIs DEF Kept, Calling
  <1>4. PICK g : g = [f EXCEPT !.at = f.at + 1, !.pending = FALSE, !.obj = o]
    OBVIOUS
  <1>5. DOMAIN g = DOMAIN f /\ g.kind = f.kind /\ g.type = f.type /\ g.at = f.at + 1 /\ ~g.pending
    BY <1>3, <1>4 DEF IsFrame, FrameFields
  <1>6. g.pending \in BOOLEAN
    BY <1>3, <1>4 DEF IsFrame, FrameFields
  <1>7. IsFrame(g)
    BY <1>3, <1>5, <1>6 DEF IsFrame
  <1>8. PICK gs : gs = [fs EXCEPT ![Len(fs)] = g]
    OBVIOUS
  <1>9. IsStack(gs) /\ Extends(Held(fs), Held(gs), Len(fs))
    BY <1>1, <1>2, <1>3, <1>5, <1>7, <1>8, StackSet
  <1>10. frames' = gs
    BY <1>1, <1>3, <1>4, <1>8, SMTT(30) DEF FieldReturns, Top, IsFrame, FrameFields, IsStack
  <1>11. ls # << >> /\ Kept(gs, Front(ls), "none")
    BY <1>1, <1>2, <1>9, KeptPopped
  <1>12. ret' = "none" /\ labels' = Front(ls)
    BY <1>1, <1>11 DEF FieldReturns, Pop
  <1> QED
    BY <1>10, <1>11, <1>12

LEMMA FieldFailsKeeps ==
    ASSUME Kept(frames, labels, ret), FieldFails
    PROVE  Kept(frames', labels', ret')
  <1>1. PICK fs, ls, r : fs = frames /\ ls = labels /\ r = ret
    OBVIOUS
  <1>2. fs # << >> /\ fs[Len(fs)].kind = "filter" /\ r = "false"
    BY <1>1 DEF FieldFails, Returned, Within, Top
  <1>3. IsStack(fs) /\ fs[Len(fs)].pending
    BY <1>1, <1>2 DEF Kept, Calling
  <1>4. PICK gs : gs = Front(fs)
    OBVIOUS
  <1>5. IsStack(gs) /\ (gs # << >> => Calling(gs[Len(gs)])) /\ Extends(Held(fs), Held(gs), Len(fs))
    BY <1>2, <1>3, <1>4, StackPop
  <1>6. ls # << >> /\ Kept(gs, Front(ls), "false")
    BY <1>1, <1>2, <1>5, KeptPopped
  <1>7. frames' = gs /\ ret' = "false" /\ labels' = Front(ls)
    BY <1>1, <1>4, <1>6 DEF FieldFails, Trailer, Pop, Return
  <1> QED
    BY <1>6, <1>7

\* A filter that ends succeeds, when every union has a default arm.
LEMMA FilterSucceeds ==
    ASSUME EveryArm, Kept(frames, labels, ret), FilterEnds
    PROVE  /\ frames # << >> /\ Top.kind = "filter" /\ ~Top.pending /\ Done(Top)
           /\ \E v : Return("true", v)
           /\ UNCHANGED <<treeVars, labels, out>>
  <1>1. PICK fs, f : fs = frames /\ f = Top
    OBVIOUS
  <1>2. fs # << >> /\ f.kind = "filter" /\ ~f.pending /\ f = fs[Len(fs)]
    BY <1>1 DEF FilterEnds, Beginning, Within, Top
  <1>3. IsFrame(f)
    BY <1>1, <1>2, TopIs
  <1>4. f.type \in DOMAIN Defs /\ IsDefinition(Defs[f.type])
    BY <1>2, <1>3, FilterAssumption DEF IsFrame
  <1>5. Done(f)
    BY <1>4 DEF Done, EveryArm, Arm, IsDefinition
  <1>6. PICK v : v = Top.obj
    OBVIOUS
  <1>7. Return("true", v) /\ UNCHANGED <<treeVars, labels, out>>
    BY <1>1, <1>5, <1>6 DEF FilterEnds
  <1> QED
    BY <1>1, <1>2, <1>5, <1>7

LEMMA FilterEndsKeeps ==
    ASSUME EveryArm, Kept(frames, labels, ret), FilterEnds
    PROVE  Kept(frames', labels', ret')
  BY FilterSucceeds, ReturnKeeps
-----------------------------------------------------------------------------
(* Every step.                                                             *)

\* No call is in progress and no label is held before a filter is called.
LEMMA NoneKept ==
    ASSUME NEW ls, NEW r, Kept(<< >>, ls, r)
    PROVE  ls = << >>
  <1>1. DOMAIN Held(<< >>) = {}
    BY DEF Held, HoldersOf
  <1>2. ls \in Seq(Names) /\ Len(ls) = 0
    BY <1>1, FS_EmptySet DEF Kept, InOrder
  <1> QED
    BY <1>2

LEMMA FirstKept ==
    ASSUME NEW type \in DOMAIN Defs, NEW o
    PROVE  /\ Kept(<< >>, << >>, "none")
           /\ Kept(<<Frame("filter", type, o)>>, << >>, "none")
  <1>1. IsStack(<< >>)
    <2>1. << >> \in Seq({})
      OBVIOUS
    <2> QED
      BY <2>1 DEF IsStack
  <1>2. Kept(<< >>, << >>, "none")
    <2>1. DOMAIN Held(<< >>) = {}
      BY DEF Held, HoldersOf
    <2>2. InOrder(<< >>, Held(<< >>))
      BY <2>1, FS_EmptySet DEF InOrder
    <2> QED
      BY <1>1, <2>2 DEF Kept
  <1>3. PICK f : f = Frame("filter", type, o)
    OBVIOUS
  <1>4. IsFrame(f) /\ ~f.pending
    BY <1>3, NewFrame
  <1>5. PICK gs : gs = Append(<< >>, f)
    OBVIOUS
  <1>6. IsStack(gs) /\ Held(gs) = Held(<< >>)
    BY <1>1, <1>4, <1>5, StackPush
  <1>7. Kept(gs, << >>, "none")
    BY <1>2, <1>6, KeptAs
  <1>8. Append(<< >>, f) = <<f>>
    OBVIOUS
  <1> QED
    BY <1>2, <1>3, <1>5, <1>7, <1>8

LEMMA FilterKeeps ==
    ASSUME EveryArm, Kept(frames, labels, ret), Filter
    PROVE  Kept(frames', labels', ret')
  <1>1. CASE PushField
    BY <1>1, PushFieldKeeps
  <1>2. CASE CallAlias
    BY <1>2, CallAliasKeeps
  <1>3. CASE CallPointer
    BY <1>3, CallPointerKeeps
  <1>4. CASE PointerReturns
    BY <1>4, PointerReturnsKeeps
  <1>5. CASE CallElements
    BY <1>5, CallElementsKeeps
  <1>6. CASE ArrayElement
    BY <1>6, ArrayElementKeeps
  <1>7. CASE ArrayElementReturns
    BY <1>7, ArrayElementReturnsKeeps
  <1>8. CASE VectorElement
    BY <1>8, VectorElementKeeps
  <1>9. CASE VectorElementReturns
    BY <1>9, VectorElementReturnsKeeps
  <1>10. CASE ElementsDone
    BY <1>10, ElementsDoneKeeps
  <1>11. CASE FieldReturns
    BY <1>11, FieldReturnsKeeps
  <1>12. CASE FieldFails
    BY <1>12, FieldFailsKeeps
  <1>13. CASE FilterEnds
    BY <1>13, FilterEndsKeeps
  <1> QED
    BY <1>1, <1>2, <1>3, <1>4, <1>5, <1>6, <1>7, <1>8, <1>9, <1>10, <1>11, <1>12, <1>13 DEF Filter

\* A filter is only at work while the stream encodes or decodes.
LEMMA FilterIsAtWork ==
    ASSUME Filter
    PROVE  frames # << >> /\ UNCHANGED <<x_op, main>>
  BY DEF Filter, PushField, CallAlias, CallPointer, PointerReturns, CallElements,
         ArrayElement, ArrayElementReturns, VectorElement, VectorElementReturns, ElementsDone,
         FieldReturns, FieldFails, FilterEnds, Calls, Beginning, Returned, Within

LEMMA LabelInit == Init => LabelInv
  <1> SUFFICES ASSUME Init PROVE LabelInv
    OBVIOUS
  <1>1. main \in DOMAIN Defs
    BY FilterAssumption DEF Init
  <1>2. PICK type, o : type = main /\ o = obj
    OBVIOUS
  <1>3. /\ labels = << >> /\ ret = "none"
        /\ \/ x_op = "encode" /\ frames = <<Frame("filter", type, o)>>
           \/ x_op = "parse" /\ frames = << >>
    BY <1>2 DEF Init
  <1>4. Kept(frames, labels, ret)
    BY <1>1, <1>2, <1>3, FirstKept
  <1> QED
    BY <1>1, <1>3, <1>4 DEF LabelInv, Encoding, Decoding

LEMMA LabelNext == EveryArm /\ LabelInv /\ [Next]_vars => LabelInv'
  <1> SUFFICES ASSUME EveryArm, LabelInv, [Next]_vars PROVE LabelInv'
    OBVIOUS
  <1> USE DEF LabelInv, Encoding, Decoding
  <1>1. CASE Filter
    <2>1. frames # << >> /\ x_op' = x_op /\ main' = main
      BY <1>1, FilterIsAtWork
    <2>2. Kept(frames', labels', ret')
      BY <1>1, FilterKeeps
    <2>3. x_op \in {"encode", "decode"}
      BY <2>1
    <2> QED
      BY <2>1, <2>2, <2>3
  <1>2. CASE Encoded
    <2>1. /\ frames' = << >> /\ frames = << >> /\ labels' = labels /\ main' = main
          /\ x_op' = "parse" => ret' = "none"
      BY <1>2 DEF Encoded
    <2>2. PICK ls, r, q : ls = labels /\ r = ret /\ q = ret'
      OBVIOUS
    <2>3. Kept(<< >>, ls, r)
      BY <2>1, <2>2
    <2>4. Kept(<< >>, ls, q)
      BY <2>3 DEF Kept
    <2> QED
      BY <2>1, <2>2, <2>4
  <1>3. CASE ParseOwn \/ ParseForeign
    BY <1>3 DEF ParseOwn, ParseForeign, filterVars
  <1>4. CASE Decode
    <2>1. PICK type, ls : type = main /\ ls = labels
      OBVIOUS
    <2>2. /\ x_op = "parse" /\ x_op' = "decode" /\ frames = << >> /\ ret = "none"
          /\ frames' = <<Frame("filter", type, << >>)>> /\ main' = main /\ labels' = ls /\ ret' = ret
      BY <1>4, <2>1 DEF Decode, Nothing
    <2>3. Kept(<< >>, ls, "none")
      BY <2>1, <2>2
    <2>4. ls = << >>
      BY <2>3, NoneKept
    <2>5. Kept(<<Frame("filter", type, << >>)>>, << >>, "none")
      BY <2>1, FirstKept
    <2> QED
      BY <2>2, <2>4, <2>5
  <1>5. CASE Decoded
    BY <1>5 DEF Decoded, filterVars
  <1>6. CASE UNCHANGED vars
    BY <1>6 DEF vars, filterVars
  <1> QED
    BY <1>1, <1>2, <1>3, <1>4, <1>5, <1>6 DEF Next

(***************************************************************************)
(* The inductive invariant of labels and calls (xdr_label.c, rpc_cout.c):  *)
(* a filter that has called another holds the label of that field and the  *)
(* others hold none, x_label has those labels outermost first, and a       *)
(* result is only ever taken by a call that waits for it.                  *)
(***************************************************************************)
THEOREM LabelInvariance == EveryArm /\ Spec => []LabelInv
  <1>1. EveryArm /\ [Next]_vars => EveryArm'
    BY DEF EveryArm
  <1> QED
    BY <1>1, LabelInit, LabelNext, PTL DEF Spec

(***************************************************************************)
(* x_label holds the fields being encoded or decoded, outermost first,     *)
(* whatever fails (xdr_label.c:11, the trailer at rpc_cout.c:197), if      *)
(* every union has a default arm; a union without one breaks it (run       *)
(* filter_union).                                                          *)
(***************************************************************************)
THEOREM LabelsStayFields == EveryArm /\ Spec => []LabelsAreFields
  <1>1. LabelInv => LabelsAreFields
    BY DEF LabelInv, Kept, LabelsAreFields, Holders, Held, HoldersOf, LabelOf
  <1> QED
    BY <1>1, LabelInvariance, PTL
-----------------------------------------------------------------------------
(* The names on the way down to a node, but for the elements of arrays.    *)

PlacesOn(heap, homes, n) ==
  { i \in 2..Len(PathTo(heap, n)) : heap[PathTo(heap, n)[i]].parent \notin homes }

NamesOn(heap, homes, n) ==
  [i \in PlacesOn(heap, homes, n) |-> heap[PathTo(heap, n)[i]].name]

LEMMA NamesOnRoot ==
    ASSUME NEW heap, NEW r, Tree(heap, r), r # Null, NEW homes
    PROVE  PathTo(heap, r) = <<r>> /\ DOMAIN NamesOn(heap, homes, r) = {}
  <1>1. r \in DOMAIN heap /\ heap[r].parent = Null
    BY DEF Tree, Shape, Family
  <1>2. PathTo(heap, r) = Append(PathTo(heap, Null), r) /\ PathTo(heap, Null) = << >>
    BY <1>1, PathIs
  <1>3. PathTo(heap, r) = <<r>>
    BY <1>2
  <1>4. PlacesOn(heap, homes, r) = {}
    BY <1>3 DEF PlacesOn
  <1> QED
    BY <1>3, <1>4 DEF NamesOn

\* The way down to a node goes on from its parent.
LEMMA WayGoesOn ==
    ASSUME NEW heap, NEW r, Tree(heap, r), NEW n \in DOMAIN heap, heap[n].parent \in DOMAIN heap
    PROVE  LET s == PathTo(heap, heap[n].parent)
               t == PathTo(heap, n)
           IN  /\ Len(s) \in Nat \ {0} /\ Len(t) = Len(s) + 1 /\ Len(t) = Below(heap, n)
               /\ t[Len(t)] = n /\ \A i \in 1..Len(s) : t[i] = s[i]
  <1>1. PICK s, t : s = PathTo(heap, heap[n].parent) /\ t = PathTo(heap, n)
    OBVIOUS
  <1>2. s \in Seq(DOMAIN heap) /\ t = Append(s, n)
    BY <1>1, PathIs
  <1>3. Len(s) # 0
    <2>1. Below(heap, heap[n].parent) = Below(heap, heap[heap[n].parent].parent) + 1
          /\ Below(heap, heap[heap[n].parent].parent) \in Nat
      BY Depths DEF Tree, Shape
    <2> QED
      BY <1>1, <2>1 DEF Below
  <1>4. Len(t) = Below(heap, n)
    BY <1>1 DEF Below
  <1>5. Len(s) \in Nat /\ Len(t) = Len(s) + 1 /\ t[Len(t)] = n /\ \A i \in 1..Len(s) : t[i] = s[i]
    BY <1>2
  <1> QED
    BY <1>1, <1>3, <1>4, <1>5

LEMMA NamesOnChild ==
    ASSUME NEW heap, NEW r, Tree(heap, r), NEW n \in DOMAIN heap, heap[n].parent \in DOMAIN heap,
           NEW homes
    PROVE  /\ Below(heap, n) \in Nat \ {0}
           /\ heap[n].parent \notin homes =>
                /\ Extends(NamesOn(heap, homes, n), NamesOn(heap, homes, heap[n].parent), Below(heap, n))
                /\ NamesOn(heap, homes, n)[Below(heap, n)] = heap[n].name
           /\ heap[n].parent \in homes => NamesOn(heap, homes, n) = NamesOn(heap, homes, heap[n].parent)
  <1>1. PICK s, t, p : s = PathTo(heap, heap[n].parent) /\ t = PathTo(heap, n) /\ p = heap[n].parent
    OBVIOUS
  <1>2. /\ Len(s) \in Nat \ {0} /\ Len(t) = Len(s) + 1 /\ Len(t) = Below(heap, n)
        /\ t[Len(t)] = n /\ \A i \in 1..Len(s) : t[i] = s[i]
    BY <1>1, WayGoesOn
  <1>3. PICK S, T : S = PlacesOn(heap, homes, p) /\ T = PlacesOn(heap, homes, n)
    OBVIOUS
  <1>4. S = { i \in 2..Len(s) : heap[s[i]].parent \notin homes }
    BY <1>1, <1>3 DEF PlacesOn
  <1>5. T = { i \in 2..Len(t) : heap[t[i]].parent \notin homes }
    BY <1>1, <1>3 DEF PlacesOn
  <1>6. S \in SUBSET (1..Len(t) - 1) /\ S \in SUBSET (1..Len(s))
    BY <1>2, <1>4
  <1>7. T \ {Len(t)} = S /\ (Len(t) \in T <=> p \notin homes)
    <2>1. Len(t) \in 2..Len(t) /\ \A i \in 2..Len(t) : i = Len(t) \/ i \in 2..Len(s)
      BY <1>2
    <2>2. \A i \in 2..Len(s) : i \in 2..Len(t) /\ i # Len(t) /\ t[i] = s[i]
      BY <1>2
    <2> QED
      BY <1>1, <1>2, <1>4, <1>5, <2>1, <2>2
  <1>8. NamesOn(heap, homes, p) = [i \in S |-> heap[s[i]].name]
    BY <1>1, <1>3 DEF NamesOn
  <1>9. NamesOn(heap, homes, n) = [i \in T |-> heap[t[i]].name]
    BY <1>1, <1>3 DEF NamesOn
  <1>10. \A i \in S : t[i] = s[i]
    BY <1>2, <1>6
  <1>11. ASSUME p \notin homes
         PROVE  /\ Extends(NamesOn(heap, homes, n), NamesOn(heap, homes, p), Len(t))
                /\ NamesOn(heap, homes, n)[Len(t)] = heap[n].name
    <2>1. T = S \cup {Len(t)}
      BY <1>7, <1>11
    <2>2. PICK u, v : u = NamesOn(heap, homes, n) /\ v = NamesOn(heap, homes, p)
      OBVIOUS
    <2>3. /\ DOMAIN u = S \cup {Len(t)} /\ DOMAIN v = S
          /\ u[Len(t)] = heap[n].name /\ \A i \in S : u[i] = v[i]
      BY <1>2, <1>8, <1>9, <1>10, <2>1, <2>2
    <2> QED
      BY <1>6, <2>2, <2>3 DEF Extends
  <1>12. ASSUME p \in homes PROVE NamesOn(heap, homes, n) = NamesOn(heap, homes, p)
    <2>1. T = S
      BY <1>7, <1>12
    <2> QED
      BY <1>8, <1>9, <1>10, <2>1
  <1> QED
    BY <1>1, <1>2, <1>11, <1>12

\* No element on the way to a node is below that node.
LEMMA NamesOnHome ==
    ASSUME NEW heap, NEW r, Tree(heap, r), NEW n \in DOMAIN heap, NEW homes
    PROVE  NamesOn(heap, homes \cup {n}, n) = NamesOn(heap, homes, n)
  <1>1. PICK t : t = PathTo(heap, n)
    OBVIOUS
  <1>2. t \in Seq(DOMAIN heap) /\ Len(t) = Below(heap, n)
    BY <1>1, PathIs DEF Below
  <1>3. ASSUME NEW i \in 2..Len(t) PROVE heap[t[i]].parent # n
    <2>1. t[i] \in DOMAIN heap /\ Below(heap, t[i]) = i
      BY <1>1, <1>2, PathGoesDown
    <2>2. Below(heap, t[i]) = Below(heap, heap[t[i]].parent) + 1 /\ Below(heap, n) \in Nat
      BY <2>1, Depths DEF Pointers
    <2> QED
      BY <1>2, <2>1, <2>2
  <1>4. PlacesOn(heap, homes \cup {n}, n) = PlacesOn(heap, homes, n)
    BY <1>1, <1>3 DEF PlacesOn
  <1> QED
    BY <1>4 DEF NamesOn

\* The names on the way stay when the tree grows.
LEMMA NamesOnStay ==
    ASSUME NEW heap, NEW r, Tree(heap, r), NEW new, NEW q, Tree(new, q),
           SameParents(heap, new), SameNames(heap, new), NEW n \in DOMAIN heap, NEW homes
    PROVE  NamesOn(new, homes, n) = NamesOn(heap, homes, n)
  <1>1. PICK t : t = PathTo(heap, n)
    OBVIOUS
  <1>2. PathTo(new, n) = t
    BY <1>1, PathsStay DEF Pointers
  <1>3. t \in Seq(DOMAIN heap)
    BY <1>1, PathIs
  <1>4. \A i \in 2..Len(t) : new[t[i]].parent = heap[t[i]].parent /\ new[t[i]].name = heap[t[i]].name
    BY <1>3 DEF SameParents, SameNames
  <1>5. PlacesOn(new, homes, n) = PlacesOn(heap, homes, n)
    BY <1>1, <1>2, <1>4 DEF PlacesOn
  <1>6. PlacesOn(heap, homes, n) \in SUBSET (2..Len(t))
    BY <1>1 DEF PlacesOn
  <1> QED
    BY <1>1, <1>2, <1>4, <1>5, <1>6 DEF NamesOn
-----------------------------------------------------------------------------
(* Where the cursor of a decoding stream is: each call that waits for      *)
(* another began at an element and goes on at that one, or at a child.     *)

Leg(heap, f, x, y) ==
  /\ f.kind = "array" => /\ f.home = x /\ f.count = Len(Children(heap, x))
                         /\ y = x \/ heap[y].parent = x
  /\ f.pending => heap[y].parent = x
  /\ f.kind # "array" /\ ~f.pending => y = x

\* n is below the arrays whose elements are being decoded.
BelowArrays(heap, fs, n) ==
  \A j \in 1..Len(fs) : fs[j].kind = "array" => Below(heap, fs[j].home) < Below(heap, n)

Walk(heap, fs, w) ==
  /\ w \in [1..Len(fs) + 1 -> DOMAIN heap]
  /\ \A i \in 1..Len(fs) : Leg(heap, fs[i], w[i], w[i + 1])
  /\ \A i \in 1..Len(fs), j \in 1..Len(fs) :
       j < i /\ fs[j].kind = "array" => Below(heap, fs[j].home) < Below(heap, w[i])

\* The calls in progress lead to n.
LeadTo(heap, fs, n) == \E w : Walk(heap, fs, w) /\ w[Len(fs) + 1] = n

ArrayHomes(fs) == { fs[i].home : i \in { j \in 1..Len(fs) : fs[j].kind = "array" } }

LEMMA LeadToEmpty ==
    ASSUME NEW heap, NEW n \in DOMAIN heap
    PROVE  LeadTo(heap, << >>, n) /\ BelowArrays(heap, << >>, n) /\ ArrayHomes(<< >>) = {}
  <1>1. Walk(heap, << >>, [i \in 1..1 |-> n]) /\ [i \in 1..1 |-> n][1] = n
    BY DEF Walk
  <1>2. Len(<< >>) + 1 = 1
    OBVIOUS
  <1> QED
    BY <1>1, <1>2 DEF LeadTo, BelowArrays, ArrayHomes

\* A stack is the innermost call and the others.
LEMMA StackIs ==
    ASSUME NEW fs, IsStack(fs), fs # << >>, NEW f
    PROVE  /\ Len(fs) \in Nat \ {0} /\ Len(Front(fs)) = Len(fs) - 1
           /\ \A i \in 1..Len(fs) - 1 : Front(fs)[i] = fs[i]
           /\ [fs EXCEPT ![Len(fs)] = f] = Append(Front(fs), f)
           /\ fs = Append(Front(fs), fs[Len(fs)])
           /\ \E S : Front(fs) \in Seq(S)
  <1>1. PICK S : fs \in Seq(S)
    BY DEF IsStack
  <1>2. PICK n, gs : n = Len(fs) /\ gs = Front(fs)
    OBVIOUS
  <1>3. n \in Nat \ {0} /\ DOMAIN fs = 1..n
    BY <1>1, <1>2
  <1>4. gs \in Seq(S) /\ Len(gs) = n - 1 /\ \A i \in 1..n - 1 : gs[i] = fs[i]
    <2>1. 1 \in 1..Len(fs) + 1 /\ n - 1 \in 1 - 1..Len(fs) /\ (n - 1) - 1 + 1 = n - 1
      BY <1>2, <1>3
    <2>2. /\ SubSeq(fs, 1, n - 1) \in Seq(S) /\ Len(SubSeq(fs, 1, n - 1)) = (n - 1) - 1 + 1
          /\ \A k \in 1..(n - 1) - 1 + 1 : SubSeq(fs, 1, n - 1)[k] = fs[1 + k - 1]
      BY <1>1, <2>1, SubSeqProperties
    <2>3. \A k \in 1..n - 1 : 1 + k - 1 = k
      BY <1>3
    <2> QED
      BY <1>2, <2>1, <2>2, <2>3 DEF Front
  <1>5. ASSUME NEW e PROVE [fs EXCEPT ![n] = e] = Append(gs, e)
    <2>1. PICK a, b : a = [fs EXCEPT ![n] = e] /\ b = Append(gs, e)
      OBVIOUS
    <2>2. a \in Seq(S \cup {e}) /\ Len(a) = n /\ a[n] = e /\ \A i \in 1..n - 1 : a[i] = fs[i]
      BY <1>1, <1>3, <2>1
    <2>3. b \in Seq(S \cup {e}) /\ Len(b) = n /\ b[n] = e /\ \A i \in 1..n - 1 : b[i] = fs[i]
      BY <1>3, <1>4, <2>1
    <2>4. \A i \in 1..n : a[i] = b[i]
      <3>1. \A i \in 1..n : i = n \/ i \in 1..n - 1
        BY <1>3
      <3> QED
        BY <2>2, <2>3, <3>1
    <2> QED
      BY <2>1, <2>2, <2>3, <2>4, SeqEqual
  <1>6. [fs EXCEPT ![n] = fs[n]] = fs
    BY <1>1, <1>3
  <1> QED
    BY <1>2, <1>3, <1>4, <1>5, <1>6

LEMMA LeadToAppend ==
    ASSUME NEW heap, NEW gs, \E S : gs \in Seq(S), NEW x, LeadTo(heap, gs, x), BelowArrays(heap, gs, x),
           NEW f, NEW n \in DOMAIN heap, Leg(heap, f, x, n)
    PROVE  LeadTo(heap, Append(gs, f), n)
  <1>1. PICK S : gs \in Seq(S)
    OBVIOUS
  <1>2. PICK w : Walk(heap, gs, w) /\ w[Len(gs) + 1] = x
    BY DEF LeadTo
  <1>3. PICK fs, m : fs = Append(gs, f) /\ m = Len(gs)
    OBVIOUS
  <1>4. m \in Nat /\ Len(fs) = m + 1 /\ fs[m + 1] = f /\ \A i \in 1..m : fs[i] = gs[i]
    <2>1. gs \in Seq(S \cup {f})
      BY <1>1
    <2> QED
      BY <1>3, <2>1
  <1>5. w \in [1..m + 1 -> DOMAIN heap] /\ w[m + 1] = x
    BY <1>2, <1>3 DEF Walk
  <1>6. PICK v : v = [i \in 1..m + 2 |-> IF i = m + 2 THEN n ELSE w[i]]
    OBVIOUS
  <1>7. /\ v \in [1..m + 2 -> DOMAIN heap] /\ v[m + 2] = n
        /\ \A i \in 1..m + 1 : v[i] = w[i]
    BY <1>4, <1>5, <1>6
  <1>8. ASSUME NEW i \in 1..m + 1 PROVE Leg(heap, fs[i], v[i], v[i + 1])
    <2>1. CASE i = m + 1
      <3>1. v[i] = x /\ v[i + 1] = n /\ fs[i] = f
        BY <1>4, <1>5, <1>7, <2>1
      <3> QED
        BY <3>1
    <2>2. CASE i # m + 1
      <3>1. i \in 1..m /\ i + 1 \in 1..m + 1
        BY <1>4, <2>2
      <3>2. Leg(heap, gs[i], w[i], w[i + 1])
        BY <1>2, <1>3, <3>1 DEF Walk
      <3> QED
        BY <1>4, <1>7, <3>1, <3>2
    <2> QED
      BY <2>1, <2>2
  <1>9. ASSUME NEW i \in 1..m + 1, NEW j \in 1..m + 1, j < i, fs[j].kind = "array"
        PROVE  Below(heap, fs[j].home) < Below(heap, v[i])
    <2>1. j \in 1..m /\ fs[j] = gs[j] /\ v[i] = w[i]
      BY <1>4, <1>7, <1>9
    <2>2. CASE i = m + 1
      BY <1>3, <1>5, <1>9, <2>1, <2>2 DEF BelowArrays
    <2>3. CASE i # m + 1
      <3>1. i \in 1..m
        BY <1>4, <2>3
      <3> QED
        BY <1>2, <1>3, <1>9, <2>1, <3>1 DEF Walk
    <2> QED
      BY <2>2, <2>3
  <1>10. Walk(heap, fs, v) /\ v[Len(fs) + 1] = n
    <2>1. Len(fs) + 1 = m + 2 /\ Len(fs) = m + 1
      BY <1>4
    <2> QED
      BY <1>7, <1>8, <1>9, <2>1 DEF Walk
  <1> QED
    BY <1>3, <1>10 DEF LeadTo

LEMMA LeadToTop ==
    ASSUME NEW heap, NEW fs, IsStack(fs), fs # << >>, NEW n, LeadTo(heap, fs, n)
    PROVE  /\ n \in DOMAIN heap
           /\ \E x \in DOMAIN heap : /\ LeadTo(heap, Front(fs), x) /\ BelowArrays(heap, Front(fs), x)
                                     /\ Leg(heap, fs[Len(fs)], x, n)
  <1>1. PICK w : Walk(heap, fs, w) /\ w[Len(fs) + 1] = n
    BY DEF LeadTo
  <1>2. PICK gs, m : gs = Front(fs) /\ m = Len(fs)
    OBVIOUS
  <1>3. m \in Nat \ {0} /\ Len(gs) = m - 1 /\ \A i \in 1..m - 1 : gs[i] = fs[i]
    BY <1>2, StackIs
  <1>4. w \in [1..m + 1 -> DOMAIN heap] /\ w[m + 1] = n
    BY <1>1, <1>2 DEF Walk
  <1>5. PICK x, v : x = w[m] /\ v = [i \in 1..m |-> w[i]]
    OBVIOUS
  <1>6. n \in DOMAIN heap /\ x \in DOMAIN heap /\ v \in [1..m -> DOMAIN heap] /\ v[m] = x
        /\ \A i \in 1..m : v[i] = w[i]
    BY <1>3, <1>4, <1>5
  <1>7. Leg(heap, fs[m], x, n)
    BY <1>1, <1>2, <1>3, <1>4, <1>5 DEF Walk
  <1>8. ASSUME NEW i \in 1..m - 1 PROVE Leg(heap, gs[i], v[i], v[i + 1])
    <2>1. i \in 1..m /\ i + 1 \in 1..m
      BY <1>3
    <2>2. Leg(heap, fs[i], w[i], w[i + 1])
      BY <1>1, <1>2, <2>1 DEF Walk
    <2> QED
      BY <1>3, <1>6, <2>1, <2>2
  <1>9. ASSUME NEW i \in 1..m, NEW j \in 1..m - 1, j < i, gs[j].kind = "array"
        PROVE  Below(heap, gs[j].home) < Below(heap, v[i])
    <2>1. j \in 1..m /\ gs[j] = fs[j] /\ v[i] = w[i]
      BY <1>3, <1>6
    <2> QED
      BY <1>1, <1>2, <1>9, <2>1 DEF Walk
  <1>10. LeadTo(heap, gs, x)
    <2>1. Len(gs) + 1 = m
      BY <1>3
    <2>2. \A i \in 1..m - 1 : i \in 1..m
      BY <1>3
    <2>3. Walk(heap, gs, v)
      BY <1>3, <1>6, <1>8, <1>9, <2>1, <2>2 DEF Walk
    <2> QED
      BY <1>6, <2>1, <2>3 DEF LeadTo
  <1>11. BelowArrays(heap, gs, x)
    <2>1. \A j \in 1..m - 1 : j < m /\ m \in 1..m
      BY <1>3
    <2> QED
      BY <1>3, <1>6, <1>9, <2>1 DEF BelowArrays
  <1> QED
    BY <1>2, <1>6, <1>7, <1>10, <1>11

LEMMA BelowArraysAppend ==
    ASSUME NEW heap, NEW gs, \E S : gs \in Seq(S), NEW x, BelowArrays(heap, gs, x), NEW f, NEW n,
           \/ Below(heap, x) \in Nat /\ Below(heap, n) = Below(heap, x) + 1 /\ (f.kind = "array" => f.home = x)
           \/ n = x /\ f.kind # "array",
           \A j \in 1..Len(gs) : gs[j].kind = "array" => Below(heap, gs[j].home) \in Nat
    PROVE  BelowArrays(heap, Append(gs, f), n)
  <1>1. PICK S : gs \in Seq(S)
    OBVIOUS
  <1>2. PICK fs, m : fs = Append(gs, f) /\ m = Len(gs)
    OBVIOUS
  <1>3. m \in Nat /\ Len(fs) = m + 1 /\ fs[m + 1] = f /\ \A i \in 1..m : fs[i] = gs[i]
    <2>1. gs \in Seq(S \cup {f})
      BY <1>1
    <2> QED
      BY <1>2, <2>1
  <1>4. ASSUME NEW j \in 1..m + 1, fs[j].kind = "array"
        PROVE  Below(heap, fs[j].home) < Below(heap, n)
    <2>1. CASE j = m + 1
      BY <1>3, <1>4, <2>1
    <2>2. CASE j # m + 1
      <3>1. j \in 1..m
        BY <1>3, <2>2
      <3>2. Below(heap, fs[j].home) < Below(heap, x) /\ Below(heap, fs[j].home) \in Nat
        BY <1>2, <1>3, <1>4, <3>1 DEF BelowArrays
      <3> QED
        BY <3>2
    <2> QED
      BY <2>1, <2>2
  <1> QED
    BY <1>2, <1>3, <1>4 DEF BelowArrays

LEMMA ArrayHomesAppend ==
    ASSUME NEW gs, \E S : gs \in Seq(S), NEW f
    PROVE  ArrayHomes(Append(gs, f)) = ArrayHomes(gs) \cup (IF f.kind = "array" THEN {f.home} ELSE {})
  <1>1. PICK S : gs \in Seq(S)
    OBVIOUS
  <1>2. PICK fs, m : fs = Append(gs, f) /\ m = Len(gs)
    OBVIOUS
  <1>3. m \in Nat /\ Len(fs) = m + 1 /\ fs[m + 1] = f /\ \A i \in 1..m : fs[i] = gs[i]
    <2>1. gs \in Seq(S \cup {f})
      BY <1>1
    <2> QED
      BY <1>2, <2>1
  <1>4. /\ \A i \in 1..m + 1 : i = m + 1 \/ i \in 1..m
        /\ \A i \in 1..m : i \in 1..m + 1
        /\ m + 1 \in 1..m + 1
    BY <1>3
  <1>5. { j \in 1..m + 1 : fs[j].kind = "array" }
          = { j \in 1..m : gs[j].kind = "array" } \cup (IF f.kind = "array" THEN {m + 1} ELSE {})
    BY <1>3, <1>4
  <1>6. ArrayHomes(fs) = { fs[i].home : i \in { j \in 1..m + 1 : fs[j].kind = "array" } }
    BY <1>3 DEF ArrayHomes
  <1>7. ArrayHomes(gs) = { fs[i].home : i \in { j \in 1..m : gs[j].kind = "array" } }
    <2>1. ArrayHomes(gs) = { gs[i].home : i \in { j \in 1..m : gs[j].kind = "array" } }
      BY <1>2 DEF ArrayHomes
    <2> QED
      BY <1>3, <2>1
  <1> QED
    BY <1>2, <1>3, <1>5, <1>6, <1>7

LEMMA HomesAreNodes ==
    ASSUME NEW heap, NEW fs, NEW n, LeadTo(heap, fs, n)
    PROVE  ArrayHomes(fs) \in SUBSET DOMAIN heap
           /\ \A j \in 1..Len(fs) : fs[j].kind = "array" => fs[j].home \in DOMAIN heap
  <1>1. PICK w : Walk(heap, fs, w)
    BY DEF LeadTo
  <1>2. \A j \in 1..Len(fs) : fs[j].kind = "array" => fs[j].home \in DOMAIN heap
    BY <1>1 DEF Walk, Leg
  <1> QED
    BY <1>2 DEF ArrayHomes

\* No array is at a node that is below all of them.
LEMMA NoHome ==
    ASSUME NEW heap, NEW fs, NEW n, BelowArrays(heap, fs, n), Below(heap, n) \in Nat
    PROVE  n \notin ArrayHomes(fs)
  BY DEF BelowArrays, ArrayHomes

\* A new label leaves the calls where they are: only the list of children
\* it is pushed to may change, and no array is being decoded from that one.
LEMMA LeadToStay ==
    ASSUME NEW heap, NEW r, Tree(heap, r), NEW new, NEW q, Tree(new, q), SameParents(heap, new),
           NEW fs, NEW n, LeadTo(heap, fs, n), NEW from,
           \A m \in DOMAIN heap : m # from => Children(new, m) = Children(heap, m),
           from \notin ArrayHomes(fs)
    PROVE  /\ LeadTo(new, fs, n)
           /\ \A m \in DOMAIN heap : BelowArrays(heap, fs, m) => BelowArrays(new, fs, m)
  <1>1. PICK w : Walk(heap, fs, w) /\ w[Len(fs) + 1] = n
    BY DEF LeadTo
  <1>2. /\ \A m \in DOMAIN heap : Below(new, m) = Below(heap, m)
        /\ DOMAIN heap \subseteq DOMAIN new /\ \A m \in DOMAIN heap : new[m].parent = heap[m].parent
    BY DepthsStay DEF Pointers, SameParents
  <1>3. \A i \in 1..Len(fs) : w[i] \in DOMAIN heap /\ w[i + 1] \in DOMAIN heap
    BY <1>1 DEF Walk
  <1>4. ASSUME NEW i \in 1..Len(fs), fs[i].kind = "array"
        PROVE  fs[i].home \in DOMAIN heap /\ fs[i].home # from
    BY <1>4, HomesAreNodes DEF ArrayHomes
  <1>5. ASSUME NEW i \in 1..Len(fs) PROVE Leg(new, fs[i], w[i], w[i + 1])
    <2>1. Leg(heap, fs[i], w[i], w[i + 1]) /\ w[i + 1] \in DOMAIN heap
      BY <1>1, <1>3 DEF Walk
    <2> QED
      BY <1>2, <1>4, <2>1 DEF Leg
  <1>6. w \in [1..Len(fs) + 1 -> DOMAIN new]
    BY <1>1, <1>2 DEF Walk
  <1>7. \A i \in 1..Len(fs), j \in 1..Len(fs) :
          j < i /\ fs[j].kind = "array" => Below(new, fs[j].home) < Below(new, w[i])
    BY <1>1, <1>2, <1>3, <1>4 DEF Walk
  <1>8. LeadTo(new, fs, n)
    BY <1>1, <1>5, <1>6, <1>7 DEF LeadTo, Walk
  <1>9. \A m \in DOMAIN heap : BelowArrays(heap, fs, m) => BelowArrays(new, fs, m)
    BY <1>2, <1>4 DEF BelowArrays
  <1> QED
    BY <1>8, <1>9

\* The calls lead to the cursor, and the labels are the names on the way.
Placed(heap, fs, ls, n) ==
  /\ LeadTo(heap, fs, n)
  /\ InOrder(ls, NamesOn(heap, ArrayHomes(fs), n))

\* A call that goes on at the same element.
LEMMA PlacedAppend ==
    ASSUME NEW heap, NEW fs, IsStack(fs), NEW ls, NEW n \in DOMAIN heap, Placed(heap, fs, ls, n),
           BelowArrays(heap, fs, n), NEW f, Leg(heap, f, n, n), f.kind # "array"
    PROVE  Placed(heap, Append(fs, f), ls, n)
  <1>1. \E S : fs \in Seq(S)
    BY DEF IsStack
  <1>2. LeadTo(heap, Append(fs, f), n)
    BY <1>1, LeadToAppend DEF Placed
  <1>3. ArrayHomes(Append(fs, f)) = ArrayHomes(fs)
    BY <1>1, ArrayHomesAppend
  <1> QED
    BY <1>2, <1>3 DEF Placed

LEMMA FilterLeg ==
    ASSUME NEW heap, NEW n, NEW kind, NEW type, NEW of, kind # "array"
    PROVE  Leg(heap, Frame(kind, type, of), n, n) /\ Frame(kind, type, of).kind = kind
  BY DEF Leg, Frame

LEMMA PlacedCall ==
    ASSUME NEW heap, NEW fs, IsStack(fs), NEW ls, NEW n \in DOMAIN heap, Placed(heap, fs, ls, n),
           BelowArrays(heap, fs, n), NEW type, NEW o, NEW m, NEW written, Call(type, o, m, fs, written)
    PROVE  Placed(heap, frames', ls, n)
  <1>1. CASE type \in Scalars
    BY <1>1 DEF Call
  <1>2. CASE type \notin Scalars
    <2>1. PICK f : f = Frame("filter", type, o)
      OBVIOUS
    <2>2. frames' = Append(fs, f)
      BY <1>2, <2>1 DEF Call
    <2>3. Leg(heap, f, n, n) /\ f.kind = "filter"
      BY <2>1, FilterLeg
    <2>4. Placed(heap, Append(fs, f), ls, n)
      BY <2>3, PlacedAppend
    <2> QED
      BY <2>2, <2>4
  <1> QED
    BY <1>1, <1>2

\* The innermost call ends, at the element where it began.
LEMMA PlacedFront ==
    ASSUME NEW heap, NEW fs, IsStack(fs), fs # << >>, NEW ls, NEW n, Placed(heap, fs, ls, n),
           fs[Len(fs)].kind # "array", ~fs[Len(fs)].pending
    PROVE  Placed(heap, Front(fs), ls, n)
  <1>1. PICK gs, f : gs = Front(fs) /\ f = fs[Len(fs)]
    OBVIOUS
  <1>2. fs = Append(gs, f) /\ \E S : gs \in Seq(S)
    BY <1>1, StackIs
  <1>3. ArrayHomes(fs) = ArrayHomes(gs)
    <2>1. ArrayHomes(Append(gs, f)) = ArrayHomes(gs)
      BY <1>1, <1>2, ArrayHomesAppend
    <2> QED
      BY <1>2, <2>1
  <1>4. LeadTo(heap, gs, n)
    BY <1>1, LeadToTop DEF Placed, Leg
  <1> QED
    BY <1>1, <1>3, <1>4 DEF Placed

\* The innermost call goes on: where it leads only depends on its kind,
\* its array and the label it holds.
LEMMA PlacedSet ==
    ASSUME NEW heap, NEW fs, IsStack(fs), fs # << >>, NEW ls, NEW n, Placed(heap, fs, ls, n),
           NEW f, f.kind = fs[Len(fs)].kind, f.pending = fs[Len(fs)].pending,
           f.home = fs[Len(fs)].home, f.count = fs[Len(fs)].count
    PROVE  Placed(heap, [fs EXCEPT ![Len(fs)] = f], ls, n)
  <1>1. PICK gs, g : gs = Front(fs) /\ g = fs[Len(fs)]
    OBVIOUS
  <1>2. fs = Append(gs, g) /\ [fs EXCEPT ![Len(fs)] = f] = Append(gs, f) /\ \E S : gs \in Seq(S)
    BY <1>1, StackIs
  <1>3. ArrayHomes(Append(gs, f)) = ArrayHomes(Append(gs, g))
    <2>1. ArrayHomes(Append(gs, f)) = ArrayHomes(gs) \cup (IF f.kind = "array" THEN {f.home} ELSE {})
      BY <1>2, ArrayHomesAppend
    <2>2. ArrayHomes(Append(gs, g)) = ArrayHomes(gs) \cup (IF g.kind = "array" THEN {g.home} ELSE {})
      BY <1>2, ArrayHomesAppend
    <2> QED
      BY <1>1, <2>1, <2>2
  <1>4. n \in DOMAIN heap
    BY LeadToTop DEF Placed
  <1>5. PICK x \in DOMAIN heap : LeadTo(heap, gs, x) /\ BelowArrays(heap, gs, x) /\ Leg(heap, g, x, n)
    BY <1>1, LeadToTop DEF Placed
  <1>6. Leg(heap, f, x, n)
    BY <1>1, <1>5 DEF Leg
  <1>7. LeadTo(heap, Append(gs, f), n)
    BY <1>2, <1>4, <1>5, <1>6, LeadToAppend
  <1>8. PICK hs : hs = Append(gs, f)
    OBVIOUS
  <1>9. LeadTo(heap, hs, n) /\ ArrayHomes(hs) = ArrayHomes(fs)
    BY <1>2, <1>3, <1>7, <1>8
  <1>10. Placed(heap, hs, ls, n)
    BY <1>9 DEF Placed
  <1> QED
    BY <1>2, <1>8, <1>10

\* A label was popped.
LEMMA PlacedPop ==
    ASSUME NEW heap, NEW r, Tree(heap, r), NEW fs, IsStack(fs), fs # << >>,
           NEW ls \in Seq(Names), NEW n, Placed(heap, fs, ls, n), fs[Len(fs)].pending,
           fs[Len(fs)].kind # "array", NEW f, f.kind # "array", ~f.pending
    PROVE  /\ n \in DOMAIN heap /\ heap[n].parent \in DOMAIN heap
           /\ Placed(heap, Front(fs), Front(ls), heap[n].parent)
           /\ Placed(heap, [fs EXCEPT ![Len(fs)] = f], Front(ls), heap[n].parent)
  <1>1. PICK gs, g : gs = Front(fs) /\ g = fs[Len(fs)]
    OBVIOUS
  <1>2. fs = Append(gs, g) /\ [fs EXCEPT ![Len(fs)] = f] = Append(gs, f) /\ \E S : gs \in Seq(S)
    BY <1>1, StackIs
  <1>3. n \in DOMAIN heap
    BY LeadToTop DEF Placed
  <1>4. PICK x \in DOMAIN heap : LeadTo(heap, gs, x) /\ BelowArrays(heap, gs, x) /\ Leg(heap, g, x, n)
    BY <1>1, LeadToTop DEF Placed
  <1>5. heap[n].parent = x
    BY <1>1, <1>4 DEF Leg
  <1>6. /\ ArrayHomes(Append(gs, f)) = ArrayHomes(gs)
        /\ ArrayHomes(Append(gs, g)) = ArrayHomes(gs)
    <2>1. ArrayHomes(Append(gs, f)) = ArrayHomes(gs) \cup (IF f.kind = "array" THEN {f.home} ELSE {})
      BY <1>2, ArrayHomesAppend
    <2>2. ArrayHomes(Append(gs, g)) = ArrayHomes(gs) \cup (IF g.kind = "array" THEN {g.home} ELSE {})
      BY <1>2, ArrayHomesAppend
    <2> QED
      BY <1>1, <2>1, <2>2
  <1>7. x \notin ArrayHomes(gs)
    BY <1>4, Depths, NoHome DEF Pointers
  <1>8. PICK homes : homes = ArrayHomes(gs)
    OBVIOUS
  <1>9. PICK t, u, d : t = NamesOn(heap, homes, x) /\ u = NamesOn(heap, homes, n) /\ d = Below(heap, n)
    OBVIOUS
  <1>10. d \in Nat \ {0} /\ Extends(u, t, d)
    BY <1>3, <1>4, <1>5, <1>7, <1>8, <1>9, NamesOnChild
  <1>11. InOrder(ls, u)
    BY <1>2, <1>6, <1>8, <1>9 DEF Placed
  <1>12. InOrder(Front(ls), t)
    BY <1>10, <1>11, InOrderPop
  <1>13. Placed(heap, gs, Front(ls), x)
    BY <1>4, <1>8, <1>9, <1>12 DEF Placed
  <1>14. Leg(heap, f, x, x)
    BY DEF Leg
  <1>15. LeadTo(heap, Append(gs, f), x)
    BY <1>2, <1>4, <1>14, LeadToAppend
  <1>16. PICK hs : hs = Append(gs, f)
    OBVIOUS
  <1>17. Placed(heap, hs, Front(ls), x)
    BY <1>6, <1>8, <1>9, <1>12, <1>15, <1>16 DEF Placed
  <1> QED
    BY <1>1, <1>2, <1>3, <1>4, <1>5, <1>13, <1>16, <1>17

\* An element where a call goes on is below every array, when the call is
\* no loop over an array itself.
LEMMA BelowTop ==
    ASSUME NEW heap, NEW r, Tree(heap, r), NEW fs, IsStack(fs), fs # << >>, NEW n, LeadTo(heap, fs, n),
           fs[Len(fs)].kind # "array"
    PROVE  BelowArrays(heap, fs, n)
  <1>1. PICK gs, g : gs = Front(fs) /\ g = fs[Len(fs)]
    OBVIOUS
  <1>2. fs = Append(gs, g) /\ \E S : gs \in Seq(S)
    BY <1>1, StackIs
  <1>3. n \in DOMAIN heap
    BY LeadToTop
  <1>4. PICK x \in DOMAIN heap : LeadTo(heap, gs, x) /\ BelowArrays(heap, gs, x) /\ Leg(heap, g, x, n)
    BY <1>1, LeadToTop
  <1>5. \A j \in 1..Len(gs) : gs[j].kind = "array" => Below(heap, gs[j].home) \in Nat
    BY <1>4, HomesAreNodes, Depths DEF Pointers
  <1>6. Below(heap, x) \in Nat /\ Below(heap, n) = Below(heap, heap[n].parent) + 1
    BY <1>3, Depths DEF Pointers
  <1>7. (heap[n].parent = x) \/ n = x
    BY <1>1, <1>4 DEF Leg
  <1>8. BelowArrays(heap, Append(gs, g), n)
    <2>1. CASE heap[n].parent = x
      <3>1. Below(heap, n) = Below(heap, x) + 1
        BY <1>6, <2>1
      <3> QED
        BY <1>1, <1>2, <1>4, <1>5, <1>6, <3>1, BelowArraysAppend
    <2>2. CASE n = x
      BY <1>1, <1>2, <1>4, <1>5, <2>2, BelowArraysAppend
    <2> QED
      BY <1>7, <2>1, <2>2
  <1> QED
    BY <1>2, <1>8
-----------------------------------------------------------------------------
(* What the calls do to the cursor, by the action.                         *)

Cursor == IF current = Null THEN root ELSE current

CursorInv ==
  /\ Tree(node, root) /\ root # Null /\ current \in Pointers(node)
  /\ Placed(node, frames, labels, Cursor)

LEMMA CursorIs ==
    ASSUME CursorInv
    PROVE  /\ Cursor \in DOMAIN node
           /\ node[Cursor].parent \in DOMAIN node => current = Cursor /\ current # Null
  <1>1. Null \notin DOMAIN node /\ root \in DOMAIN node /\ node[root].parent = Null
    BY NullIsNoNode DEF CursorInv, Tree, Shape, Family
  <1> QED
    BY <1>1 DEF Cursor, CursorInv, Pointers

LEMMA SameCursor ==
    ASSUME CursorInv, UNCHANGED treeVars, Placed(node, frames', labels', Cursor)
    PROVE  CursorInv'
  BY DEF CursorInv, treeVars, Cursor

LEMMA CallAliasPlaces ==
    ASSUME Kept(frames, labels, ret), CursorInv, CallAlias
    PROVE  CursorInv'
  <1>1. PICK fs, ls, type, o, m, n :
          fs = frames /\ ls = labels /\ type = Field.type /\ o = Part /\ m = current /\ n = Cursor
    OBVIOUS
  <1>2. /\ IsStack(fs) /\ fs # << >> /\ fs[Len(fs)].kind # "array"
        /\ Call(type, o, m, fs, << >>) /\ UNCHANGED <<treeVars, labels>>
    BY <1>1 DEF CallAlias, Calls, Beginning, Within, Top, Kept
  <1>3. Tree(node, root) /\ Placed(node, fs, ls, n)
    BY <1>1 DEF CursorInv
  <1>4. n \in DOMAIN node
    BY <1>1, CursorIs
  <1>5. BelowArrays(node, fs, n)
    BY <1>2, <1>3, BelowTop DEF Placed
  <1>6. Placed(node, frames', ls, n)
    BY <1>2, <1>3, <1>4, <1>5, PlacedCall
  <1> QED
    BY <1>1, <1>2, <1>6, SameCursor

LEMMA CallPointerPlaces ==
    ASSUME Kept(frames, labels, ret), CursorInv, CallPointer
    PROVE  CursorInv'
  <1> DEFINE there == IF Encoding THEN Part # << >> ELSE Present(current)
             object == IF Encoding THEN Part[1] ELSE Nothing
  <1>1. PICK fs, ls, type, o, m, n :
          fs = frames /\ ls = labels /\ type = Field.type /\ o = object /\ m = current /\ n = Cursor
    OBVIOUS
  <1> HIDE DEF object
  <1>2. /\ IsStack(fs) /\ fs # << >> /\ fs[Len(fs)].kind # "array" /\ Calling(fs[Len(fs)])
        /\ UNCHANGED <<treeVars, labels>>
    BY <1>1 DEF CallPointer, Calls, Beginning, Within, Top, Kept, Calling
  <1>3. Tree(node, root) /\ Placed(node, fs, ls, n)
    BY <1>1 DEF CursorInv
  <1>4. n \in DOMAIN node
    BY <1>1, CursorIs
  <1>5. CASE there
    <2>1. PICK f : f = Frame("pointer", type, Nothing)
      OBVIOUS
    <2>2. Leg(node, f, n, n) /\ f.kind = "pointer"
      BY <2>1, FilterLeg
    <2>3. PICK gs : gs = Append(fs, f)
      OBVIOUS
    <2>4. BelowArrays(node, fs, n)
      BY <1>2, <1>3, BelowTop DEF Placed
    <2>5. Placed(node, gs, ls, n)
      BY <1>2, <1>3, <1>4, <2>2, <2>3, <2>4, PlacedAppend
    <2>6. Field.type \in DOMAIN Defs \cup Scalars
      BY CallsAre DEF CallPointer
    <2>7. IsFrame(f) /\ ~f.pending
      BY <1>1, <2>1, <2>6, NewFrame
    <2>8. IsStack(gs) /\ gs # << >> /\ gs[Len(gs)] = f
      BY <1>2, <2>3, <2>7, StackPush
    <2>9. BelowArrays(node, gs, n)
      BY <1>3, <2>2, <2>5, <2>8, BelowTop DEF Placed
    <2>10. Call(type, o, m, gs, << >>)
      BY <1>1, <1>5, <2>1, <2>3 DEF CallPointer, object
    <2>11. Placed(node, frames', ls, n)
      BY <1>4, <2>5, <2>8, <2>9, <2>10, PlacedCall
    <2> QED
      BY <1>1, <1>2, <2>11, SameCursor
  <1>6. CASE ~there
    <2>1. frames' = fs
      BY <1>1, <1>6 DEF CallPointer
    <2> QED
      BY <1>1, <1>2, <1>3, <2>1, SameCursor
  <1> QED
    BY <1>5, <1>6

\* A call that is neither an array nor waits for a field returns.
LEMMA ReturnPlaces ==
    ASSUME Kept(frames, labels, ret), CursorInv, frames # << >>, Top.kind # "array",
           Top.kind # "filter" \/ ~Top.pending,
           NEW r, NEW v, Return(r, v), UNCHANGED treeVars, labels' = labels
    PROVE  CursorInv'
  <1>1. PICK fs, ls, n : fs = frames /\ ls = labels /\ n = Cursor
    OBVIOUS
  <1>2. IsStack(fs) /\ fs # << >> /\ Placed(node, fs, ls, n) /\ fs[Len(fs)].kind # "array"
    BY <1>1 DEF Kept, CursorInv, Top
  <1>3. IsFrame(fs[Len(fs)])
    BY <1>2, StackTop
  <1>4. ~fs[Len(fs)].pending
    BY <1>1, <1>3 DEF IsFrame, Top
  <1>5. Placed(node, Front(fs), ls, n)
    BY <1>2, <1>4, PlacedFront
  <1>6. frames' = Front(fs)
    BY <1>1 DEF Return
  <1> QED
    BY <1>1, <1>5, <1>6, SameCursor

LEMMA PointerReturnsPlaces ==
    ASSUME Kept(frames, labels, ret), CursorInv, PointerReturns
    PROVE  CursorInv'
  <1>1. frames # << >> /\ Top.kind = "pointer"
    BY DEF PointerReturns, Returned, Within
  <1>2. PICK r, v : r = (IF Encoding THEN ret ELSE "true") /\ v = <<val>>
    OBVIOUS
  <1>3. Return(r, v) /\ labels' = labels /\ UNCHANGED treeVars
    BY <1>2 DEF PointerReturns
  <1> QED
    BY <1>1, <1>3, ReturnPlaces

\* On to the next element.
LEMMA AnotherFrame ==
    ASSUME Kept(frames, labels, ret), frames # << >>, Another
    PROVE  \E g : /\ g.kind = Top.kind /\ g.pending = Top.pending /\ g.home = Top.home
                  /\ g.count = Top.count /\ frames' = [frames EXCEPT ![Len(frames)] = g]
  <1>1. PICK fs, f, o : fs = frames /\ f = fs[Len(fs)] /\ o = (IF Encoding THEN f.obj ELSE Append(f.obj, val))
    OBVIOUS
  <1>2. DOMAIN f = FrameFields /\ Len(fs) \in DOMAIN fs
    BY <1>1, StackTop DEF IsFrame, IsStack, Kept
  <1>3. PICK g : g = [f EXCEPT !.at = f.at + 1, !.obj = o]
    OBVIOUS
  <1>4. frames' = [fs EXCEPT ![Len(fs)] = g]
    BY <1>1, <1>2, <1>3 DEF Another
  <1>5. g.kind = f.kind /\ g.pending = f.pending /\ g.home = f.home /\ g.count = f.count
    BY <1>2, <1>3 DEF FrameFields
  <1> QED
    BY <1>1, <1>4, <1>5 DEF Top

LEMMA AnotherPlaces ==
    ASSUME Kept(frames, labels, ret), CursorInv, frames # << >>, Another,
           UNCHANGED treeVars, labels' = labels
    PROVE  CursorInv'
  <1>1. PICK fs, ls, n : fs = frames /\ ls = labels /\ n = Cursor
    OBVIOUS
  <1>2. IsStack(fs) /\ fs # << >> /\ Placed(node, fs, ls, n)
    BY <1>1 DEF Kept, CursorInv
  <1>3. PICK f, g : /\ f = fs[Len(fs)] /\ frames' = [fs EXCEPT ![Len(fs)] = g]
                    /\ g.kind = f.kind /\ g.pending = f.pending /\ g.home = f.home /\ g.count = f.count
    BY <1>1, AnotherFrame DEF Top
  <1>4. Placed(node, [fs EXCEPT ![Len(fs)] = g], ls, n)
    BY <1>2, <1>3, PlacedSet
  <1> QED
    BY <1>1, <1>3, <1>4, SameCursor

\* A new label: the cursor goes down to the element of that name.
LEMMA PushFieldPlaces ==
    ASSUME Kept(frames, labels, ret), CursorInv, Decoding, PushField, root' = root
    PROVE  CursorInv'
  <1>1. PICK fs, ls, n, name :
          fs = frames /\ ls = labels /\ n = Cursor /\ name = Field.name
    OBVIOUS
  <1>2. PICK f, g : f = fs[Len(fs)] /\ g = [f EXCEPT !.pending = TRUE]
    OBVIOUS
  <1>3. /\ IsStack(fs) /\ fs # << >> /\ f.kind = "filter" /\ ~f.pending /\ ls \in Seq(Names)
        /\ f.at <= Len(FieldsOf(f))
    BY <1>1, <1>2 DEF PushField, Beginning, Within, Top, MoreFields, Kept
  <1>4. IsFrame(f) /\ Len(fs) \in DOMAIN fs
    BY <1>2, <1>3, StackTop DEF IsStack
  <1>5. name \in Names
    <2>1. LabelOf(f) \in Names
      BY <1>3, <1>4, FieldIs
    <2> QED
      BY <1>1, <1>2, <2>1 DEF LabelOf, Field, Top
  <1>6. g.kind = "filter" /\ g.pending
    BY <1>2, <1>3, <1>4 DEF IsFrame, FrameFields
  <1>7. frames' = [fs EXCEPT ![Len(fs)] = g] /\ labels' = Append(ls, name)
    BY <1>1, <1>2, <1>4 DEF PushField, Push
  <1>8. Tree(node, root) /\ root # Null /\ Placed(node, fs, ls, n) /\ n \in DOMAIN node
    BY <1>1, CursorIs DEF CursorInv
  <1>9. PushTo(n, name)
    BY <1>1, <1>8 DEF PushField, Push, LabelPush, Cursor, Decoding, Encoding
  <1>10. PICK new, c : new = node' /\ c = current'
    OBVIOUS
  <1>11. /\ Tree(new, root) /\ c \in DOMAIN new /\ SameParents(node, new) /\ SameNames(node, new)
         /\ new[c].parent = n /\ new[c].name = name
         /\ \A m \in DOMAIN node : m # n => Children(new, m) = Children(node, m)
    BY <1>8, <1>9, <1>10, PushGoesDown, PushIs
  <1>12. PICK gs : gs = Front(fs)
    OBVIOUS
  <1>13. fs = Append(gs, f) /\ [fs EXCEPT ![Len(fs)] = g] = Append(gs, g) /\ \E S : gs \in Seq(S)
    <2>1. fs = Append(gs, fs[Len(fs)]) /\ \E S : gs \in Seq(S)
      BY <1>3, <1>12, StackIs
    <2>2. [fs EXCEPT ![Len(fs)] = g] = Append(gs, g)
      BY <1>3, <1>12, StackIs
    <2> QED
      BY <1>2, <2>1, <2>2
  <1>14. LeadTo(node, gs, n) /\ BelowArrays(node, gs, n)
    BY <1>2, <1>3, <1>8, <1>12, LeadToTop DEF Placed, Leg
  <1>15. n \notin ArrayHomes(gs)
    BY <1>8, <1>14, NoHome, Depths DEF Pointers
  <1>16. LeadTo(new, gs, n) /\ BelowArrays(new, gs, n)
    BY <1>8, <1>11, <1>14, <1>15, LeadToStay
  <1>17. Leg(new, g, n, c)
    BY <1>6, <1>11 DEF Leg
  <1>18. LeadTo(new, Append(gs, g), c)
    BY <1>11, <1>13, <1>16, <1>17, LeadToAppend
  <1>19. /\ ArrayHomes(Append(gs, f)) = ArrayHomes(gs)
         /\ ArrayHomes(Append(gs, g)) = ArrayHomes(gs)
    <2>1. ArrayHomes(Append(gs, f)) = ArrayHomes(gs) \cup (IF f.kind = "array" THEN {f.home} ELSE {})
      BY <1>13, ArrayHomesAppend
    <2>2. ArrayHomes(Append(gs, g)) = ArrayHomes(gs) \cup (IF g.kind = "array" THEN {g.home} ELSE {})
      BY <1>13, ArrayHomesAppend
    <2> QED
      BY <1>3, <1>6, <2>1, <2>2
  <1>20. PICK homes : homes = ArrayHomes(gs)
    OBVIOUS
  <1>21. PICK t, u, d : t = NamesOn(new, homes, n) /\ u = NamesOn(new, homes, c) /\ d = Below(new, c)
    OBVIOUS
  <1>22. n \in DOMAIN new
    BY <1>8, <1>11 DEF SameParents
  <1>23. d \in Nat \ {0} /\ Extends(u, t, d) /\ u[d] = name
    BY <1>11, <1>15, <1>20, <1>21, <1>22, NamesOnChild
  <1>24. InOrder(ls, t)
    <2>1. NamesOn(new, homes, n) = NamesOn(node, homes, n)
      BY <1>8, <1>11, NamesOnStay
    <2> QED
      BY <1>8, <1>13, <1>19, <1>20, <1>21, <2>1 DEF Placed
  <1>25. InOrder(Append(ls, name), u)
    <2>1. InOrder(Append(ls, u[d]), u)
      BY <1>3, <1>5, <1>23, <1>24, InOrderPush
    <2> QED
      BY <1>23, <2>1
  <1>26. PICK hs : hs = Append(gs, g)
    OBVIOUS
  <1>27. Placed(new, hs, Append(ls, name), c)
    BY <1>18, <1>19, <1>20, <1>21, <1>25, <1>26 DEF Placed
  <1>28. c # Null /\ c \in Pointers(new)
    BY <1>11, NullIsNoNode DEF Tree, Pointers
  <1>29. frames' = hs /\ Cursor' = c
    BY <1>7, <1>10, <1>13, <1>26, <1>28 DEF Cursor
  <1> QED
    BY <1>7, <1>8, <1>10, <1>11, <1>27, <1>28, <1>29 DEF CursorInv

\* A loop over the elements of an array begins at the array.
LEMMA CallElementsPlaces ==
    ASSUME Kept(frames, labels, ret), CursorInv, Decoding, CallElements
    PROVE  CursorInv'
  <1>1. PICK rel \in {"array", "vector"} : /\ Calls(rel)
       /\ frames' = Append(frames,
            [Frame(rel, Field.type, Part) EXCEPT
               !.home = ArrayHome,
               !.count = IF rel = "vector" THEN Field.len
                         ELSE IF Encoding THEN Len(Part)
                         ELSE Len(Children(node, current))])
    BY DEF CallElements
  <1>2. PICK fs, ls, n, type, of, len :
          fs = frames /\ ls = labels /\ n = Cursor /\ type = Field.type /\ of = Part /\ len = Field.len
    OBVIOUS
  <1>3. /\ IsStack(fs) /\ fs # << >> /\ fs[Len(fs)].kind = "filter" /\ fs[Len(fs)].pending
        /\ UNCHANGED <<treeVars, labels>>
    BY <1>1, <1>2 DEF CallElements, Calls, Beginning, Within, Top, Kept
  <1>4. Tree(node, root) /\ Placed(node, fs, ls, n) /\ n \in DOMAIN node
    BY <1>2, CursorIs DEF CursorInv
  <1>5. current = n
    <2>1. PICK x \in DOMAIN node : Leg(node, fs[Len(fs)], x, n)
      BY <1>3, <1>4, LeadToTop DEF Placed
    <2>2. node[n].parent = x
      BY <1>3, <2>1 DEF Leg
    <2> QED
      BY <1>2, <2>1, <2>2, CursorIs
  <1>6. PICK f : f = [Frame(rel, type, of) EXCEPT
                        !.home = n, !.count = IF rel = "vector" THEN len ELSE Len(Children(node, n))]
    OBVIOUS
  <1>7. frames' = Append(fs, f)
    BY <1>1, <1>2, <1>5, <1>6 DEF ArrayHome, Decoding, Encoding
  <1>8. f.kind = rel /\ f.home = n /\ ~f.pending /\ (rel = "array" => f.count = Len(Children(node, n)))
    BY <1>6 DEF Frame
  <1>9. Leg(node, f, n, n)
    BY <1>8 DEF Leg
  <1>10. BelowArrays(node, fs, n)
    BY <1>3, <1>4, BelowTop DEF Placed
  <1>11. \E S : fs \in Seq(S)
    BY <1>3 DEF IsStack
  <1>12. LeadTo(node, Append(fs, f), n)
    BY <1>4, <1>9, <1>10, <1>11, LeadToAppend DEF Placed
  <1>13. PICK homes : homes = ArrayHomes(fs)
    OBVIOUS
  <1>14. ArrayHomes(Append(fs, f)) = homes \cup (IF f.kind = "array" THEN {f.home} ELSE {})
    BY <1>11, <1>13, ArrayHomesAppend
  <1>15. NamesOn(node, homes \cup {n}, n) = NamesOn(node, homes, n)
    BY <1>4, NamesOnHome
  <1>16. NamesOn(node, ArrayHomes(Append(fs, f)), n) = NamesOn(node, homes, n)
    <2>1. ArrayHomes(Append(fs, f)) \in {homes, homes \cup {n}}
      BY <1>8, <1>14
    <2> QED
      BY <1>15, <2>1
  <1>17. PICK hs : hs = Append(fs, f)
    OBVIOUS
  <1>18. Placed(node, hs, ls, n)
    BY <1>4, <1>12, <1>13, <1>16, <1>17 DEF Placed
  <1> QED
    BY <1>2, <1>3, <1>7, <1>17, <1>18, SameCursor

\* The elements of an array are its children.
LEMMA ArrayTop ==
    ASSUME NEW heap, NEW r, Tree(heap, r), NEW fs, IsStack(fs), fs # << >>,
           fs[Len(fs)].kind = "array", NEW n, LeadTo(heap, fs, n)
    PROVE  LET x == fs[Len(fs)].home
           IN  /\ x \in DOMAIN heap /\ x \in ArrayHomes(fs)
               /\ LeadTo(heap, Front(fs), x) /\ BelowArrays(heap, Front(fs), x)
               /\ fs[Len(fs)].count = Len(Children(heap, x))
               /\ n = x \/ heap[n].parent = x
               /\ ArrayHomes(fs) = ArrayHomes(Front(fs)) \cup {x}
  <1>1. PICK gs, f, x : gs = Front(fs) /\ f = fs[Len(fs)] /\ x = f.home
    OBVIOUS
  <1>2. fs = Append(gs, f) /\ \E S : gs \in Seq(S)
    BY <1>1, StackIs
  <1>3. ArrayHomes(Append(gs, f)) = ArrayHomes(gs) \cup {x}
    <2>1. ArrayHomes(Append(gs, f)) = ArrayHomes(gs) \cup (IF f.kind = "array" THEN {f.home} ELSE {})
      BY <1>2, ArrayHomesAppend
    <2> QED
      BY <1>1, <2>1
  <1>4. PICK y \in DOMAIN heap : LeadTo(heap, gs, y) /\ BelowArrays(heap, gs, y) /\ Leg(heap, f, y, n)
    BY <1>1, LeadToTop
  <1>5. y = x /\ f.count = Len(Children(heap, x)) /\ (n = x \/ heap[n].parent = x)
    BY <1>1, <1>4 DEF Leg
  <1> QED
    BY <1>1, <1>2, <1>3, <1>4, <1>5

LEMMA ArrayElementPlaces ==
    ASSUME Kept(frames, labels, ret), CursorInv, Decoding, ArrayElement
    PROVE  CursorInv'
  <1>1. PICK fs, ls, n, f, x, kids, of :
          /\ fs = frames /\ ls = labels /\ n = Cursor /\ f = fs[Len(fs)] /\ x = f.home
          /\ kids = Children(node, x) /\ of = (IF Encoding THEN Top.obj[Top.at] ELSE Nothing)
    OBVIOUS
  <1>2. PICK c : c = kids[f.at]
    OBVIOUS
  <1>3. /\ IsStack(fs) /\ fs # << >> /\ f.kind = "array" /\ f.at <= f.count
    BY <1>1 DEF ArrayElement, Beginning, Within, Top, Kept
  <1>4. /\ current' = c /\ Call(f.type, of, c, fs, << >>)
        /\ UNCHANGED <<node, root, depth, labels>>
    BY <1>1, <1>2 DEF ArrayElement, Top, Decoding, Encoding
  <1>5. Tree(node, root) /\ root # Null /\ Placed(node, fs, ls, n) /\ n \in DOMAIN node
    BY <1>1, CursorIs DEF CursorInv
  <1>6. /\ x \in DOMAIN node /\ x \in ArrayHomes(fs)
        /\ LeadTo(node, Front(fs), x) /\ BelowArrays(node, Front(fs), x)
        /\ f.count = Len(kids)
        /\ n = x \/ node[n].parent = x
    BY <1>1, <1>3, <1>5, ArrayTop DEF Placed
  <1>7. c \in DOMAIN node /\ node[c].parent = x
    <2>1. kids \in Seq(DOMAIN node) /\ Elems(kids) = { m \in DOMAIN node : node[m].parent = x }
      BY <1>1, <1>5, <1>6, ChildrenAre
    <2>2. f.at \in 1..Len(kids)
      <3>1. f.at \in Nat \ {0}
        BY <1>1, <1>3, StackTop DEF IsFrame
      <3> QED
        BY <1>3, <1>6, <2>1, <3>1
    <2>3. c \in Elems(kids)
      BY <1>2, <2>2 DEF Elems
    <2> QED
      BY <2>1, <2>3
  <1>8. PICK gs : gs = Front(fs)
    OBVIOUS
  <1>9. fs = Append(gs, f) /\ \E S : gs \in Seq(S)
    BY <1>1, <1>3, <1>8, StackIs
  <1>10. Leg(node, f, x, c)
    <2>1. ~f.pending
      BY <1>1, <1>3, StackTop DEF IsFrame
    <2> QED
      BY <1>1, <1>3, <1>6, <1>7, <2>1 DEF Leg
  <1>11. LeadTo(node, fs, c)
    BY <1>6, <1>7, <1>8, <1>9, <1>10, LeadToAppend
  <1>12. BelowArrays(node, fs, c)
    <2>1. \A j \in 1..Len(gs) : gs[j].kind = "array" => Below(node, gs[j].home) \in Nat
      BY <1>5, <1>6, <1>8, HomesAreNodes, Depths DEF Pointers
    <2>2. Below(node, x) \in Nat /\ Below(node, c) = Below(node, x) + 1
      BY <1>5, <1>6, <1>7, Depths DEF Pointers
    <2>3. BelowArrays(node, Append(gs, f), c)
      BY <1>1, <1>6, <1>8, <1>9, <2>1, <2>2, BelowArraysAppend
    <2> QED
      BY <1>9, <2>3
  <1>13. PICK homes : homes = ArrayHomes(fs)
    OBVIOUS
  <1>14. NamesOn(node, homes, c) = NamesOn(node, homes, x) /\ NamesOn(node, homes, n) = NamesOn(node, homes, x)
    BY <1>5, <1>6, <1>7, <1>13, NamesOnChild
  <1>15. Placed(node, fs, ls, c)
    BY <1>5, <1>11, <1>13, <1>14 DEF Placed
  <1>16. PICK type : type = f.type
    OBVIOUS
  <1>17. Placed(node, frames', ls, c)
    BY <1>3, <1>4, <1>7, <1>12, <1>15, <1>16, PlacedCall
  <1>18. c # Null /\ c \in Pointers(node)
    BY <1>5, <1>7, NullIsNoNode DEF Tree, Pointers
  <1>19. Cursor' = c
    BY <1>4, <1>18 DEF Cursor
  <1> QED
    BY <1>1, <1>4, <1>5, <1>17, <1>18, <1>19 DEF CursorInv

LEMMA ElementsDonePlaces ==
    ASSUME Kept(frames, labels, ret), CursorInv, ElementsDone
    PROVE  CursorInv'
  <1>1. PICK fs, ls, n, v : fs = frames /\ ls = labels /\ n = Cursor /\ v = Top.obj
    OBVIOUS
  <1>2. /\ IsStack(fs) /\ fs # << >> /\ fs[Len(fs)].kind \in {"array", "vector"}
        /\ Return("true", v) /\ labels' = labels /\ UNCHANGED <<node, root, depth>>
        /\ current' = IF fs[Len(fs)].kind = "array" THEN fs[Len(fs)].home ELSE current
    BY <1>1 DEF ElementsDone, Beginning, Within, Top, Kept, AfterArray
  <1>3. Tree(node, root) /\ root # Null /\ Placed(node, fs, ls, n) /\ n \in DOMAIN node
    BY <1>1, CursorIs DEF CursorInv
  <1>4. CASE fs[Len(fs)].kind = "vector"
    <2>1. frames # << >> /\ Top.kind # "array" /\ Top.kind # "filter" /\ UNCHANGED treeVars
      BY <1>1, <1>2, <1>4 DEF Top, treeVars
    <2> QED
      BY <1>2, <2>1, ReturnPlaces
  <1>5. CASE fs[Len(fs)].kind = "array"
    <2>1. PICK x, gs : x = fs[Len(fs)].home /\ gs = Front(fs)
      OBVIOUS
    <2>2. /\ x \in DOMAIN node /\ x \in ArrayHomes(fs) /\ LeadTo(node, gs, x)
          /\ n = x \/ node[n].parent = x
          /\ ArrayHomes(fs) = ArrayHomes(gs) \cup {x}
      BY <1>2, <1>3, <1>5, <2>1, ArrayTop DEF Placed
    <2>3. PICK homes, inner : homes = ArrayHomes(fs) /\ inner = ArrayHomes(gs)
      OBVIOUS
    <2>4. NamesOn(node, homes, n) = NamesOn(node, homes, x)
      BY <1>3, <2>2, <2>3, NamesOnChild
    <2>5. NamesOn(node, inner \cup {x}, x) = NamesOn(node, inner, x)
      BY <1>3, <2>2, NamesOnHome
    <2>6. Placed(node, gs, ls, x)
      BY <1>3, <2>2, <2>3, <2>4, <2>5 DEF Placed
    <2>7. x # Null /\ x \in Pointers(node)
      BY <1>3, <2>2, NullIsNoNode DEF Tree, Pointers
    <2>8. current' = x /\ Cursor' = x /\ frames' = gs
      BY <1>1, <1>2, <1>5, <2>1, <2>7 DEF Cursor, Return
    <2> QED
      BY <1>1, <1>2, <1>3, <2>6, <2>7, <2>8 DEF CursorInv
  <1> QED
    BY <1>2, <1>4, <1>5

\* A popped label: the cursor goes back up.
LEMMA PopGoesUp ==
    ASSUME Kept(frames, labels, ret), CursorInv, Decoding, frames # << >>,
           Top.kind = "filter", Top.pending, Pop,
           NEW f, f.kind = "filter", ~f.pending,
           frames' \in {Front(frames), [frames EXCEPT ![Len(frames)] = f]}
    PROVE  CursorInv'
  <1>1. PICK fs, ls, n : fs = frames /\ ls = labels /\ n = Cursor
    OBVIOUS
  <1>2. PICK p, ks : p = node[n].parent /\ ks = Front(ls)
    OBVIOUS
  <1>3. /\ IsStack(fs) /\ fs # << >> /\ fs[Len(fs)].kind = "filter" /\ fs[Len(fs)].pending
        /\ ls \in Seq(Names)
    BY <1>1 DEF Top, Kept
  <1>4. Tree(node, root) /\ root # Null /\ Placed(node, fs, ls, n)
    BY <1>1 DEF CursorInv
  <1>5. /\ n \in DOMAIN node /\ p \in DOMAIN node
        /\ Placed(node, Front(fs), ks, p)
        /\ Placed(node, [fs EXCEPT ![Len(fs)] = f], ks, p)
    BY <1>2, <1>3, <1>4, PlacedPop
  <1>6. ls # << >>
    <2>1. HoldersOf(fs) # {}
      BY <1>3, StackTop DEF HoldersOf
    <2>2. InOrder(ls, Held(fs)) /\ Len(fs) \in HoldersOf(fs) /\ DOMAIN Held(fs) = HoldersOf(fs)
      BY <1>1, <1>3, StackTop DEF HoldersOf, Held, Kept
    <2>3. Len(ls) # 0
      <3>1. Cardinality(HoldersOf(fs)) = Len(ls)
        BY <2>2 DEF InOrder
      <3>2. IsFiniteSet(HoldersOf(fs))
        <4>1. Len(fs) \in Nat /\ HoldersOf(fs) \in SUBSET (1..Len(fs))
          BY <1>3, HeldPlaces
        <4>2. IsFiniteSet(1..Len(fs))
          BY <4>1, FS_Interval
        <4> QED
          BY <4>1, <4>2, FS_Subset
      <3> QED
        BY <2>1, <3>1, <3>2, FS_EmptySet
    <2> QED
      BY <2>3
  <1>7. current = n
    BY <1>1, <1>2, <1>5, CursorIs
  <1>8. /\ labels' = ks /\ current' = p
        /\ UNCHANGED <<node, root, depth>>
    BY <1>1, <1>2, <1>6, <1>7 DEF Pop, LabelPop, Decoding, Encoding
  <1>9. p # Null /\ p \in Pointers(node)
    BY <1>4, <1>5, NullIsNoNode DEF Tree, Pointers
  <1>10. Cursor' = p
    BY <1>8, <1>9 DEF Cursor
  <1>11. Placed(node, frames', ks, p)
    BY <1>1, <1>5
  <1> QED
    BY <1>4, <1>8, <1>9, <1>10, <1>11 DEF CursorInv

LEMMA FieldReturnsPlaces ==
    ASSUME Kept(frames, labels, ret), CursorInv, Decoding, FieldReturns
    PROVE  CursorInv'
  <1>1. PICK fs, o : fs = frames /\ o = IF Encoding THEN Top.obj ELSE (Field.name :> val) @@ Top.obj
    OBVIOUS
  <1>2. PICK f : f = fs[Len(fs)]
    OBVIOUS
  <1>3. fs # << >> /\ f.kind = "filter" /\ f = Top /\ ret = "true" /\ Pop
    BY <1>1, <1>2 DEF FieldReturns, Returned, Within, Top
  <1>4. IsFrame(f) /\ IsStack(fs) /\ f.pending
    BY <1>1, <1>2, <1>3, TopIs DEF Kept, Calling
  <1>5. PICK g : g = [f EXCEPT !.at = f.at + 1, !.pending = FALSE, !.obj = o]
    OBVIOUS
  <1>6. g.kind = "filter" /\ ~g.pending
    BY <1>3, <1>4, <1>5 DEF IsFrame, FrameFields
  <1>7. frames' = [fs EXCEPT ![Len(fs)] = g]
    BY <1>1, <1>2, <1>4, <1>5 DEF FieldReturns, Top, IsFrame, FrameFields, IsStack
  <1> QED
    BY <1>1, <1>3, <1>4, <1>6, <1>7, PopGoesUp

LEMMA FieldFailsPlaces ==
    ASSUME Kept(frames, labels, ret), CursorInv, Decoding, FieldFails
    PROVE  CursorInv'
  <1>1. frames # << >> /\ Top.kind = "filter" /\ ret = "false" /\ Pop /\ frames' = Front(frames)
    BY DEF FieldFails, Returned, Within, Trailer, Return
  <1>2. Top.pending
    BY <1>1 DEF Kept, Calling, Top
  <1>3. PICK g : g = Frame("filter", "int", Nothing)
    OBVIOUS
  <1>4. g.kind = "filter" /\ ~g.pending
    BY <1>3 DEF Frame
  <1> QED
    BY <1>1, <1>2, <1>4, PopGoesUp

LEMMA FilterPlaces ==
    ASSUME EveryArm, Kept(frames, labels, ret), CursorInv, Decoding, Filter
    PROVE  CursorInv'
  <1>1. CASE PushField
    <2>1. root' = root
      BY <1>1 DEF PushField, Push, LabelPush, Decoding, Encoding
    <2> QED
      BY <1>1, <2>1, PushFieldPlaces
  <1>2. CASE CallAlias
    BY <1>2, CallAliasPlaces
  <1>3. CASE CallPointer
    BY <1>3, CallPointerPlaces
  <1>4. CASE PointerReturns
    BY <1>4, PointerReturnsPlaces
  <1>5. CASE CallElements
    BY <1>5, CallElementsPlaces
  <1>6. CASE ArrayElement
    BY <1>6, ArrayElementPlaces
  <1>7. CASE ArrayElementReturns
    <2>1. frames # << >> /\ Another /\ UNCHANGED treeVars /\ labels' = labels
      BY <1>7 DEF ArrayElementReturns, Returned, Within
    <2> QED
      BY <2>1, AnotherPlaces
  <1>8. CASE VectorElement
    <2>1. PICK fs, ls, type, o, m, n :
            /\ fs = frames /\ ls = labels /\ type = Top.type
            /\ o = (IF Encoding THEN Top.obj[Top.at] ELSE Nothing) /\ m = current /\ n = Cursor
      OBVIOUS
    <2>2. /\ IsStack(fs) /\ fs # << >> /\ fs[Len(fs)].kind # "array"
          /\ Call(type, o, m, fs, << >>) /\ UNCHANGED <<treeVars, labels>>
      BY <1>8, <2>1 DEF VectorElement, Beginning, Within, Top, Kept
    <2>3. Tree(node, root) /\ Placed(node, fs, ls, n) /\ n \in DOMAIN node
      BY <2>1, CursorIs DEF CursorInv
    <2>4. BelowArrays(node, fs, n)
      BY <2>2, <2>3, BelowTop DEF Placed
    <2>5. Placed(node, frames', ls, n)
      BY <2>2, <2>3, <2>4, PlacedCall
    <2> QED
      BY <2>1, <2>2, <2>5, SameCursor
  <1>9. CASE VectorElementReturns
    <2>1. PICK v : v = Top.obj
      OBVIOUS
    <2>2. /\ frames # << >> /\ Top.kind = "vector" /\ labels' = labels /\ UNCHANGED treeVars
          /\ Another \/ Return("false", v)
      BY <1>9, <2>1 DEF VectorElementReturns, Returned, Within
    <2> QED
      BY <2>2, AnotherPlaces, ReturnPlaces
  <1>10. CASE ElementsDone
    BY <1>10, ElementsDonePlaces
  <1>11. CASE FieldReturns
    BY <1>11, FieldReturnsPlaces
  <1>12. CASE FieldFails
    BY <1>12, FieldFailsPlaces
  <1>13. CASE FilterEnds
    BY <1>13, FilterSucceeds, ReturnPlaces
  <1> QED
    BY <1>1, <1>2, <1>3, <1>4, <1>5, <1>6, <1>7, <1>8, <1>9, <1>10, <1>11, <1>12, <1>13 DEF Filter
-----------------------------------------------------------------------------
(* How deep the tags of a document are nested.                             *)

Delta(t) == IF t.tag = "open" THEN 1 ELSE IF t.tag = "close" THEN -1 ELSE 0

\* l[k] elements are open before tag k.
Levels(ts, l) ==
  /\ l \in [1..Len(ts) + 1 -> Nat]
  /\ \A k \in 1..Len(ts) : /\ ts[k].tag \in {"open", "close", "text"}
                           /\ l[k + 1] = l[k] + Delta(ts[k])

\* ts leaves d elements open and closes none it has not opened.
Written(ts, d) ==
  /\ \E S : ts \in Seq(S)
  /\ \E l : Levels(ts, l) /\ l[1] = 0 /\ l[Len(ts) + 1] = d

\* ts closes d elements and what it opens, the last of them at its end.
Unparsed(ts, d) ==
  /\ \E S : ts \in Seq(S)
  /\ \E l : /\ Levels(ts, l) /\ l[1] = d /\ l[Len(ts) + 1] = 0
            /\ \A k \in 2..Len(ts) : l[k] # 0

LEMMA NothingWritten == Written(<< >>, 0)
  <1>1. << >> \in Seq({}) /\ Len(<< >>) + 1 = 1
    OBVIOUS
  <1>2. PICK l : l = [i \in 1..1 |-> 0]
    OBVIOUS
  <1>3. Levels(<< >>, l) /\ l[1] = 0
    BY <1>2 DEF Levels
  <1> QED
    BY <1>1, <1>3 DEF Written

LEMMA WrittenAppend ==
    ASSUME NEW ts, NEW d, Written(ts, d), NEW t, t.tag \in {"open", "close", "text"},
           NEW e \in Nat, e = d + Delta(t)
    PROVE  Written(Append(ts, t), e) /\ d \in Nat
  <1>1. PICK S : ts \in Seq(S)
    BY DEF Written
  <1>2. PICK l : Levels(ts, l) /\ l[1] = 0 /\ l[Len(ts) + 1] = d
    BY DEF Written
  <1>3. PICK us, m : us = Append(ts, t) /\ m = Len(ts)
    OBVIOUS
  <1>4. us \in Seq(S \cup {t}) /\ m \in Nat /\ Len(us) = m + 1 /\ us[m + 1] = t /\ \A i \in 1..m : us[i] = ts[i]
    <2>1. ts \in Seq(S \cup {t})
      BY <1>1
    <2> QED
      BY <1>3, <2>1
  <1>5. l \in [1..m + 1 -> Nat] /\ l[m + 1] = d
    BY <1>2, <1>3 DEF Levels
  <1>6. PICK v : v = [i \in 1..m + 2 |-> IF i = m + 2 THEN e ELSE l[i]]
    OBVIOUS
  <1>7. v \in [1..m + 2 -> Nat] /\ v[m + 2] = e /\ \A i \in 1..m + 1 : v[i] = l[i]
    BY <1>4, <1>5, <1>6
  <1>8. ASSUME NEW k \in 1..m + 1
        PROVE  us[k].tag \in {"open", "close", "text"} /\ v[k + 1] = v[k] + Delta(us[k])
    <2>1. CASE k = m + 1
      <3>1. us[k] = t /\ v[k] = d /\ v[k + 1] = e
        BY <1>4, <1>5, <1>7, <2>1
      <3> QED
        BY <3>1
    <2>2. CASE k # m + 1
      <3>1. k \in 1..m /\ k + 1 \in 1..m + 1
        BY <1>4, <2>2
      <3>2. us[k] = ts[k] /\ v[k] = l[k] /\ v[k + 1] = l[k + 1]
        BY <1>4, <1>7, <3>1
      <3>3. ts[k].tag \in {"open", "close", "text"} /\ l[k + 1] = l[k] + Delta(ts[k])
        BY <1>2, <1>3, <3>1 DEF Levels
      <3> QED
        BY <3>2, <3>3
    <2> QED
      BY <2>1, <2>2
  <1>9. Levels(us, v)
    BY <1>4, <1>7, <1>8 DEF Levels
  <1>10. v[1] = 0 /\ v[Len(us) + 1] = e
    BY <1>2, <1>4, <1>7
  <1>11. Written(us, e)
    BY <1>4, <1>9, <1>10 DEF Written
  <1>12. d \in Nat
    BY <1>4, <1>5
  <1> QED
    BY <1>3, <1>11, <1>12

\* The document: the tags between those of a root.
LEMMA DocumentIsNested ==
    ASSUME NEW ts, Written(ts, 0), NEW o, o.tag = "open", NEW c, c.tag = "close"
    PROVE  Unparsed(<<o>> \o ts \o <<c>>, 0)
  <1>1. PICK S : ts \in Seq(S)
    BY DEF Written
  <1>2. PICK l : Levels(ts, l) /\ l[1] = 0 /\ l[Len(ts) + 1] = 0
    BY DEF Written
  <1>3. PICK us, m : us = <<o>> \o ts \o <<c>> /\ m = Len(ts)
    OBVIOUS
  <1>4. PICK T : T = S \cup {o, c}
    OBVIOUS
  <1>5. ts \in Seq(T) /\ <<o>> \in Seq(T) /\ <<c>> \in Seq(T) /\ m \in Nat
    BY <1>1, <1>3, <1>4
  <1>6. PICK xs : xs = <<o>> \o ts
    OBVIOUS
  <1>7. xs \in Seq(T) /\ Len(xs) = m + 1 /\ xs[1] = o /\ \A k \in 1..m : xs[k + 1] = ts[k]
    <2>1. /\ xs \in Seq(T) /\ Len(xs) = Len(<<o>>) + m
          /\ \A i \in 1..Len(<<o>>) + m : xs[i] = IF i <= Len(<<o>>) THEN <<o>>[i] ELSE ts[i - Len(<<o>>)]
      BY <1>3, <1>5, <1>6, ConcatProperties
    <2>2. Len(<<o>>) = 1 /\ <<o>>[1] = o
      OBVIOUS
    <2> QED
      BY <1>5, <2>1, <2>2
  <1>8. us = xs \o <<c>>
    BY <1>3, <1>6
  <1>9. us \in Seq(T) /\ Len(us) = m + 2 /\ us[m + 2] = c /\ \A k \in 1..m + 1 : us[k] = xs[k]
    <2>1. /\ us \in Seq(T) /\ Len(us) = (m + 1) + Len(<<c>>)
          /\ \A i \in 1..(m + 1) + Len(<<c>>) : us[i] = IF i <= m + 1 THEN xs[i] ELSE <<c>>[i - (m + 1)]
      BY <1>5, <1>7, <1>8, ConcatProperties
    <2>2. Len(<<c>>) = 1 /\ <<c>>[1] = c
      OBVIOUS
    <2> QED
      BY <1>5, <2>1, <2>2
  <1>10. l \in [1..m + 1 -> Nat] /\ l[1] = 0 /\ l[m + 1] = 0
    BY <1>2, <1>3 DEF Levels
  <1>11. PICK v : v = [i \in 1..m + 3 |-> IF i = 1 \/ i = m + 3 THEN 0 ELSE l[i - 1] + 1]
    OBVIOUS
  <1>12. /\ v \in [1..m + 3 -> Nat] /\ v[1] = 0 /\ v[m + 3] = 0
         /\ \A i \in 1..m + 1 : v[i + 1] = l[i] + 1
    BY <1>5, <1>10, <1>11
  <1>13. ASSUME NEW k \in 1..m + 2
         PROVE  us[k].tag \in {"open", "close", "text"} /\ v[k + 1] = v[k] + Delta(us[k])
    <2>1. CASE k = 1
      <3>1. us[k] = o /\ v[k] = 0 /\ v[k + 1] = 1
        BY <1>5, <1>7, <1>9, <1>10, <1>12, <2>1
      <3> QED
        BY <3>1 DEF Delta
    <2>2. CASE k = m + 2
      <3>1. us[k] = c /\ v[k] = 1 /\ v[k + 1] = 0
        <4>1. m + 1 \in 1..m + 1 /\ (m + 1) + 1 = m + 2 /\ k + 1 = m + 3
          BY <1>5, <2>2
        <4>2. v[m + 2] = l[m + 1] + 1
          BY <1>12, <4>1
        <4> QED
          BY <1>9, <1>10, <1>12, <2>2, <4>1, <4>2
      <3> QED
        BY <3>1 DEF Delta
    <2>3. CASE k # 1 /\ k # m + 2
      <3>1. PICK j : j = k - 1
        OBVIOUS
      <3>2. j \in 1..m /\ k = j + 1 /\ j + 1 \in 1..m + 1 /\ k + 1 = (j + 1) + 1 /\ j \in 1..m + 1
        BY <1>5, <2>3, <3>1
      <3>3. us[k] = ts[j] /\ v[k] = l[j] + 1 /\ v[k + 1] = l[j + 1] + 1
        BY <1>7, <1>9, <1>12, <3>2
      <3>4. ts[j].tag \in {"open", "close", "text"} /\ l[j + 1] = l[j] + Delta(ts[j])
        BY <1>2, <1>3, <3>2 DEF Levels
      <3>5. l[j] \in Nat /\ Delta(ts[j]) \in Int
        BY <1>10, <3>2 DEF Delta
      <3> QED
        BY <3>3, <3>4, <3>5
    <2> QED
      BY <2>1, <2>2, <2>3
  <1>14. \A k \in 2..m + 2 : v[k] # 0
    BY <1>5, <1>10, <1>11, <1>12
  <1>15. Levels(us, v)
    <2>1. Len(us) + 1 = m + 3 /\ Len(us) = m + 2
      BY <1>5, <1>9
    <2> QED
      BY <1>12, <1>13, <2>1 DEF Levels
  <1>16. Unparsed(us, 0)
    <2>1. Len(us) + 1 = m + 3 /\ Len(us) = m + 2
      BY <1>5, <1>9
    <2> QED
      BY <1>9, <1>12, <1>14, <1>15, <2>1 DEF Unparsed
  <1> QED
    BY <1>3, <1>16

LEMMA UnparsedTail ==
    ASSUME NEW ts, NEW d, Unparsed(ts, d), ts # << >>
    PROVE  /\ d \in Nat /\ Head(ts).tag \in {"open", "close", "text"}
           /\ d + Delta(Head(ts)) \in Nat
           /\ Unparsed(Tail(ts), d + Delta(Head(ts)))
           /\ d + Delta(Head(ts)) = 0 => Tail(ts) = << >>
  <1>1. PICK S : ts \in Seq(S)
    BY DEF Unparsed
  <1>2. PICK l : Levels(ts, l) /\ l[1] = d /\ l[Len(ts) + 1] = 0 /\ \A k \in 2..Len(ts) : l[k] # 0
    BY DEF Unparsed
  <1>3. PICK us, m : us = Tail(ts) /\ m = Len(ts)
    OBVIOUS
  <1>4. /\ m \in Nat \ {0} /\ us \in Seq(S) /\ Len(us) = m - 1 /\ Head(ts) = ts[1]
        /\ \A k \in 1..m - 1 : us[k] = ts[k + 1]
    BY <1>1, <1>3
  <1>5. l \in [1..m + 1 -> Nat] /\ l[1] = d /\ l[m + 1] = 0 /\ \A k \in 2..m : l[k] # 0
    BY <1>2, <1>3 DEF Levels
  <1>6. ts[1].tag \in {"open", "close", "text"} /\ l[2] = d + Delta(ts[1])
    <2>1. 1 \in 1..m /\ 1 + 1 = 2
      BY <1>4
    <2> QED
      BY <1>2, <1>3, <2>1 DEF Levels
  <1>7. d \in Nat /\ l[2] \in Nat
    <2>1. 1 \in 1..m + 1 /\ 2 \in 1..m + 1
      BY <1>4
    <2> QED
      BY <1>5, <2>1
  <1>8. PICK v : v = [i \in 1..m |-> l[i + 1]]
    OBVIOUS
  <1>9. v \in [1..m -> Nat] /\ v[1] = l[2] /\ v[m] = 0 /\ \A i \in 1..m : v[i] = l[i + 1]
    BY <1>4, <1>5, <1>8
  <1>10. ASSUME NEW k \in 1..m - 1
         PROVE  us[k].tag \in {"open", "close", "text"} /\ v[k + 1] = v[k] + Delta(us[k])
    <2>1. k + 1 \in 1..m /\ k \in 1..m
      BY <1>4
    <2>2. ts[k + 1].tag \in {"open", "close", "text"} /\ l[(k + 1) + 1] = l[k + 1] + Delta(ts[k + 1])
      BY <1>2, <1>3, <2>1 DEF Levels
    <2> QED
      BY <1>4, <1>9, <2>1, <2>2
  <1>11. \A k \in 2..m - 1 : v[k] # 0
    BY <1>4, <1>5, <1>9
  <1>12. Unparsed(us, l[2])
    <2>1. Len(us) + 1 = m
      BY <1>4
    <2>2. Levels(us, v)
      BY <1>4, <1>9, <1>10, <2>1 DEF Levels
    <2> QED
      BY <1>4, <1>9, <1>11, <2>1, <2>2 DEF Unparsed
  <1>13. l[2] = 0 => us = << >>
    <2>1. l[2] = 0 => ~(2 \in 2..m)
      BY <1>5
    <2>2. l[2] = 0 => Len(us) = 0
      BY <1>4, <2>1
    <2> QED
      BY <1>4, <2>2
  <1> QED
    BY <1>3, <1>4, <1>6, <1>7, <1>12, <1>13

\* What a tag does to the parser.
LEMMA ParseIs ==
    ASSUME NEW e, e.tag \in {"open", "close", "text"}, Parse(e)
    PROVE  \/ e.tag = "open" /\ StartElement(e.name)
           \/ e.tag = "text" /\ (UNCHANGED treeVars \/ CharData(e.text))
           \/ e.tag = "close" /\ EndElement
  <1>1. CASE e.tag = "open"
    BY <1>1, Zenon DEF Parse
  <1>2. CASE e.tag = "text"
    BY <1>2, Zenon DEF Parse
  <1>3. CASE e.tag = "close"
    BY <1>3, Zenon DEF Parse
  <1> QED
    BY <1>1, <1>2, <1>3
-----------------------------------------------------------------------------
(* What the filters write is nested like their calls.                      *)

\* The calls that have opened an element and not closed it; inside says
\* that the innermost array has.
Opens(fs, inside) ==
  { i \in 1..Len(fs) : fs[i].pending \/ (fs[i].kind = "array" /\ (i < Len(fs) \/ inside)) }

HasOpened(f, inside) == f.pending \/ (f.kind = "array" /\ inside)

LEMMA OpensAppend ==
    ASSUME NEW gs, \E S : gs \in Seq(S), NEW f, NEW inside \in BOOLEAN
    PROVE  /\ Cardinality(Opens(gs, TRUE)) \in Nat
           /\ Cardinality(Opens(Append(gs, f), inside))
                = Cardinality(Opens(gs, TRUE)) + (IF HasOpened(f, inside) THEN 1 ELSE 0)
  <1>1. PICK S : gs \in Seq(S)
    OBVIOUS
  <1>2. PICK fs, m : fs = Append(gs, f) /\ m = Len(gs)
    OBVIOUS
  <1>3. m \in Nat /\ Len(fs) = m + 1 /\ fs[m + 1] = f /\ \A i \in 1..m : fs[i] = gs[i]
    <2>1. gs \in Seq(S \cup {f})
      BY <1>1
    <2> QED
      BY <1>2, <2>1
  <1>4. PICK A, B : A = Opens(gs, TRUE) /\ B = Opens(fs, inside)
    OBVIOUS
  <1>5. A = { i \in 1..m : gs[i].pending \/ gs[i].kind = "array" }
    BY <1>2, <1>4 DEF Opens
  <1>6. B = { i \in 1..m + 1 : fs[i].pending \/ (fs[i].kind = "array" /\ (i < m + 1 \/ inside)) }
    BY <1>3, <1>4 DEF Opens
  <1>7. IsFiniteSet(A) /\ Cardinality(A) \in Nat
    <2>1. A \in SUBSET (1..m)
      BY <1>5
    <2>2. IsFiniteSet(1..m)
      BY <1>3, FS_Interval
    <2>3. IsFiniteSet(A)
      BY <2>1, <2>2, FS_Subset
    <2> QED
      BY <2>3, FS_CardinalityType
  <1>8. B = A \cup (IF HasOpened(f, inside) THEN {m + 1} ELSE {})
    <2>1. \A i \in 1..m : i \in 1..m + 1 /\ i < m + 1 /\ fs[i] = gs[i]
      BY <1>3
    <2>2. \A i \in 1..m + 1 : i = m + 1 \/ i \in 1..m
      BY <1>3
    <2>3. m + 1 \in 1..m + 1 /\ ~(m + 1 < m + 1)
      BY <1>3
    <2> QED
      BY <1>3, <1>5, <1>6, <2>1, <2>2, <2>3 DEF HasOpened
  <1>9. m + 1 \notin A
    BY <1>3, <1>5
  <1>10. CASE HasOpened(f, inside)
    <2>1. B = A \cup {m + 1}
      BY <1>8, <1>10
    <2>2. Cardinality(B) = Cardinality(A) + 1
      BY <1>7, <1>9, <2>1, FS_AddElement
    <2> QED
      BY <1>2, <1>4, <1>7, <1>10, <2>2
  <1>11. CASE ~HasOpened(f, inside)
    <2>1. B = A
      BY <1>8, <1>11
    <2>2. Cardinality(A) + 0 = Cardinality(A)
      BY <1>7
    <2>3. Cardinality(B) = Cardinality(A) + (IF HasOpened(f, inside) THEN 1 ELSE 0)
      BY <1>11, <2>1, <2>2
    <2> QED
      BY <1>2, <1>4, <1>7, <2>3
  <1> QED
    BY <1>10, <1>11

\* The filters are as deep in what they wrote as they have elements open,
\* and no array has a home in a tree that is still empty.
Outlined(fs, inside, ts) ==
  /\ ArrayHomes(fs) \subseteq {Null}
  /\ Written(ts, Cardinality(Opens(fs, inside)))

\* The innermost call, and what has been written before it went on.
OutlineTop(gs, f, inside, ts, c) ==
  /\ ArrayHomes(gs) \subseteq {Null} /\ (f.kind = "array" => f.home = Null)
  /\ c = Cardinality(Opens(gs, TRUE)) /\ c \in Nat
  /\ Written(ts, c + (IF HasOpened(f, inside) THEN 1 ELSE 0))

LEMMA OutlinedAppend ==
    ASSUME NEW gs, \E S : gs \in Seq(S), NEW f, NEW inside \in BOOLEAN, NEW ts
    PROVE  Outlined(Append(gs, f), inside, ts) <=> \E c : OutlineTop(gs, f, inside, ts, c)
  <1>1. PICK c : c = Cardinality(Opens(gs, TRUE))
    OBVIOUS
  <1>2. c \in Nat /\ Cardinality(Opens(Append(gs, f), inside)) = c + (IF HasOpened(f, inside) THEN 1 ELSE 0)
    BY <1>1, OpensAppend
  <1>3. ArrayHomes(Append(gs, f)) = ArrayHomes(gs) \cup (IF f.kind = "array" THEN {f.home} ELSE {})
    BY ArrayHomesAppend
  <1>4. ArrayHomes(Append(gs, f)) \subseteq {Null}
          <=> ArrayHomes(gs) \subseteq {Null} /\ (f.kind = "array" => f.home = Null)
    BY <1>3
  <1> QED
    BY <1>1, <1>2, <1>4 DEF Outlined, OutlineTop

LEMMA OutlinedTop ==
    ASSUME NEW fs, IsStack(fs), fs # << >>, NEW inside \in BOOLEAN, NEW ts, Outlined(fs, inside, ts)
    PROVE  \E c : OutlineTop(Front(fs), fs[Len(fs)], inside, ts, c)
  <1>1. PICK gs, f : gs = Front(fs) /\ f = fs[Len(fs)]
    OBVIOUS
  <1>2. fs = Append(gs, f) /\ \E S : gs \in Seq(S)
    BY <1>1, StackIs
  <1>3. Outlined(Append(gs, f), inside, ts)
    BY <1>2
  <1> QED
    BY <1>1, <1>2, <1>3, OutlinedAppend

LEMMA OutlinedSet ==
    ASSUME NEW fs, IsStack(fs), fs # << >>, NEW inside \in BOOLEAN, NEW ts, NEW f, NEW c,
           OutlineTop(Front(fs), f, inside, ts, c)
    PROVE  Outlined([fs EXCEPT ![Len(fs)] = f], inside, ts)
  <1>1. PICK gs : gs = Front(fs)
    OBVIOUS
  <1>2. [fs EXCEPT ![Len(fs)] = f] = Append(gs, f) /\ \E S : gs \in Seq(S)
    BY <1>1, StackIs
  <1>3. Outlined(Append(gs, f), inside, ts)
    BY <1>1, <1>2, OutlinedAppend
  <1> QED
    BY <1>2, <1>3

\* The innermost call returns, and the one that waits for it has not gone on.
LEMMA OutlinedFront ==
    ASSUME NEW fs, IsStack(fs), fs # << >>, NEW inside, NEW ts, NEW c,
           OutlineTop(Front(fs), fs[Len(fs)], inside, ts, c), ~HasOpened(fs[Len(fs)], inside)
    PROVE  Outlined(Front(fs), TRUE, ts)
  <1>1. PICK gs, f : gs = Front(fs) /\ f = fs[Len(fs)]
    OBVIOUS
  <1>2. OutlineTop(gs, f, inside, ts, c) /\ ~HasOpened(f, inside)
    BY <1>1
  <1>3. /\ ArrayHomes(gs) \subseteq {Null} /\ c = Cardinality(Opens(gs, TRUE)) /\ c \in Nat
        /\ Written(ts, c + 0)
    BY <1>2 DEF OutlineTop
  <1>4. c + 0 = c
    <2>1. c \in Nat
      BY <1>3
    <2> QED
      BY <2>1
  <1>5. Outlined(gs, TRUE, ts)
    BY <1>3, <1>4 DEF Outlined
  <1> QED
    BY <1>1, <1>5

\* A call that has opened nothing.
LEMMA OutlinedBegin ==
    ASSUME NEW fs, IsStack(fs), NEW ts, Outlined(fs, TRUE, ts), NEW f, ~f.pending, f.kind = "array" => f.home = Null
    PROVE  Outlined(Append(fs, f), FALSE, ts)
  <1>1. \E S : fs \in Seq(S)
    BY DEF IsStack
  <1>2. PICK c : c = Cardinality(Opens(fs, TRUE))
    OBVIOUS
  <1>3. c \in Nat
    BY <1>1, <1>2, OpensAppend
  <1>4. ~HasOpened(f, FALSE)
    BY DEF HasOpened
  <1>5. c + 0 = c
    BY <1>3
  <1>6. OutlineTop(fs, f, FALSE, ts, c)
    BY <1>2, <1>3, <1>4, <1>5 DEF OutlineTop, Outlined
  <1> QED
    BY <1>1, <1>6, OutlinedAppend

LEMMA OutlinedCall ==
    ASSUME Encoding, ret = "none", NEW fs, IsStack(fs), NEW type, NEW o, NEW m, NEW written,
           Outlined(fs, TRUE, out \o written), Call(type, o, m, fs, written)
    PROVE  Outlined(frames', ret' # "none", out')
  <1>1. PICK ts : ts = out \o written
    OBVIOUS
  <1>2. CASE type \in Scalars
    <2>1. frames' = fs /\ ret' # "none"
      BY <1>2 DEF Call
    <2>2. PICK t : t = Data(Text(type, o))
      OBVIOUS
    <2>3. t.tag = "text"
      BY <2>2 DEF Data
    <2>4. out' = ts \/ out' = Append(ts, t)
      BY <1>1, <1>2, <2>2 DEF Call
    <2>5. Outlined(fs, TRUE, Append(ts, t))
      <3>1. PICK d : d = Cardinality(Opens(fs, TRUE))
        OBVIOUS
      <3>2. Written(ts, d) /\ d \in Nat
        <4>1. Written(ts, d)
          BY <1>1, <3>1 DEF Outlined
        <4>2. \E S : fs \in Seq(S)
          BY DEF IsStack
        <4> QED
          BY <3>1, <4>1, <4>2, OpensAppend
      <3>3. d = d + Delta(t)
        BY <2>3, <3>2 DEF Delta
      <3>4. Written(Append(ts, t), d)
        BY <2>3, <3>2, <3>3, WrittenAppend
      <3> QED
        BY <3>1, <3>4 DEF Outlined
    <2>6. Outlined(fs, TRUE, out')
      BY <1>1, <2>4, <2>5
    <2>7. PICK us, q : us = out' /\ q = (ret' # "none")
      OBVIOUS
    <2> QED
      BY <2>1, <2>6, <2>7
  <1>3. CASE type \notin Scalars
    <2>1. PICK f : f = Frame("filter", type, o)
      OBVIOUS
    <2>2. frames' = Append(fs, f) /\ ret' = "none" /\ out' = ts
      BY <1>1, <1>3, <2>1 DEF Call
    <2>3. ~f.pending /\ f.kind = "filter"
      BY <2>1 DEF Frame
    <2>4. Outlined(Append(fs, f), FALSE, ts)
      BY <1>1, <2>3, OutlinedBegin
    <2>5. (ret' # "none") = FALSE
      BY <2>2
    <2> QED
      BY <2>2, <2>4, <2>5
  <1> QED
    BY <1>2, <1>3

LEMMA TopWritten ==
    ASSUME NEW gs, NEW f, NEW inside, NEW ts, NEW c, OutlineTop(gs, f, inside, ts, c)
    PROVE  /\ c \in Nat /\ ArrayHomes(gs) \subseteq {Null} /\ c = Cardinality(Opens(gs, TRUE))
           /\ f.kind = "array" => f.home = Null
           /\ HasOpened(f, inside) => Written(ts, c + 1)
           /\ ~HasOpened(f, inside) => Written(ts, c)
  <1>1. c \in Nat
    BY DEF OutlineTop
  <1>2. c + 0 = c
    BY <1>1
  <1>3. Written(ts, c + (IF HasOpened(f, inside) THEN 1 ELSE 0))
    BY DEF OutlineTop
  <1>4. HasOpened(f, inside) => Written(ts, c + 1)
    BY <1>3
  <1>5. ~HasOpened(f, inside) => Written(ts, c)
    BY <1>2, <1>3
  <1> QED
    BY <1>1, <1>4, <1>5 DEF OutlineTop

LEMMA WrittenTop ==
    ASSUME NEW gs, NEW c \in Nat, ArrayHomes(gs) \subseteq {Null}, c = Cardinality(Opens(gs, TRUE)),
           NEW f, f.kind = "array" => f.home = Null, NEW inside, NEW ts,
           HasOpened(f, inside) => Written(ts, c + 1),
           ~HasOpened(f, inside) => Written(ts, c)
    PROVE  OutlineTop(gs, f, inside, ts, c)
  <1>1. \A d \in Nat : d + 0 = d
    OBVIOUS
  <1>2. Written(ts, c + (IF HasOpened(f, inside) THEN 1 ELSE 0))
    BY <1>1
  <1> QED
    BY <1>2 DEF OutlineTop

LEMMA WrittenOpen ==
    ASSUME NEW ts, NEW c \in Nat, Written(ts, c), NEW name
    PROVE  Written(ts \o <<Layout, Open(name)>>, c + 1)
  <1>1. PICK S : ts \in Seq(S)
    BY DEF Written
  <1>2. PICK x, y : x = Layout /\ y = Open(name)
    OBVIOUS
  <1>3. x.tag = "text" /\ y.tag = "open"
    BY <1>2 DEF Layout, Data, Open
  <1>4. Delta(x) = 0 /\ Delta(y) = 1
    BY <1>3 DEF Delta
  <1>5. c = c + Delta(x) /\ c + 1 \in Nat /\ c + 1 = c + Delta(y)
    BY <1>4
  <1>6. PICK us : us = Append(ts, x)
    OBVIOUS
  <1>7. Written(us, c)
    BY <1>3, <1>5, <1>6, WrittenAppend
  <1>8. Written(Append(us, y), c + 1)
    BY <1>3, <1>5, <1>7, WrittenAppend
  <1>9. ts \o <<x, y>> = Append(Append(ts, x), y)
    <2>1. ts \in Seq(S \cup {x, y}) /\ x \in S \cup {x, y} /\ y \in S \cup {x, y}
      BY <1>1
    <2> QED
      BY <2>1
  <1> QED
    BY <1>2, <1>6, <1>8, <1>9

LEMMA WrittenClose ==
    ASSUME NEW ts, NEW c \in Nat, Written(ts, c + 1), NEW name
    PROVE  Written(Append(ts, Close(name)), c)
  <1>1. PICK x : x = Close(name)
    OBVIOUS
  <1>2. x.tag = "close"
    BY <1>1 DEF Close
  <1>3. Delta(x) = -1
    BY <1>2 DEF Delta
  <1>4. c = (c + 1) + Delta(x)
    BY <1>3
  <1>5. PICK d : d = c + 1
    OBVIOUS
  <1>6. Written(Append(ts, x), c)
    BY <1>2, <1>4, <1>5, WrittenAppend
  <1> QED
    BY <1>1, <1>6

EncodeInv == TreeInit /\ Outlined(frames, ret # "none", out)

\* The top of a stack at work, before it goes on.
LEMMA AtWork ==
    ASSUME Kept(frames, labels, ret), EncodeInv, frames # << >>
    PROVE  /\ IsStack(frames) /\ IsFrame(Top)
           /\ \E c : OutlineTop(Front(frames), Top, ret # "none", out, c)
  <1>1. PICK fs, b, ts : fs = frames /\ b = (ret # "none") /\ ts = out
    OBVIOUS
  <1>2. IsStack(fs) /\ fs # << >> /\ Outlined(fs, b, ts) /\ b \in BOOLEAN
    BY <1>1 DEF Kept, EncodeInv
  <1>3. \E c : OutlineTop(Front(fs), fs[Len(fs)], b, ts, c)
    BY <1>2, OutlinedTop
  <1>4. IsFrame(fs[Len(fs)])
    BY <1>2, StackTop
  <1> QED
    BY <1>1, <1>2, <1>3, <1>4 DEF Top

LEMMA SameOutline ==
    ASSUME TreeInit, UNCHANGED treeVars, Outlined(frames', ret' # "none", out')
    PROVE  EncodeInv'
  BY DEF EncodeInv, TreeInit, treeVars

\* The call in progress returns.
LEMMA OutlinedReturn ==
    ASSUME Kept(frames, labels, ret), frames # << >>, Encoding,
           NEW b, NEW c, NEW ts, OutlineTop(Front(frames), Top, b, ts, c), ~HasOpened(Top, b),
           NEW r, NEW v, r # "none", Return(r, v), out' = ts
    PROVE  Outlined(frames', ret' # "none", out')
  <1>1. PICK fs : fs = frames
    OBVIOUS
  <1>2. IsStack(fs) /\ fs # << >> /\ OutlineTop(Front(fs), fs[Len(fs)], b, ts, c) /\ ~HasOpened(fs[Len(fs)], b)
    BY <1>1 DEF Kept, Top
  <1>3. Outlined(Front(fs), TRUE, ts)
    BY <1>2, OutlinedFront
  <1>4. frames' = Front(fs) /\ (ret' # "none") = TRUE
    BY <1>1 DEF Return
  <1> QED
    BY <1>3, <1>4

\* The call in progress goes on.
LEMMA OutlinedGoesOn ==
    ASSUME Kept(frames, labels, ret), frames # << >>,
           NEW g, NEW c, OutlineTop(Front(frames), g, FALSE, out', c),
           frames' = [frames EXCEPT ![Len(frames)] = g], ret' = "none"
    PROVE  Outlined(frames', ret' # "none", out')
  <1>1. PICK fs, ts : fs = frames /\ ts = out'
    OBVIOUS
  <1>2. IsStack(fs) /\ fs # << >> /\ OutlineTop(Front(fs), g, FALSE, ts, c)
    BY <1>1 DEF Kept
  <1>3. Outlined([fs EXCEPT ![Len(fs)] = g], FALSE, ts)
    BY <1>2, OutlinedSet
  <1>4. frames' = [fs EXCEPT ![Len(fs)] = g] /\ (ret' # "none") = FALSE
    BY <1>1
  <1> QED
    BY <1>1, <1>3, <1>4

LEMMA PushFieldWrites ==
    ASSUME Kept(frames, labels, ret), EncodeInv, Encoding, PushField
    PROVE  EncodeInv'
  <1>1. PICK gs, f, ts, name : gs = Front(frames) /\ f = Top /\ ts = out /\ name = Field.name
    OBVIOUS
  <1>2. /\ frames # << >> /\ f.kind = "filter" /\ ~f.pending /\ ret = "none" /\ ret' = "none"
        /\ out' = ts \o <<Layout, Open(name)>> /\ UNCHANGED treeVars
        /\ frames' = [frames EXCEPT ![Len(frames)].pending = TRUE]
    BY <1>1 DEF PushField, Push, Beginning, Within
  <1>3. IsStack(frames) /\ IsFrame(f) /\ \E c : OutlineTop(gs, f, FALSE, ts, c)
    BY <1>1, <1>2, AtWork
  <1>4. PICK c : OutlineTop(gs, f, FALSE, ts, c)
    BY <1>3
  <1>5. ~HasOpened(f, FALSE)
    BY <1>2 DEF HasOpened
  <1>6. /\ c \in Nat /\ ArrayHomes(gs) \subseteq {Null} /\ c = Cardinality(Opens(gs, TRUE))
        /\ Written(ts, c)
    BY <1>4, <1>5, TopWritten
  <1>7. PICK g : g = [f EXCEPT !.pending = TRUE]
    OBVIOUS
  <1>8. g.kind = "filter" /\ g.pending
    BY <1>2, <1>3, <1>7 DEF IsFrame, FrameFields
  <1>9. frames' = [frames EXCEPT ![Len(frames)] = g]
    BY <1>1, <1>2, <1>3, <1>7, StackTop DEF Top, IsStack
  <1>10. HasOpened(g, FALSE)
    BY <1>8 DEF HasOpened
  <1>11. Written(ts \o <<Layout, Open(name)>>, c + 1)
    BY <1>6, WrittenOpen
  <1>12. OutlineTop(gs, g, FALSE, ts \o <<Layout, Open(name)>>, c)
    BY <1>6, <1>8, <1>10, <1>11, WrittenTop
  <1>13. Outlined(frames', ret' # "none", out')
    BY <1>1, <1>2, <1>9, <1>12, OutlinedGoesOn
  <1> QED
    BY <1>2, <1>13, SameOutline DEF EncodeInv

LEMMA TopOutlined ==
    ASSUME NEW fs, IsStack(fs), fs # << >>, NEW b \in BOOLEAN, NEW ts, NEW c,
           OutlineTop(Front(fs), fs[Len(fs)], b, ts, c)
    PROVE  Outlined(fs, b, ts)
  <1>1. PICK gs, f : gs = Front(fs) /\ f = fs[Len(fs)]
    OBVIOUS
  <1>2. fs = Append(gs, f) /\ \E S : gs \in Seq(S)
    BY <1>1, StackIs
  <1>3. Outlined(Append(gs, f), b, ts)
    BY <1>1, <1>2, OutlinedAppend
  <1> QED
    BY <1>2, <1>3

\* A call that is not an array opens no element for what it calls.
LEMMA CallerOutline ==
    ASSUME Kept(frames, labels, ret), EncodeInv, frames # << >>, ret = "none", Top.kind # "array"
    PROVE  /\ IsStack(frames)
           /\ Outlined(frames, TRUE, out)
           /\ Outlined(frames, TRUE, out \o << >>)
  <1>1. PICK fs, gs, f, ts : fs = frames /\ gs = Front(fs) /\ f = fs[Len(fs)] /\ ts = out
    OBVIOUS
  <1>2. IsStack(fs) /\ fs # << >> /\ f.kind # "array" /\ \E c : OutlineTop(gs, f, FALSE, ts, c)
    BY <1>1, AtWork DEF Top
  <1>3. PICK c : OutlineTop(gs, f, FALSE, ts, c)
    BY <1>2
  <1>4. HasOpened(f, TRUE) <=> HasOpened(f, FALSE)
    BY <1>2 DEF HasOpened
  <1>5. OutlineTop(gs, f, TRUE, ts, c)
    BY <1>3, <1>4 DEF OutlineTop
  <1>6. Outlined(fs, TRUE, ts)
    BY <1>1, <1>2, <1>5, TopOutlined
  <1>7. ts \o << >> = ts
    <2>1. PICK S : ts \in Seq(S)
      BY <1>6 DEF Outlined, Written
    <2> QED
      BY <2>1, ConcatEmptySeq
  <1> QED
    BY <1>1, <1>2, <1>6, <1>7

LEMMA CallsOutline ==
    ASSUME Kept(frames, labels, ret), EncodeInv, NEW rel, Calls(rel)
    PROVE  /\ IsStack(frames) /\ frames # << >> /\ ret = "none"
           /\ Outlined(frames, TRUE, out)
           /\ Outlined(frames, TRUE, out \o << >>)
  <1>1. frames # << >> /\ Top.kind # "array" /\ ret = "none"
    BY DEF Calls, Beginning, Within
  <1> QED
    BY <1>1, CallerOutline

LEMMA CallAliasWrites ==
    ASSUME Kept(frames, labels, ret), EncodeInv, Encoding, CallAlias
    PROVE  EncodeInv'
  <1>1. PICK fs, type, o, m : fs = frames /\ type = Field.type /\ o = Part /\ m = current
    OBVIOUS
  <1>2. IsStack(fs) /\ ret = "none" /\ Outlined(fs, TRUE, out \o << >>)
    BY <1>1, CallsOutline DEF CallAlias
  <1>3. Call(type, o, m, fs, << >>) /\ UNCHANGED treeVars
    BY <1>1 DEF CallAlias
  <1>4. Outlined(frames', ret' # "none", out')
    BY <1>2, <1>3, OutlinedCall
  <1> QED
    BY <1>3, <1>4, SameOutline DEF EncodeInv

LEMMA CallPointerWrites ==
    ASSUME Kept(frames, labels, ret), EncodeInv, Encoding, CallPointer
    PROVE  EncodeInv'
  <1> DEFINE there == IF Encoding THEN Part # << >> ELSE Present(current)
             object == IF Encoding THEN Part[1] ELSE Nothing
  <1>1. PICK fs, type, o, m : fs = frames /\ type = Field.type /\ o = object /\ m = current
    OBVIOUS
  <1> HIDE DEF object
  <1>2. /\ IsStack(fs) /\ fs # << >> /\ ret = "none" /\ Outlined(fs, TRUE, out)
        /\ Outlined(fs, TRUE, out \o << >>) /\ UNCHANGED treeVars
    BY <1>1, CallsOutline DEF CallPointer
  <1>3. CASE there
    <2>1. PICK f : f = Frame("pointer", type, Nothing)
      OBVIOUS
    <2>2. ~f.pending /\ f.kind = "pointer"
      BY <2>1 DEF Frame
    <2>3. PICK gs : gs = Append(fs, f)
      OBVIOUS
    <2>4. Field.type \in DOMAIN Defs \cup Scalars /\ Calling(fs[Len(fs)])
      BY <1>1, CallsAre DEF CallPointer
    <2>5. IsFrame(f)
      BY <1>1, <2>1, <2>4, NewFrame
    <2>6. IsStack(gs)
      BY <1>2, <2>2, <2>3, <2>4, <2>5, StackPush
    <2>7. Outlined(gs, TRUE, out \o << >>)
      <3>1. PICK c, ts : c = Cardinality(Opens(fs, TRUE)) /\ ts = out \o << >>
        OBVIOUS
      <3>2. c \in Nat /\ ~HasOpened(f, TRUE) /\ \E S : fs \in Seq(S)
        BY <1>2, <2>2, <3>1, OpensAppend DEF IsStack, HasOpened
      <3>3. ArrayHomes(fs) \subseteq {Null} /\ Written(ts, c)
        BY <1>2, <3>1 DEF Outlined
      <3>4. OutlineTop(fs, f, TRUE, ts, c)
        BY <2>2, <3>1, <3>2, <3>3, WrittenTop
      <3>5. Outlined(Append(fs, f), TRUE, ts)
        BY <3>2, <3>4, OutlinedAppend
      <3> QED
        BY <2>3, <3>1, <3>5
    <2>8. Call(type, o, m, gs, << >>)
      BY <1>1, <1>3, <2>1, <2>3 DEF CallPointer, object
    <2>9. Outlined(frames', ret' # "none", out')
      BY <1>2, <2>6, <2>7, <2>8, OutlinedCall
    <2> QED
      BY <1>2, <2>9, SameOutline DEF EncodeInv
  <1>4. CASE ~there
    <2>1. frames' = fs /\ ret' = "true" /\ out' = out
      BY <1>1, <1>4 DEF CallPointer
    <2>2. (ret' # "none") = TRUE
      BY <2>1
    <2>3. Outlined(frames', ret' # "none", out')
      BY <1>2, <2>1, <2>2
    <2> QED
      BY <1>2, <2>3, SameOutline DEF EncodeInv
  <1> QED
    BY <1>3, <1>4
LEMMA PointerReturnsWrites ==
    ASSUME Kept(frames, labels, ret), EncodeInv, Encoding, PointerReturns
    PROVE  EncodeInv'
  <1>1. PICK f, b, ts, r, v : f = Top /\ b = (ret # "none") /\ ts = out /\ r = ret /\ v = <<val>>
    OBVIOUS
  <1>2. /\ frames # << >> /\ f.kind = "pointer" /\ r # "none" /\ Return(r, v) /\ out' = ts
        /\ UNCHANGED treeVars
    BY <1>1 DEF PointerReturns, Returned, Within
  <1>3. IsFrame(f) /\ \E c : OutlineTop(Front(frames), f, b, ts, c)
    BY <1>1, <1>2, AtWork
  <1>4. ~HasOpened(f, b)
    BY <1>2, <1>3 DEF HasOpened, IsFrame
  <1>5. Outlined(frames', ret' # "none", out')
    BY <1>1, <1>2, <1>3, <1>4, OutlinedReturn
  <1> QED
    BY <1>2, <1>5, SameOutline DEF EncodeInv

LEMMA CallElementsWrites ==
    ASSUME Kept(frames, labels, ret), EncodeInv, Encoding, CallElements
    PROVE  EncodeInv'
  <1>1. PICK rel \in {"array", "vector"} : /\ Calls(rel)
       /\ frames' = Append(frames,
            [Frame(rel, Field.type, Part) EXCEPT
               !.home = ArrayHome,
               !.count = IF rel = "vector" THEN Field.len
                         ELSE IF Encoding THEN Len(Part)
                         ELSE Len(Children(node, current))])
    BY DEF CallElements
  <1>2. PICK fs, ts, type, of, n :
          /\ fs = frames /\ ts = out /\ type = Field.type /\ of = Part
          /\ n = IF rel = "vector" THEN Field.len
                 ELSE IF Encoding THEN Len(Part)
                 ELSE Len(Children(node, current))
    OBVIOUS
  <1>3. PICK f : f = [Frame(rel, type, of) EXCEPT !.home = Null, !.count = n]
    OBVIOUS
  <1>4. frames' = Append(fs, f)
    BY <1>1, <1>2, <1>3 DEF ArrayHome, EncodeInv, TreeInit
  <1>5. f.home = Null /\ ~f.pending
    BY <1>3 DEF Frame
  <1>6. IsStack(fs) /\ Outlined(fs, TRUE, ts) /\ ret = "none"
    BY <1>1, <1>2, CallsOutline
  <1>7. Outlined(Append(fs, f), FALSE, ts)
    BY <1>5, <1>6, OutlinedBegin
  <1>8. (ret' # "none") = FALSE /\ out' = ts /\ UNCHANGED treeVars
    BY <1>2, <1>6 DEF CallElements
  <1>9. Outlined(frames', ret' # "none", out')
    BY <1>4, <1>7, <1>8
  <1> QED
    BY <1>8, <1>9, SameOutline DEF EncodeInv

LEMMA ArrayElementWrites ==
    ASSUME Kept(frames, labels, ret), EncodeInv, Encoding, ArrayElement
    PROVE  EncodeInv'
  <1>1. PICK fs, gs, f, ts, of, written :
          /\ fs = frames /\ gs = Front(fs) /\ f = fs[Len(fs)] /\ ts = out
          /\ of = (IF Encoding THEN Top.obj[Top.at] ELSE Nothing) /\ written = <<Layout, Open("elt")>>
    OBVIOUS
  <1>2. PICK type : type = f.type
    OBVIOUS
  <1>3. /\ fs # << >> /\ f.kind = "array" /\ ret = "none"
        /\ current' = Null /\ Call(type, of, Null, fs, written)
        /\ UNCHANGED <<node, root, depth>>
    BY <1>1, <1>2 DEF ArrayElement, Beginning, Within, Top
  <1>4. IsStack(fs) /\ IsFrame(f) /\ \E c : OutlineTop(gs, f, FALSE, ts, c)
    BY <1>1, <1>3, AtWork DEF Top
  <1>5. PICK c : OutlineTop(gs, f, FALSE, ts, c)
    BY <1>4
  <1>6. ~HasOpened(f, FALSE) /\ HasOpened(f, TRUE)
    BY <1>3, <1>4 DEF HasOpened, IsFrame
  <1>7. /\ c \in Nat /\ ArrayHomes(gs) \subseteq {Null} /\ c = Cardinality(Opens(gs, TRUE))
        /\ f.home = Null /\ Written(ts, c)
    BY <1>3, <1>5, <1>6, TopWritten
  <1>8. PICK us : us = ts \o written
    OBVIOUS
  <1>9. Written(us, c + 1)
    BY <1>1, <1>7, <1>8, WrittenOpen
  <1>10. OutlineTop(gs, f, TRUE, us, c)
    BY <1>6, <1>7, <1>9, WrittenTop
  <1>11. Outlined(fs, TRUE, out \o written)
    BY <1>1, <1>3, <1>4, <1>8, <1>10, TopOutlined
  <1>12. Outlined(frames', ret' # "none", out')
    BY <1>3, <1>4, <1>11, OutlinedCall
  <1> QED
    BY <1>3, <1>12 DEF EncodeInv, TreeInit

LEMMA ArrayElementReturnsWrites ==
    ASSUME Kept(frames, labels, ret), EncodeInv, Encoding, ArrayElementReturns
    PROVE  EncodeInv'
  <1>1. PICK gs, f, b, ts : gs = Front(frames) /\ f = Top /\ b = (ret # "none") /\ ts = out
    OBVIOUS
  <1>2. /\ frames # << >> /\ f.kind = "array" /\ b = TRUE /\ Another
        /\ out' = Append(ts, Close("elt")) /\ UNCHANGED treeVars /\ ret' = "none"
    BY <1>1 DEF ArrayElementReturns, Returned, Within, Another
  <1>3. IsFrame(f) /\ \E c : OutlineTop(gs, f, b, ts, c)
    BY <1>1, <1>2, AtWork
  <1>4. PICK c : OutlineTop(gs, f, b, ts, c)
    BY <1>3
  <1>5. HasOpened(f, b)
    BY <1>2 DEF HasOpened
  <1>6. /\ c \in Nat /\ ArrayHomes(gs) \subseteq {Null} /\ c = Cardinality(Opens(gs, TRUE))
        /\ f.home = Null /\ Written(ts, c + 1)
    BY <1>2, <1>4, <1>5, TopWritten
  <1>7. PICK us : us = Append(ts, Close("elt"))
    OBVIOUS
  <1>8. Written(us, c)
    BY <1>6, <1>7, WrittenClose
  <1>9. PICK g : /\ g.kind = f.kind /\ g.pending = f.pending /\ g.home = f.home
                 /\ frames' = [frames EXCEPT ![Len(frames)] = g]
    BY <1>1, <1>2, AnotherFrame
  <1>10. ~HasOpened(g, FALSE)
    BY <1>2, <1>3, <1>9 DEF HasOpened, IsFrame
  <1>11. OutlineTop(gs, g, FALSE, us, c)
    BY <1>6, <1>8, <1>9, <1>10, WrittenTop
  <1>12. Outlined(frames', ret' # "none", out')
    BY <1>1, <1>2, <1>7, <1>9, <1>11, OutlinedGoesOn
  <1> QED
    BY <1>2, <1>12, SameOutline DEF EncodeInv

LEMMA VectorElementWrites ==
    ASSUME Kept(frames, labels, ret), EncodeInv, Encoding, VectorElement
    PROVE  EncodeInv'
  <1>1. PICK fs, type, o, m : /\ fs = frames /\ type = Top.type
                              /\ o = (IF Encoding THEN Top.obj[Top.at] ELSE Nothing) /\ m = current
    OBVIOUS
  <1>2. /\ frames # << >> /\ Top.kind # "array" /\ ret = "none"
        /\ Call(type, o, m, fs, << >>) /\ UNCHANGED treeVars
    BY <1>1 DEF VectorElement, Beginning, Within
  <1>3. IsStack(fs) /\ Outlined(fs, TRUE, out \o << >>)
    BY <1>1, <1>2, CallerOutline
  <1>4. Outlined(frames', ret' # "none", out')
    BY <1>2, <1>3, OutlinedCall
  <1> QED
    BY <1>2, <1>4, SameOutline DEF EncodeInv

LEMMA VectorElementReturnsWrites ==
    ASSUME Kept(frames, labels, ret), EncodeInv, Encoding, VectorElementReturns
    PROVE  EncodeInv'
  <1>1. PICK gs, f, b, ts, v :
          gs = Front(frames) /\ f = Top /\ b = (ret # "none") /\ ts = out /\ v = Top.obj
    OBVIOUS
  <1>2. /\ frames # << >> /\ f.kind = "vector" /\ out' = ts /\ UNCHANGED treeVars
        /\ Another \/ Return("false", v)
    BY <1>1 DEF VectorElementReturns, Returned, Within
  <1>3. IsFrame(f) /\ \E c : OutlineTop(gs, f, b, ts, c)
    BY <1>1, <1>2, AtWork
  <1>4. PICK c : OutlineTop(gs, f, b, ts, c)
    BY <1>3
  <1>5. ~HasOpened(f, b)
    BY <1>2, <1>3 DEF HasOpened, IsFrame
  <1>6. CASE Another
    <2>1. PICK g : /\ g.kind = f.kind /\ g.pending = f.pending /\ g.home = f.home
                   /\ frames' = [frames EXCEPT ![Len(frames)] = g]
      BY <1>1, <1>2, <1>6, AnotherFrame
    <2>2. ~HasOpened(g, FALSE) /\ g.kind # "array" /\ f.kind # "array"
      BY <1>2, <1>3, <2>1 DEF HasOpened, IsFrame
    <2>3. OutlineTop(gs, g, FALSE, ts, c)
      BY <1>4, <1>5, <2>2 DEF OutlineTop
    <2>4. ret' = "none"
      BY <1>6 DEF Another
    <2>5. Outlined(frames', ret' # "none", out')
      BY <1>1, <1>2, <2>1, <2>3, <2>4, OutlinedGoesOn
    <2> QED
      BY <1>2, <2>5, SameOutline DEF EncodeInv
  <1>7. CASE Return("false", v)
    <2>1. Outlined(frames', ret' # "none", out')
      BY <1>1, <1>2, <1>4, <1>5, <1>7, OutlinedReturn
    <2> QED
      BY <1>2, <2>1, SameOutline DEF EncodeInv
  <1> QED
    BY <1>2, <1>6, <1>7

LEMMA ElementsDoneWrites ==
    ASSUME Kept(frames, labels, ret), EncodeInv, Encoding, ElementsDone
    PROVE  EncodeInv'
  <1>1. PICK gs, f, ts, v : gs = Front(frames) /\ f = Top /\ ts = out /\ v = Top.obj
    OBVIOUS
  <1>2. /\ frames # << >> /\ f.kind \in {"array", "vector"} /\ ret = "none" /\ out' = ts
        /\ UNCHANGED <<node, root, depth>> /\ Return("true", v)
        /\ current' = IF f.kind = "array" THEN f.home ELSE current
    BY <1>1 DEF ElementsDone, Beginning, Within, AfterArray
  <1>3. IsFrame(f) /\ \E c : OutlineTop(gs, f, FALSE, ts, c)
    BY <1>1, <1>2, AtWork
  <1>4. PICK c : OutlineTop(gs, f, FALSE, ts, c)
    BY <1>3
  <1>5. OutlineTop(Front(frames), Top, FALSE, ts, c) /\ ~HasOpened(Top, FALSE)
    BY <1>1, <1>2, <1>3, <1>4 DEF HasOpened, IsFrame
  <1>6. Outlined(frames', ret' # "none", out')
    <2>1. "true" # "none" /\ frames # << >> /\ Return("true", v) /\ out' = ts
      BY <1>2
    <2> HIDE DEF Return, Top
    <2> QED
      BY <1>5, <2>1, OutlinedReturn
  <1>7. current' = Null
    BY <1>2, <1>4, TopWritten DEF EncodeInv, TreeInit
  <1> QED
    BY <1>2, <1>6, <1>7 DEF EncodeInv, TreeInit

\* A popped label closes its element.
LEMMA PopWrites ==
    ASSUME Kept(frames, labels, ret), EncodeInv, Encoding, frames # << >>,
           Top.kind = "filter", ret # "none", Pop
    PROVE  \E c : /\ c \in Nat /\ ArrayHomes(Front(frames)) \subseteq {Null}
                  /\ c = Cardinality(Opens(Front(frames), TRUE)) /\ Written(out', c)
                  /\ UNCHANGED treeVars
  <1>1. PICK gs, f, b, ts, name :
          gs = Front(frames) /\ f = Top /\ b = (ret # "none") /\ ts = out /\ name = labels[Len(labels)]
    OBVIOUS
  <1>2. IsFrame(f) /\ \E c : OutlineTop(gs, f, b, ts, c)
    BY <1>1, AtWork
  <1>3. PICK c : OutlineTop(gs, f, b, ts, c)
    BY <1>2
  <1>4. HasOpened(f, b)
    BY <1>1 DEF HasOpened, Kept, Calling, Top
  <1>5. /\ c \in Nat /\ ArrayHomes(gs) \subseteq {Null} /\ c = Cardinality(Opens(gs, TRUE))
        /\ Written(ts, c + 1)
    BY <1>3, <1>4, TopWritten
  <1>6. out' = Append(ts, Close(name)) /\ UNCHANGED treeVars
    BY <1>1 DEF Pop
  <1>7. Written(Append(ts, Close(name)), c)
    BY <1>5, WrittenClose
  <1> QED
    BY <1>1, <1>5, <1>6, <1>7

LEMMA FieldReturnsWrites ==
    ASSUME Kept(frames, labels, ret), EncodeInv, Encoding, FieldReturns
    PROVE  EncodeInv'
  <1>1. PICK fs, f : fs = frames /\ f = fs[Len(fs)]
    OBVIOUS
  <1>2. /\ fs # << >> /\ f.kind = "filter" /\ f = Top /\ ret = "true" /\ ret' = "none" /\ Pop
    BY <1>1 DEF FieldReturns, Returned, Within, Top
  <1>3. PICK c : /\ c \in Nat /\ ArrayHomes(Front(frames)) \subseteq {Null}
                 /\ c = Cardinality(Opens(Front(frames), TRUE)) /\ Written(out', c)
                 /\ UNCHANGED treeVars
    BY <1>1, <1>2, PopWrites
  <1>4. IsFrame(f) /\ IsStack(fs)
    BY <1>1, <1>2, TopIs DEF Kept
  <1>5. PICK o, g : /\ o = (IF Encoding THEN Top.obj ELSE (Field.name :> val) @@ Top.obj)
                    /\ g = [f EXCEPT !.at = f.at + 1, !.pending = FALSE, !.obj = o]
    OBVIOUS
  <1>6. g.kind = "filter" /\ ~g.pending
    BY <1>2, <1>4, <1>5 DEF IsFrame, FrameFields
  <1>7. frames' = [frames EXCEPT ![Len(frames)] = g]
    BY <1>1, <1>4, <1>5 DEF FieldReturns, Top, IsFrame, FrameFields, IsStack
  <1>8. ~HasOpened(g, FALSE)
    BY <1>6 DEF HasOpened
  <1>9. PICK gs, us : gs = Front(frames) /\ us = out'
    OBVIOUS
  <1>10. OutlineTop(gs, g, FALSE, us, c)
    BY <1>3, <1>6, <1>8, <1>9, WrittenTop
  <1>11. Outlined(frames', ret' # "none", out')
    BY <1>1, <1>2, <1>7, <1>9, <1>10, OutlinedGoesOn
  <1> QED
    BY <1>3, <1>11, SameOutline DEF EncodeInv

LEMMA FieldFailsWrites ==
    ASSUME Kept(frames, labels, ret), EncodeInv, Encoding, FieldFails
    PROVE  EncodeInv'
  <1>1. /\ frames # << >> /\ Top.kind = "filter" /\ ret = "false" /\ Pop
        /\ frames' = Front(frames) /\ ret' = "false"
    BY DEF FieldFails, Returned, Within, Trailer, Return
  <1>2. PICK c : /\ c \in Nat /\ ArrayHomes(Front(frames)) \subseteq {Null}
                 /\ c = Cardinality(Opens(Front(frames), TRUE)) /\ Written(out', c)
                 /\ UNCHANGED treeVars
    BY <1>1, PopWrites
  <1>3. PICK gs, us : gs = Front(frames) /\ us = out'
    OBVIOUS
  <1>4. Outlined(gs, TRUE, us)
    BY <1>2, <1>3 DEF Outlined
  <1>5. (ret' # "none") = TRUE
    BY <1>1
  <1>6. Outlined(frames', ret' # "none", out')
    BY <1>1, <1>3, <1>4, <1>5
  <1> QED
    BY <1>2, <1>6, SameOutline DEF EncodeInv

LEMMA FilterEndsWrites ==
    ASSUME EveryArm, Kept(frames, labels, ret), EncodeInv, Encoding, FilterEnds
    PROVE  EncodeInv'
  <1>1. PICK gs, f, ts : gs = Front(frames) /\ f = Top /\ ts = out
    OBVIOUS
  <1>2. /\ frames # << >> /\ f.kind = "filter" /\ ~f.pending
        /\ out' = ts /\ UNCHANGED treeVars /\ ret = "none"
        /\ \E v : Return("true", v)
    BY <1>1, FilterSucceeds DEF FilterEnds, Beginning
  <1>3. \E c : OutlineTop(gs, f, FALSE, ts, c)
    BY <1>1, <1>2, AtWork
  <1>4. ~HasOpened(f, FALSE)
    BY <1>2 DEF HasOpened
  <1>5. Outlined(frames', ret' # "none", out')
    BY <1>1, <1>2, <1>3, <1>4, OutlinedReturn
  <1> QED
    BY <1>2, <1>5, SameOutline DEF EncodeInv

LEMMA FilterWrites ==
    ASSUME EveryArm, Kept(frames, labels, ret), EncodeInv, Encoding, Filter
    PROVE  EncodeInv'
  <1>1. CASE PushField
    BY <1>1, PushFieldWrites
  <1>2. CASE CallAlias
    BY <1>2, CallAliasWrites
  <1>3. CASE CallPointer
    BY <1>3, CallPointerWrites
  <1>4. CASE PointerReturns
    BY <1>4, PointerReturnsWrites
  <1>5. CASE CallElements
    BY <1>5, CallElementsWrites
  <1>6. CASE ArrayElement
    BY <1>6, ArrayElementWrites
  <1>7. CASE ArrayElementReturns
    BY <1>7, ArrayElementReturnsWrites
  <1>8. CASE VectorElement
    BY <1>8, VectorElementWrites
  <1>9. CASE VectorElementReturns
    BY <1>9, VectorElementReturnsWrites
  <1>10. CASE ElementsDone
    BY <1>10, ElementsDoneWrites
  <1>11. CASE FieldReturns
    BY <1>11, FieldReturnsWrites
  <1>12. CASE FieldFails
    BY <1>12, FieldFailsWrites
  <1>13. CASE FilterEnds
    BY <1>13, FilterEndsWrites
  <1> QED
    BY <1>1, <1>2, <1>3, <1>4, <1>5, <1>6, <1>7, <1>8, <1>9, <1>10, <1>11, <1>12, <1>13 DEF Filter
-----------------------------------------------------------------------------
(* The document between the filter that wrote it and the one that reads it.*)

\* The parser is as deep as the tags it has still to read say.
ParseInv ==
  /\ AtDepth(node, root, current, depth)
  /\ ~foreign => /\ Unparsed(out, depth)
                 /\ depth = 0 => out = << >> \/ root = Null

LEMMA EmptyTree == TreeInit => AtDepth(node, root, current, depth)
  <1> SUFFICES ASSUME TreeInit PROVE AtDepth(node, root, current, depth)
    OBVIOUS
  <1>1. PICK heap : heap = node
    OBVIOUS
  <1>2. DOMAIN heap = {} /\ root = Null /\ current = Null /\ depth = 0
    BY <1>1 DEF TreeInit
  <1>3. Tree(heap, Null)
    BY <1>2, NoTree
  <1>4. Below(heap, Null) = 0 /\ Null \in Pointers(heap)
    BY <1>3, Depths DEF Pointers
  <1> QED
    BY <1>1, <1>2, <1>3, <1>4 DEF AtDepth

LEMMA EncodedParses ==
    ASSUME EncodeInv, Encoded, x_op' = "parse"
    PROVE  ParseInv'
  <1>1. PICK ts, o, c : ts = out /\ o = Open("root") /\ c = Close("root")
    OBVIOUS
  <1>2. /\ frames = << >> /\ ret = "true" /\ out' = <<o>> \o ts \o <<c>> /\ UNCHANGED treeVars
    BY <1>1 DEF Encoded, Encoding
  <1>3. Opens(<< >>, TRUE) = {}
    BY DEF Opens
  <1>4. Cardinality(Opens(<< >>, TRUE)) = 0
    BY <1>3, FS_EmptySet
  <1>5. Written(ts, 0)
    <2>1. Outlined(<< >>, ret # "none", ts)
      BY <1>1, <1>2 DEF EncodeInv
    <2>2. (ret # "none") = TRUE
      BY <1>2
    <2>3. Outlined(<< >>, TRUE, ts)
      BY <2>1, <2>2
    <2> QED
      BY <1>4, <2>3 DEF Outlined
  <1>6. o.tag = "open" /\ c.tag = "close"
    BY <1>1 DEF Open, Close
  <1>7. Unparsed(<<o>> \o ts \o <<c>>, 0)
    BY <1>5, <1>6, DocumentIsNested
  <1>8. AtDepth(node, root, current, depth) /\ root = Null /\ depth = 0
    BY EmptyTree DEF EncodeInv, TreeInit
  <1>9. AtDepth(node', root', current', depth') /\ root' = Null /\ depth' = 0
    BY <1>2, <1>8 DEF treeVars
  <1> QED
    BY <1>2, <1>7, <1>9 DEF ParseInv

LEMMA ParseOwnParses ==
    ASSUME ParseInv, ParseOwn
    PROVE  ParseInv'
  <1>1. PICK ts, e, d : ts = out /\ e = Head(ts) /\ d = depth + Delta(e)
    OBVIOUS
  <1>2. /\ ~foreign /\ ts # << >> /\ Parse(e) /\ out' = Tail(ts) /\ foreign' = foreign
    BY <1>1 DEF ParseOwn
  <1>3. /\ AtDepth(node, root, current, depth) /\ Unparsed(ts, depth)
        /\ depth = 0 => root = Null
    BY <1>1, <1>2 DEF ParseInv
  <1>4. /\ depth \in Nat /\ e.tag \in {"open", "close", "text"} /\ d \in Nat
        /\ Unparsed(Tail(ts), d) /\ (d = 0 => Tail(ts) = << >>)
    BY <1>1, <1>2, <1>3, UnparsedTail
  <1>5. AtDepth(node', root', current', depth') /\ depth' = d
    <2>1. CASE e.tag = "open" /\ StartElement(e.name)
      <3>1. PICK name : name = e.name
        OBVIOUS
      <3>2. AtDepth(node', root', current', depth')
        BY <1>3, <2>1, <3>1, StartElementDeeper
      <3>3. depth' = depth + 1 /\ d = depth + 1
        BY <1>1, <2>1 DEF StartElement, Delta
      <3> QED
        BY <3>2, <3>3
    <2>2. CASE e.tag = "text" /\ UNCHANGED treeVars
      <3>1. d = depth
        BY <1>1, <1>4, <2>2 DEF Delta
      <3> QED
        BY <1>3, <2>2, <3>1 DEF treeVars
    <2>3. CASE e.tag = "text" /\ CharData(e.text)
      <3>1. PICK text : text = e.text
        OBVIOUS
      <3>2. AtDepth(node', root', current', depth') /\ depth' = depth
        BY <1>3, <2>3, <3>1, CharDataStays
      <3>3. d = depth
        BY <1>1, <1>4, <2>3 DEF Delta
      <3> QED
        BY <3>2, <3>3
    <2>4. CASE e.tag = "close" /\ EndElement
      <3>1. d = depth - 1
        BY <1>1, <1>4, <2>4 DEF Delta
      <3>2. depth # 0
        BY <1>4, <3>1
      <3>3. AtDepth(node', root', current', depth') /\ depth' = depth - 1
        BY <1>3, <2>4, <3>2, EndElementHigher
      <3> QED
        BY <3>1, <3>3
    <2> QED
      BY <1>2, <1>4, <2>1, <2>2, <2>3, <2>4, ParseIs
  <1> QED
    BY <1>2, <1>4, <1>5 DEF ParseInv

LEMMA ParseForeignParses ==
    ASSUME ParseInv, ParseForeign
    PROVE  ParseInv'
  <1>1. AtDepth(node, root, current, depth) /\ foreign /\ foreign' = foreign /\ depth \in Nat
    BY DEF ParseInv, ParseForeign, AtDepth
  <1>2. AtDepth(node', root', current', depth')
    <2>1. ASSUME NEW name, StartElement(name), root = Null \/ depth > 0
          PROVE  AtDepth(node', root', current', depth')
      <3>1. depth = 0 => root = Null
        BY <2>1
      <3> QED
        BY <1>1, <2>1, <3>1, StartElementDeeper
    <2>2. ASSUME NEW s, CharData(s) PROVE AtDepth(node', root', current', depth')
      BY <1>1, <2>2, CharDataStays
    <2>3. ASSUME depth > 0, EndElement PROVE AtDepth(node', root', current', depth')
      <3>1. depth # 0
        BY <1>1, <2>3
      <3> QED
        BY <1>1, <2>3, <3>1, EndElementHigher
    <2> QED
      BY <2>1, <2>2, <2>3 DEF ParseForeign
  <1> QED
    BY <1>1, <1>2 DEF ParseInv

\* Decoding begins at the root, with no label.
LEMMA DecodePlaces ==
    ASSUME LabelInv, ParseInv, Decode
    PROVE  CursorInv'
  <1>1. PICK fs, ls, type, n, heap :
          fs = frames /\ ls = labels /\ type = main /\ n = root /\ heap = node
    OBVIOUS
  <1>2. PICK f : f = Frame("filter", type, Nothing)
    OBVIOUS
  <1>3. /\ x_op = "parse" /\ depth = 0 /\ n # Null /\ frames' = <<f>> /\ labels' = ls
        /\ UNCHANGED treeVars
    BY <1>1, <1>2 DEF Decode
  <1>4. Tree(heap, n) /\ current \in Pointers(heap) /\ Below(heap, current) = 0 /\ n \in DOMAIN heap
    BY <1>1, <1>3 DEF ParseInv, AtDepth, Tree, Shape
  <1>5. current = Null
    BY <1>4, OnlyNullIsAtTop
  <1>6. fs = << >> /\ Kept(fs, ls, "none")
    BY <1>1, <1>3 DEF LabelInv, Encoding, Decoding
  <1>7. ls = << >> /\ IsStack(<< >>)
    BY <1>6, NoneKept DEF Kept
  <1>8. /\ LeadTo(heap, << >>, n) /\ BelowArrays(heap, << >>, n) /\ ArrayHomes(<< >>) = {}
    BY <1>4, LeadToEmpty
  <1>9. InOrder(<< >>, NamesOn(heap, {}, n))
    <2>1. PICK t : t = NamesOn(heap, {}, n)
      OBVIOUS
    <2>2. DOMAIN t = {}
      BY <1>3, <1>4, <2>1, NamesOnRoot
    <2>3. InOrder(<< >>, t)
      BY <2>2, FS_EmptySet DEF InOrder
    <2> QED
      BY <2>1, <2>3
  <1>10. Placed(heap, << >>, << >>, n)
    BY <1>8, <1>9 DEF Placed
  <1>11. Leg(heap, f, n, n) /\ f.kind = "filter"
    BY <1>2, FilterLeg
  <1>12. Placed(heap, Append(<< >>, f), << >>, n)
    BY <1>4, <1>7, <1>8, <1>10, <1>11, PlacedAppend
  <1>13. Append(<< >>, f) = <<f>>
    OBVIOUS
  <1>14. Placed(heap, <<f>>, << >>, n)
    BY <1>12, <1>13
  <1>15. node' = heap /\ root' = n /\ current' = current /\ Cursor' = n
    BY <1>1, <1>3, <1>5 DEF treeVars, Cursor
  <1> QED
    BY <1>3, <1>4, <1>7, <1>14, <1>15 DEF CursorInv
-----------------------------------------------------------------------------
(* Every step.                                                             *)

(***************************************************************************)
(* The inductive invariant of a round trip: what an encoding filter has    *)
(* written is nested like its calls, so expat's handlers go as deep and as *)
(* far up as the elements are, and build a tree; a decoding filter walks   *)
(* that tree with the names of its labels.                                 *)
(***************************************************************************)
FilterInv ==
  /\ LabelInv
  /\ Encoding => EncodeInv
  /\ x_op = "parse" => ParseInv
  /\ Decoding => CursorInv

LEMMA FilterInit == Init => FilterInv
  <1> SUFFICES ASSUME Init PROVE FilterInv
    OBVIOUS
  <1>1. LabelInv
    BY LabelInit
  <1>2. ASSUME Encoding PROVE EncodeInv
    <2>1. PICK f : f = Frame("filter", main, obj)
      OBVIOUS
    <2>2. frames = <<f>> /\ out = << >> /\ ret = "none" /\ TreeInit
      BY <1>2, <2>1 DEF Init, Encoding
    <2>3. ~f.pending /\ f.kind = "filter"
      BY <2>1 DEF Frame
    <2>4. Outlined(<< >>, TRUE, << >>)
      <3>1. ArrayHomes(<< >>) = {} /\ Opens(<< >>, TRUE) = {}
        BY DEF ArrayHomes, Opens
      <3>2. Cardinality(Opens(<< >>, TRUE)) = 0
        BY <3>1, FS_EmptySet
      <3> QED
        BY <3>1, <3>2, NothingWritten DEF Outlined
    <2>5. IsStack(<< >>)
      <3>1. << >> \in Seq({})
        OBVIOUS
      <3> QED
        BY <3>1 DEF IsStack
    <2>6. Outlined(Append(<< >>, f), FALSE, << >>)
      BY <2>3, <2>4, <2>5, OutlinedBegin
    <2>7. Append(<< >>, f) = <<f>>
      OBVIOUS
    <2>8. (ret # "none") = FALSE
      BY <2>2
    <2>9. Outlined(frames, ret # "none", out)
      BY <2>2, <2>6, <2>7, <2>8
    <2> QED
      BY <2>2, <2>9 DEF EncodeInv
  <1>3. ASSUME x_op = "parse" PROVE ParseInv
    BY <1>3, EmptyTree DEF Init, ParseInv
  <1>4. ~Decoding
    BY DEF Init, Decoding
  <1> QED
    BY <1>1, <1>2, <1>3, <1>4 DEF FilterInv

LEMMA FilterNext == EveryArm /\ FilterInv /\ [Next]_vars => FilterInv'
  <1> SUFFICES ASSUME EveryArm, FilterInv, [Next]_vars PROVE FilterInv'
    OBVIOUS
  <1>1. LabelInv /\ LabelInv'
    BY LabelNext DEF FilterInv
  <1>2. CASE Filter
    <2>1. frames # << >> /\ x_op' = x_op
      BY <1>2, FilterIsAtWork
    <2>2. Kept(frames, labels, ret) /\ (Encoding \/ Decoding)
      BY <1>1, <2>1 DEF LabelInv
    <2>3. CASE Encoding
      <3>1. EncodeInv'
        BY <1>2, <2>2, <2>3, FilterWrites DEF FilterInv
      <3> QED
        BY <1>1, <2>1, <2>3, <3>1 DEF FilterInv, Encoding, Decoding
    <2>4. CASE Decoding
      <3>1. CursorInv'
        BY <1>2, <2>2, <2>4, FilterPlaces DEF FilterInv
      <3> QED
        BY <1>1, <2>1, <2>4, <3>1 DEF FilterInv, Encoding, Decoding
    <2> QED
      BY <2>2, <2>3, <2>4
  <1>3. CASE Encoded
    <2>1. Encoding /\ x_op' \in {"parse", "done"}
      BY <1>3 DEF Encoded
    <2>2. x_op' = "parse" => ParseInv'
      BY <1>3, <2>1, EncodedParses DEF FilterInv
    <2> QED
      BY <1>1, <2>1, <2>2 DEF FilterInv, Encoding, Decoding
  <1>4. CASE ParseOwn \/ ParseForeign
    <2>1. x_op = "parse" /\ x_op' = "parse"
      BY <1>4 DEF ParseOwn, ParseForeign
    <2>2. ParseInv'
      BY <1>4, <2>1, ParseOwnParses, ParseForeignParses DEF FilterInv
    <2> QED
      BY <1>1, <2>1, <2>2 DEF FilterInv, Encoding, Decoding
  <1>5. CASE Decode
    <2>1. x_op = "parse" /\ x_op' = "decode"
      BY <1>5 DEF Decode
    <2>2. CursorInv'
      BY <1>1, <1>5, <2>1, DecodePlaces DEF FilterInv
    <2> QED
      BY <1>1, <2>1, <2>2 DEF FilterInv, Encoding, Decoding
  <1>6. CASE Decoded
    <2>1. x_op' = "done"
      BY <1>6 DEF Decoded
    <2> QED
      BY <1>1, <2>1 DEF FilterInv, Encoding, Decoding
  <1>7. CASE UNCHANGED vars
    BY <1>1, <1>7 DEF FilterInv, vars, filterVars, treeVars, Encoding, Decoding, EncodeInv, TreeInit,
                      ParseInv, CursorInv, Cursor
  <1> QED
    BY <1>2, <1>3, <1>4, <1>5, <1>6, <1>7 DEF Next

LEMMA CursorAtLabels == FilterInv => CursorIsLabels
  <1> SUFFICES ASSUME FilterInv, Decoding PROVE CursorIsLabels
    BY DEF CursorIsLabels
  <1>1. Tree(node, root) /\ root # Null /\ Placed(node, frames, labels, Cursor)
    BY DEF FilterInv, CursorInv
  <1>2. PICK path, homes :
          /\ path = (IF current = Null THEN <<root>> ELSE PathTo(node, current))
          /\ homes = { frames[i].home : i \in { j \in 1..Len(frames) : frames[j].kind = "array" } }
    OBVIOUS
  <1>3. path = PathTo(node, Cursor) /\ homes = ArrayHomes(frames)
    BY <1>1, <1>2, NamesOnRoot DEF Cursor, ArrayHomes
  <1>4. InOrder(labels, NamesOn(node, homes, Cursor))
    BY <1>1, <1>3 DEF Placed
  <1>5. NamesOn(node, homes, Cursor)
          = [i \in { i \in 2..Len(path) : node[path[i]].parent \notin homes } |-> node[path[i]].name]
    BY <1>3 DEF NamesOn, PlacesOn
  <1> QED
    BY <1>2, <1>4, <1>5 DEF CursorIsLabels

(***************************************************************************)
(* What the filters write is well formed, so the handlers of expat         *)
(* (xdrxml_start_element, xdr_xml.c:147, and xdrxml_end_element, :161)     *)
(* never leave the tree they build, and a decoding filter walks that tree  *)
(* with its labels: for every .x file whose unions have a default arm,     *)
(* every object and every document.                                        *)
(***************************************************************************)
THEOREM FilterInvariance == EveryArm /\ Spec => []FilterInv
  <1>1. EveryArm /\ [Next]_vars => EveryArm'
    BY DEF EveryArm
  <1> QED
    BY <1>1, FilterInit, FilterNext, PTL DEF Spec

(***************************************************************************)
(* While a message is decoded the cursor is at the element the labels      *)
(* name, whatever the document lacks, repeats or puts elsewhere            *)
(* (xdrxml_label, xdr_xml.c:523; the elements of arrays at xdr_xml.c:484). *)
(***************************************************************************)
THEOREM CursorFollowsLabels == EveryArm /\ Spec => []CursorIsLabels
  BY FilterInvariance, CursorAtLabels, PTL
=============================================================================
