------------------------------ MODULE XdrRec_proofs ------------------------------
(***************************************************************************)
(* Theorems about xdr_rec.c, for every unit, buffer size, caller and       *)
(* failure, in three parts. In front, lemmas about the reference reading   *)
(* of a stream (XdrRecWire): counting in it, its prefixes, and what a      *)
(* fragment appended to it changes. Then the ENCODE half: its fingers, and *)
(* what it puts on the wire, the caller's records while writeit does not   *)
(* fail, and nothing lost from the buffer when it does. Last the reader    *)
(* and the two halves together: what the reader holds is typed, in bounds, *)
(* aligned, and the next part of the stream; it is where it thinks it is   *)
(* among the fragments, so that it never reads across the end of a record; *)
(* and the two streams with the connection between them are a pipe of      *)
(* records.                                                                *)
(***************************************************************************)
EXTENDS XdrRec, FiniteSetTheorems, SequenceTheorems, TLAPS

USE UnitAssumption DEF UnitAssumption
-----------------------------------------------------------------------------
(* Counting payload.                                                       *)

LEMMA PayloadIsFinite ==
  ASSUME NEW s, NEW p \in Nat
  PROVE  IsFiniteSet({j \in 1..p : IsPayload(s[j])})
<1>1. IsFiniteSet(1..p)
  BY FS_Interval
<1>2. {j \in 1..p : IsPayload(s[j])} \in SUBSET (1..p)
  OBVIOUS
<1> QED BY <1>1, <1>2, FS_Subset

LEMMA PayloadCountType ==
  ASSUME NEW s, NEW p \in Nat
  PROVE  PayloadCount(s, p) \in Nat
BY PayloadIsFinite, FS_CardinalityType DEF PayloadCount

LEMMA PayloadCountZero == \A s : PayloadCount(s, 0) = 0
<1>1. ASSUME NEW s PROVE {j \in 1..0 : IsPayload(s[j])} = {}
  OBVIOUS
<1> QED BY <1>1, FS_EmptySet DEF PayloadCount

\* The count looks at no more than the first p bytes.
LEMMA PayloadCountSame ==
  ASSUME NEW s, NEW t, NEW p \in Nat, \A j \in 1..p : s[j] = t[j]
  PROVE  PayloadCount(s, p) = PayloadCount(t, p)
<1>1. {j \in 1..p : IsPayload(s[j])} = {j \in 1..p : IsPayload(t[j])}
  OBVIOUS
<1> QED BY <1>1 DEF PayloadCount

\* Over a run of payload it grows with the position.
LEMMA PayloadCountRun ==
  ASSUME NEW s, NEW p \in Nat, NEW n \in Nat,
         \A j \in (p + 1)..(p + n) : IsPayload(s[j])
  PROVE  PayloadCount(s, p + n) = PayloadCount(s, p) + n
<1> DEFINE S == {j \in 1..p : IsPayload(s[j])}
           T == (p + 1)..(p + n)
<1>1. IsFiniteSet(S) /\ Cardinality(S) \in Nat
  BY PayloadIsFinite, FS_CardinalityType
<1>2. IsFiniteSet(T) /\ Cardinality(T) = n
  BY FS_Interval
<1>3. S \cap T = {}
  OBVIOUS
<1>4. Cardinality(S \cap T) = 0
  BY <1>3, FS_EmptySet
<1>5. {j \in 1..(p + n) : IsPayload(s[j])} = S \cup T
  OBVIOUS
<1> HIDE DEF S, T
<1>6. Cardinality(S \cup T) = Cardinality(S) + Cardinality(T) - Cardinality(S \cap T)
  BY <1>1, <1>2, FS_Union
<1> QED BY <1>1, <1>2, <1>4, <1>5, <1>6 DEF PayloadCount, S

\* Over a header it does not.
LEMMA PayloadCountSkip ==
  ASSUME NEW s, NEW p \in Nat, NEW q \in Nat, p <= q,
         \A j \in (p + 1)..q : ~IsPayload(s[j])
  PROVE  PayloadCount(s, q) = PayloadCount(s, p)
<1>1. {j \in 1..q : IsPayload(s[j])} = {j \in 1..p : IsPayload(s[j])}
  OBVIOUS
<1> QED BY <1>1 DEF PayloadCount

LEMMA PayloadCountMonotone ==
  ASSUME NEW s, NEW p \in Nat, NEW q \in Nat, p <= q
  PROVE  PayloadCount(s, p) <= PayloadCount(s, q)
<1>1. {j \in 1..p : IsPayload(s[j])} \in SUBSET {j \in 1..q : IsPayload(s[j])}
  OBVIOUS
<1> QED BY <1>1, PayloadIsFinite, FS_Subset DEF PayloadCount
-----------------------------------------------------------------------------
(* Heads and fragments.                                                    *)

LEMMA HeadFacts ==
  ASSUME NEW s \in Seq(Cell), NEW i \in Heads(s)
  PROVE  /\ i \in 1..Len(s) /\ i \in Nat
         /\ s[i].last \in BOOLEAN /\ s[i].len \in Nat
         /\ FragmentEnd(s, i) \in Nat
         /\ i + Unit - 1 <= FragmentEnd(s, i)
         /\ i <= FragmentEnd(s, i)
         /\ FragmentEnd(s, i) = i + Unit - 1 + s[i].len
         /\ s[i] = HeaderByte(s[i].last, s[i].len, 1)
<1>1. i \in 1..Len(s) /\ s[i].kind = "header" /\ s[i].at = 1
  BY DEF Heads
<1>2. s[i] \in Cell
  BY <1>1
<1>3. s[i] \in [kind : {"header"}, last : BOOLEAN, len : Nat, at : 1..Unit]
  BY <1>1, <1>2 DEF Cell
<1>4. s[i].last \in BOOLEAN /\ s[i].len \in Nat
  BY <1>3
<1>5. s[i] = HeaderByte(s[i].last, s[i].len, 1)
  BY <1>1, <1>3 DEF HeaderByte
<1> QED BY <1>1, <1>4, <1>5 DEF FragmentEnd

\* A fragment ends before the next begins.
LEMMA HeadsAreApart ==
  ASSUME NEW s \in Seq(Cell), Framed(s),
         NEW i \in Heads(s), NEW j \in Heads(s), i < j
  PROVE  FragmentEnd(s, i) < j
<1>1. j \in 1..Len(s) /\ s[j].kind = "header" /\ s[j].at = 1
  BY DEF Heads
<1>2. i \in Nat /\ FragmentEnd(s, i) \in Nat
  BY HeadFacts
<1>3. j \notin i..(i + Unit - 1)
  <2>1. SUFFICES ASSUME j \in i..(i + Unit - 1) PROVE FALSE
    OBVIOUS
  <2>2. s[j] = HeaderByte(s[i].last, s[i].len, j - i + 1)
    BY <1>1, <2>1 DEF Framed
  <2>3. s[j].at = j - i + 1
    BY <2>2 DEF HeaderByte
  <2> QED BY <1>1, <1>2, <2>3
<1>4. j \notin (i + Unit)..FragmentEnd(s, i)
  BY <1>1 DEF Framed, IsPayload
<1> QED BY <1>1, <1>2, <1>3, <1>4

LEMMA RecordsAreFinite ==
  ASSUME NEW s \in Seq(Cell), NEW p \in Nat
  PROVE  IsFiniteSet({i \in Heads(s) : s[i].last /\ FragmentEnd(s, i) <= p})
<1>1. IsFiniteSet(1..Len(s))
  BY FS_Interval
<1>2. {i \in Heads(s) : s[i].last /\ FragmentEnd(s, i) <= p} \in SUBSET (1..Len(s))
  BY DEF Heads
<1> QED BY <1>1, <1>2, FS_Subset

LEMMA RecordsType ==
  ASSUME NEW s \in Seq(Cell), NEW p \in Nat
  PROVE  Records(s, p) \in Nat
BY RecordsAreFinite, FS_CardinalityType DEF Records

\* No record ends where no last fragment does.
LEMMA RecordsSkip ==
  ASSUME NEW s \in Seq(Cell), NEW p \in Nat, NEW q \in Nat, p <= q,
         \A i \in Heads(s) : s[i].last => FragmentEnd(s, i) <= p \/ FragmentEnd(s, i) > q
  PROVE  Records(s, q) = Records(s, p)
<1>1. \A i \in Heads(s) : FragmentEnd(s, i) \in Nat
  BY HeadFacts
<1>2. {i \in Heads(s) : s[i].last /\ FragmentEnd(s, i) <= q}
        = {i \in Heads(s) : s[i].last /\ FragmentEnd(s, i) <= p}
  BY <1>1
<1> QED BY <1>2 DEF Records

\* One record ends at the end of a last fragment.
LEMMA RecordsOne ==
  ASSUME NEW s \in Seq(Cell), NEW p \in Nat, NEW q \in Nat,
         NEW h \in Heads(s), s[h].last, p < FragmentEnd(s, h), FragmentEnd(s, h) <= q,
         \A i \in Heads(s) \ {h} :
           s[i].last => FragmentEnd(s, i) <= p \/ FragmentEnd(s, i) > q
  PROVE  Records(s, q) = Records(s, p) + 1
<1> DEFINE S == {i \in Heads(s) : s[i].last /\ FragmentEnd(s, i) <= p}
<1>1. \A i \in Heads(s) : FragmentEnd(s, i) \in Nat
  BY HeadFacts
<1>2. {i \in Heads(s) : s[i].last /\ FragmentEnd(s, i) <= q} = S \cup {h}
  BY <1>1
<1>3. h \notin S
  BY <1>1
<1>4. IsFiniteSet(S)
  BY RecordsAreFinite
<1> HIDE DEF S
<1>5. Cardinality(S \cup {h}) = Cardinality(S) + 1
  BY <1>3, <1>4, FS_AddElement
<1> QED BY <1>2, <1>5 DEF Records, S
-----------------------------------------------------------------------------
(* Prefixes.  Whatever of a good stream has arrived reads the same.        *)

Begins(s, t) == Len(s) <= Len(t) /\ \A i \in 1..Len(s) : s[i] = t[i]

LEMMA PrefixAt ==
  ASSUME NEW s \in Seq(Cell), NEW t \in Seq(Cell), Begins(s, t), NEW i \in 1..Len(s)
  PROVE  i \in 1..Len(t) /\ t[i] = s[i]
BY DEF Begins

LEMMA PrefixHeads ==
  ASSUME NEW s \in Seq(Cell), NEW t \in Seq(Cell), Begins(s, t)
  PROVE  /\ \A i : i \in Heads(s) <=> i \in Heads(t) /\ i \in 1..Len(s)
         /\ \A i \in Heads(s) : s[i] = t[i] /\ FragmentEnd(s, i) = FragmentEnd(t, i)
<1>1. Len(s) \in Nat /\ Len(t) \in Nat
  OBVIOUS
<1>2. \A i : i \in Heads(s) <=> i \in Heads(t) /\ i \in 1..Len(s)
  BY <1>1 DEF Begins, Heads
<1>3. \A i \in Heads(s) : s[i] = t[i]
  BY DEF Begins, Heads
<1> QED BY <1>2, <1>3 DEF FragmentEnd

LEMMA PrefixFramed ==
  ASSUME NEW s \in Seq(Cell), NEW t \in Seq(Cell), Begins(s, t), Framed(t)
  PROVE  Framed(s)
<1>1. Len(s) \in Nat /\ Len(t) \in Nat /\ (\A j \in 1..Len(s) : j \in 1..Len(t) /\ s[j] = t[j])
  BY DEF Begins
<1>2. s # << >> => 1 \in Heads(s)
  <2>1. SUFFICES ASSUME s # << >> PROVE 1 \in Heads(s)
    OBVIOUS
  <2>2. Len(s) > 0 /\ Len(t) > 0
    BY <1>1, <2>1, EmptySeq DEF Begins
  <2>3. 1 \in Heads(t)
    BY <2>2 DEF Framed
  <2> QED BY <2>2, <2>3, PrefixHeads
<1>3. ASSUME NEW i \in Heads(s), NEW j \in 1..Len(s)
      PROVE  /\ j \in i..(i + Unit - 1) => s[j] = HeaderByte(s[i].last, s[i].len, j - i + 1)
             /\ j \in (i + Unit)..FragmentEnd(s, i) => IsPayload(s[j])
             /\ j = FragmentEnd(s, i) + 1 => j \in Heads(s)
  <2>1. i \in Heads(t) /\ s[i] = t[i] /\ FragmentEnd(s, i) = FragmentEnd(t, i)
    BY PrefixHeads
  <2>2. j \in 1..Len(t) /\ s[j] = t[j]
    BY <1>1
  <2>3. /\ j \in i..(i + Unit - 1) => t[j] = HeaderByte(t[i].last, t[i].len, j - i + 1)
        /\ j \in (i + Unit)..FragmentEnd(t, i) => IsPayload(t[j])
        /\ j = FragmentEnd(t, i) + 1 => j \in Heads(t)
    BY <2>1, <2>2 DEF Framed
  <2>4. j \in Heads(t) => j \in Heads(s)
    BY PrefixHeads
  <2> HIDE DEF Begins
  <2> QED BY <2>1, <2>2, <2>3, <2>4
<1> QED BY <1>2, <1>3 DEF Framed

LEMMA PrefixNumbered ==
  ASSUME NEW s \in Seq(Cell), NEW t \in Seq(Cell), Begins(s, t), NEW base,
         NumberedFrom(t, base)
  PROVE  NumberedFrom(s, base)
<1> SUFFICES ASSUME NEW i \in 1..Len(s), IsPayload(s[i])
             PROVE  s[i] = Payload(base + PayloadCount(s, i))
  BY DEF NumberedFrom
<1>1. i \in Nat /\ i \in 1..Len(t) /\ s[i] = t[i] /\ \A j \in 1..i : s[j] = t[j]
  BY DEF Begins
<1>2. PayloadCount(s, i) = PayloadCount(t, i)
  BY <1>1, PayloadCountSame
<1> QED BY <1>1, <1>2 DEF NumberedFrom

LEMMA PrefixRecords ==
  ASSUME NEW s \in Seq(Cell), NEW t \in Seq(Cell), Begins(s, t), NEW p \in Nat, p <= Len(s)
  PROVE  Records(s, p) = Records(t, p)
<1>1. \A i \in Heads(t) : i \in 1..Len(t) /\ i <= FragmentEnd(t, i) /\ FragmentEnd(t, i) \in Nat
  BY HeadFacts
<1>2. \A i \in Heads(t) : FragmentEnd(t, i) <= p => i \in Heads(s)
  BY <1>1, PrefixHeads
<1>3. {i \in Heads(s) : s[i].last /\ FragmentEnd(s, i) <= p}
        = {i \in Heads(t) : t[i].last /\ FragmentEnd(t, i) <= p}
  BY <1>2, PrefixHeads
<1> QED BY <1>3 DEF Records
-----------------------------------------------------------------------------
(***************************************************************************)
(* RecordsFit(s, es): what RecordsEndAt says of a whole stream, in a form  *)
(* that every prefix of it keeps: where a record of s ends is what es says *)
(* of it, and no byte of a record es knows of lies behind its end.         *)
(***************************************************************************)
RecordsFit(s, es) ==
  /\ \A i \in Heads(s) :
       s[i].last /\ FragmentEnd(s, i) <= Len(s) =>
         /\ Records(s, FragmentEnd(s, i)) <= Len(es)
         /\ es[Records(s, FragmentEnd(s, i))] = PayloadCount(s, FragmentEnd(s, i))
  /\ \A p \in 0..Len(s) :
       Records(s, p) < Len(es) => PayloadCount(s, p) <= es[Records(s, p) + 1]

LEMMA PrefixFits ==
  ASSUME NEW s \in Seq(Cell), NEW t \in Seq(Cell), Begins(s, t),
         NEW es \in Seq(Nat), RecordsFit(t, es)
  PROVE  RecordsFit(s, es)
<1>1. Len(s) \in Nat /\ Len(t) \in Nat /\ Len(s) <= Len(t)
  BY DEF Begins
<1>2. ASSUME NEW p \in Nat, p <= Len(s)
      PROVE  Records(s, p) = Records(t, p) /\ PayloadCount(s, p) = PayloadCount(t, p)
  <2>1. \A j \in 1..p : s[j] = t[j]
    BY <1>1, <1>2 DEF Begins
  <2> QED BY <1>2, <2>1, PrefixRecords, PayloadCountSame
<1>3. ASSUME NEW i \in Heads(s), s[i].last, FragmentEnd(s, i) <= Len(s)
      PROVE  /\ Records(s, FragmentEnd(s, i)) <= Len(es)
             /\ es[Records(s, FragmentEnd(s, i))] = PayloadCount(s, FragmentEnd(s, i))
  <2>1. i \in Heads(t) /\ t[i].last /\ FragmentEnd(t, i) = FragmentEnd(s, i)
    BY <1>3, PrefixHeads
  <2>2. FragmentEnd(s, i) \in Nat
    BY HeadFacts
  <2>3. FragmentEnd(t, i) <= Len(t)
    BY <1>1, <1>3, <2>1, <2>2
  <2> QED BY <1>2, <1>3, <2>1, <2>2, <2>3 DEF RecordsFit
<1>4. ASSUME NEW p \in 0..Len(s), Records(s, p) < Len(es)
      PROVE  PayloadCount(s, p) <= es[Records(s, p) + 1]
  BY <1>1, <1>2, <1>4 DEF RecordsFit
<1> QED BY <1>3, <1>4 DEF RecordsFit
-----------------------------------------------------------------------------
(* One more fragment behind a whole stream.                                *)

AppendsFragment(s, t, last, n) ==
  /\ Begins(s, t)
  /\ Len(t) = Len(s) + Unit + n
  /\ \A j \in 1..Unit : t[Len(s) + j] = HeaderByte(last, n, j)
  /\ \A j \in 1..n : IsPayload(t[Len(s) + Unit + j])

LEMMA AppendHeads ==
  ASSUME NEW s \in Seq(Cell), NEW t \in Seq(Cell), NEW last, NEW n \in Nat,
         Whole(s), AppendsFragment(s, t, last, n)
  PROVE  /\ Len(s) + 1 \in Heads(t)
         /\ t[Len(s) + 1] = HeaderByte(last, n, 1)
         /\ FragmentEnd(t, Len(s) + 1) = Len(t)
         /\ \A i \in Heads(t) : i # Len(s) + 1 =>
              /\ i \in Heads(s) /\ i \in 1..Len(s)
              /\ s[i] = t[i]
              /\ FragmentEnd(t, i) = FragmentEnd(s, i)
              /\ FragmentEnd(t, i) <= Len(s)
<1>1. Len(s) \in Nat /\ Len(t) = Len(s) + Unit + n /\ Begins(s, t)
  BY DEF AppendsFragment
<1>2. t[Len(s) + 1] = HeaderByte(last, n, 1)
  BY DEF AppendsFragment
<1>3. Len(s) + 1 \in Heads(t)
  BY <1>1, <1>2 DEF Heads, HeaderByte
<1>4. FragmentEnd(t, Len(s) + 1) = Len(t)
  BY <1>1, <1>2 DEF FragmentEnd, HeaderByte
<1>5. ASSUME NEW i \in Heads(t), i # Len(s) + 1
      PROVE  i \in 1..Len(s)
  <2>1. i \in 1..Len(t) /\ t[i].kind = "header" /\ t[i].at = 1
    BY DEF Heads
  <2>2. i \notin (Len(s) + 2)..(Len(s) + Unit)
    <3>1. SUFFICES ASSUME i \in (Len(s) + 2)..(Len(s) + Unit) PROVE FALSE
      OBVIOUS
    <3>2. t[Len(s) + (i - Len(s))] = HeaderByte(last, n, i - Len(s))
      BY <1>1, <3>1 DEF AppendsFragment
    <3>3. t[i].at = i - Len(s)
      BY <1>1, <3>1, <3>2 DEF HeaderByte
    <3> QED BY <1>1, <2>1, <3>1, <3>3
  <2>3. i \notin (Len(s) + Unit + 1)..(Len(s) + Unit + n)
    <3>1. SUFFICES ASSUME i \in (Len(s) + Unit + 1)..(Len(s) + Unit + n) PROVE FALSE
      OBVIOUS
    <3>2. i - Len(s) - Unit \in 1..n /\ i = Len(s) + Unit + (i - Len(s) - Unit)
      BY <1>1, <3>1
    <3>3. IsPayload(t[i])
      BY <3>2 DEF AppendsFragment
    <3> QED BY <2>1, <3>3 DEF IsPayload
  <2> QED BY <1>1, <1>5, <2>1, <2>2, <2>3
<1>6. ASSUME NEW i \in Heads(t), i # Len(s) + 1
      PROVE  /\ i \in Heads(s) /\ i \in 1..Len(s)
             /\ s[i] = t[i]
             /\ FragmentEnd(t, i) = FragmentEnd(s, i)
             /\ FragmentEnd(t, i) <= Len(s)
  <2>1. i \in 1..Len(s)
    BY <1>5, <1>6
  <2>2. i \in Heads(s)
    BY <1>1, <2>1, PrefixHeads
  <2>3. s[i] = t[i] /\ FragmentEnd(t, i) = FragmentEnd(s, i)
    BY <1>1, <2>2, PrefixHeads
  <2>4. FragmentEnd(s, i) <= Len(s)
    BY <2>2 DEF Whole
  <2> QED BY <2>1, <2>2, <2>3, <2>4
<1> QED BY <1>2, <1>3, <1>4, <1>6

LEMMA AppendWhole ==
  ASSUME NEW s \in Seq(Cell), NEW t \in Seq(Cell), NEW last, NEW n \in Nat,
         Whole(s), AppendsFragment(s, t, last, n)
  PROVE  Whole(t)
<1>1. Len(s) \in Nat /\ Len(t) = Len(s) + Unit + n /\ Begins(s, t)
  BY DEF AppendsFragment
<1>2. /\ Len(s) + 1 \in Heads(t)
      /\ t[Len(s) + 1] = HeaderByte(last, n, 1)
      /\ FragmentEnd(t, Len(s) + 1) = Len(t)
      /\ \A i \in Heads(t) : i # Len(s) + 1 =>
           /\ i \in Heads(s) /\ i \in 1..Len(s)
           /\ s[i] = t[i]
           /\ FragmentEnd(t, i) = FragmentEnd(s, i)
           /\ FragmentEnd(t, i) <= Len(s)
  BY AppendHeads
<1>3. 1 \in Heads(t)
  <2>1. CASE Len(s) = 0 BY <1>2, <2>1
  <2>2. CASE Len(s) > 0
    <3>1. 1 \in Heads(s) BY <2>2 DEF Whole, Framed
    <3> QED BY <1>1, <3>1, PrefixHeads
  <2> QED BY <1>1, <2>1, <2>2
<1>4. ASSUME NEW i \in Heads(t) PROVE FragmentEnd(t, i) <= Len(t)
  <2>1. Len(t) \in Nat /\ Len(s) <= Len(t)
    BY <1>1
  <2>2. FragmentEnd(t, i) \in Nat
    BY HeadFacts
  <2>3. FragmentEnd(t, i) = Len(t) \/ FragmentEnd(t, i) <= Len(s)
    BY <1>2
  <2> QED BY <1>1, <2>1, <2>2, <2>3
<1>5. ASSUME NEW i \in Heads(t), NEW j \in 1..Len(t)
      PROVE  /\ j \in i..(i + Unit - 1) => t[j] = HeaderByte(t[i].last, t[i].len, j - i + 1)
             /\ j \in (i + Unit)..FragmentEnd(t, i) => IsPayload(t[j])
             /\ j = FragmentEnd(t, i) + 1 => j \in Heads(t)
  <2>1. CASE i = Len(s) + 1
    <3>1. t[i].last = last /\ t[i].len = n /\ FragmentEnd(t, i) = Len(t)
      BY <1>2, <2>1 DEF HeaderByte
    <3>2. ASSUME j \in i..(i + Unit - 1)
          PROVE  t[j] = HeaderByte(last, n, j - i + 1)
      <4>1. j - i + 1 \in 1..Unit /\ j = Len(s) + (j - i + 1)
        BY <1>1, <2>1, <3>2
      <4> QED BY <4>1 DEF AppendsFragment
    <3>3. ASSUME j \in (i + Unit)..FragmentEnd(t, i) PROVE IsPayload(t[j])
      <4>1. j - i - Unit + 1 \in 1..n /\ j = Len(s) + Unit + (j - i - Unit + 1)
        BY <1>1, <2>1, <3>1, <3>3
      <4> QED BY <4>1 DEF AppendsFragment
    <3> QED BY <1>1, <3>1, <3>2, <3>3
  <2>2. CASE i # Len(s) + 1
    <3>1. /\ i \in Heads(s) /\ s[i] = t[i]
          /\ FragmentEnd(t, i) = FragmentEnd(s, i)
          /\ FragmentEnd(t, i) <= Len(s) /\ i + Unit - 1 <= FragmentEnd(s, i)
          /\ i \in Nat /\ FragmentEnd(s, i) \in Nat
      BY <1>2, <2>2, HeadFacts
    <3>2. CASE j \in 1..Len(s)
      <4>1. /\ j \in i..(i + Unit - 1) => s[j] = HeaderByte(s[i].last, s[i].len, j - i + 1)
            /\ j \in (i + Unit)..FragmentEnd(s, i) => IsPayload(s[j])
            /\ j = FragmentEnd(s, i) + 1 => j \in Heads(s)
        BY <3>1, <3>2 DEF Whole, Framed
      <4>2. s[j] = t[j] /\ (j \in Heads(s) => j \in Heads(t))
        BY <1>1, <3>2, PrefixHeads DEF Begins
      <4> QED BY <3>1, <4>1, <4>2
    <3>3. CASE j \notin 1..Len(s)
      BY <1>1, <1>2, <3>1, <3>3
    <3> QED BY <3>2, <3>3
  <2> QED BY <2>1, <2>2
<1> QED BY <1>3, <1>4, <1>5 DEF Whole, Framed

LEMMA AppendCount ==
  ASSUME NEW s \in Seq(Cell), NEW t \in Seq(Cell), NEW last, NEW n \in Nat,
         AppendsFragment(s, t, last, n)
  PROVE  /\ \A p \in 0..Len(s) : PayloadCount(t, p) = PayloadCount(s, p)
         /\ \A j \in 0..n :
              PayloadCount(t, Len(s) + Unit + j) = PayloadCount(s, Len(s)) + j
         /\ PayloadCount(t, Len(t)) = PayloadCount(s, Len(s)) + n
<1>1. Len(s) \in Nat /\ Len(t) = Len(s) + Unit + n
  BY DEF AppendsFragment
<1>2. ASSUME NEW p \in 0..Len(s) PROVE PayloadCount(t, p) = PayloadCount(s, p)
  <2>1. p \in Nat /\ \A j \in 1..p : j \in 1..Len(s)
    BY <1>1
  <2>2. \A j \in 1..p : t[j] = s[j]
    BY <2>1 DEF AppendsFragment, Begins
  <2> QED BY <2>1, <2>2, PayloadCountSame
<1>3. PayloadCount(t, Len(s) + Unit) = PayloadCount(t, Len(s))
  <2>1. ASSUME NEW j \in (Len(s) + 1)..(Len(s) + Unit) PROVE ~IsPayload(t[j])
    <3>1. j - Len(s) \in 1..Unit /\ j = Len(s) + (j - Len(s))
      BY <1>1
    <3>2. t[j] = HeaderByte(last, n, j - Len(s))
      BY <3>1 DEF AppendsFragment
    <3> QED BY <3>2 DEF HeaderByte, IsPayload
  <2>2. Len(s) \in Nat /\ Len(s) + Unit \in Nat /\ Len(s) <= Len(s) + Unit
    BY <1>1
  <2> QED BY <2>1, <2>2, PayloadCountSkip
<1>4. ASSUME NEW j \in 0..n
      PROVE  PayloadCount(t, Len(s) + Unit + j) = PayloadCount(s, Len(s)) + j
  <2>1. ASSUME NEW i \in (Len(s) + Unit + 1)..(Len(s) + Unit + j) PROVE IsPayload(t[i])
    <3>1. i - Len(s) - Unit \in 1..n /\ i = Len(s) + Unit + (i - Len(s) - Unit)
      BY <1>1
    <3> QED BY <3>1 DEF AppendsFragment
  <2>2. Len(s) + Unit \in Nat /\ j \in Nat
    BY <1>1
  <2>3. PayloadCount(t, Len(s) + Unit + j) = PayloadCount(t, Len(s) + Unit) + j
    BY <2>1, <2>2, PayloadCountRun
  <2>4. Len(s) \in 0..Len(s)
    BY <1>1
  <2> QED BY <1>2, <1>3, <2>3, <2>4
<1> QED BY <1>1, <1>2, <1>4

LEMMA AppendNumbered ==
  ASSUME NEW s \in Seq(Cell), NEW t \in Seq(Cell), NEW last, NEW n \in Nat,
         AppendsFragment(s, t, last, n), NEW base \in Int, NumberedFrom(s, base),
         \A j \in 1..n : t[Len(s) + Unit + j] = Payload(base + PayloadCount(s, Len(s)) + j)
  PROVE  NumberedFrom(t, base)
<1> SUFFICES ASSUME NEW i \in 1..Len(t), IsPayload(t[i])
             PROVE  t[i] = Payload(base + PayloadCount(t, i))
  BY DEF NumberedFrom
<1>1. Len(s) \in Nat /\ Len(t) = Len(s) + Unit + n /\ PayloadCount(s, Len(s)) \in Nat
  BY PayloadCountType DEF AppendsFragment
<1>2. CASE i <= Len(s)
  <2>1. i \in 1..Len(s) /\ i \in 0..Len(s) /\ t[i] = s[i]
    BY <1>1, <1>2 DEF AppendsFragment, Begins
  <2>2. PayloadCount(t, i) = PayloadCount(s, i)
    BY <2>1, AppendCount
  <2> QED BY <2>1, <2>2 DEF NumberedFrom
<1>3. CASE i > Len(s) /\ i <= Len(s) + Unit
  <2>1. i - Len(s) \in 1..Unit /\ i = Len(s) + (i - Len(s))
    BY <1>1, <1>3
  <2>2. t[i] = HeaderByte(last, n, i - Len(s))
    BY <2>1 DEF AppendsFragment
  <2> QED BY <2>2 DEF HeaderByte, IsPayload
<1>4. CASE i > Len(s) + Unit
  <2> DEFINE j == i - Len(s) - Unit
  <2>1. j \in 1..n /\ j \in 0..n /\ i = Len(s) + Unit + j
    BY <1>1, <1>4
  <2> HIDE DEF j
  <2>2. PayloadCount(t, i) = PayloadCount(s, Len(s)) + j
    BY <2>1, AppendCount
  <2>3. t[i] = Payload(base + PayloadCount(s, Len(s)) + j)
    BY <2>1
  <2>4. base + PayloadCount(s, Len(s)) + j = base + PayloadCount(t, i)
    BY <1>1, <2>1, <2>2
  <2> QED BY <2>3, <2>4
<1> QED BY <1>1, <1>2, <1>3, <1>4

LEMMA AppendRecords ==
  ASSUME NEW s \in Seq(Cell), NEW t \in Seq(Cell), NEW last, NEW n \in Nat,
         Whole(s), AppendsFragment(s, t, last, n)
  PROVE  /\ \A p \in 0..Len(s) : Records(t, p) = Records(s, p)
         /\ \A p \in Len(s)..(Len(t) - 1) : Records(t, p) = Records(s, Len(s))
         /\ ~last => Records(t, Len(t)) = Records(s, Len(s))
         /\ last => Records(t, Len(t)) = Records(s, Len(s)) + 1
<1>1. Len(s) \in Nat /\ Len(t) \in Nat /\ Len(t) = Len(s) + Unit + n /\ Begins(s, t)
  BY DEF AppendsFragment
<1>2. /\ Len(s) + 1 \in Heads(t)
      /\ t[Len(s) + 1].last = last
      /\ FragmentEnd(t, Len(s) + 1) = Len(t)
      /\ \A i \in Heads(t) : i # Len(s) + 1 => FragmentEnd(t, i) <= Len(s)
  <2>1. t[Len(s) + 1] = HeaderByte(last, n, 1)
    BY AppendHeads
  <2>2. t[Len(s) + 1].last = last
    BY <2>1 DEF HeaderByte
  <2> QED BY <2>2, AppendHeads
<1>3. ASSUME NEW p \in 0..Len(s) PROVE Records(t, p) = Records(s, p)
  BY <1>1, PrefixRecords
<1>4. Records(t, Len(s)) = Records(s, Len(s))
  BY <1>1, <1>3
<1>5. ASSUME NEW p \in Len(s)..(Len(t) - 1) PROVE Records(t, p) = Records(s, Len(s))
  <2>1. p \in Nat /\ Len(s) <= p /\ Len(t) > p
    BY <1>1
  <2>2. \A i \in Heads(t) : FragmentEnd(t, i) <= Len(s) \/ FragmentEnd(t, i) > p
    BY <1>2, <2>1
  <2>3. Records(t, p) = Records(t, Len(s))
    BY <1>1, <2>1, <2>2, RecordsSkip
  <2> QED BY <1>4, <2>3
<1>6. ASSUME ~last PROVE Records(t, Len(t)) = Records(s, Len(s))
  <2>1. \A i \in Heads(t) :
          t[i].last => FragmentEnd(t, i) <= Len(s) \/ FragmentEnd(t, i) > Len(t)
    BY <1>2, <1>6
  <2>2. Len(s) <= Len(t)
    BY <1>1
  <2>3. Records(t, Len(t)) = Records(t, Len(s))
    BY <1>1, <2>1, <2>2, RecordsSkip
  <2> QED BY <1>4, <2>3
<1>7. ASSUME last PROVE Records(t, Len(t)) = Records(s, Len(s)) + 1
  <2>1. t[Len(s) + 1].last /\ Len(s) < FragmentEnd(t, Len(s) + 1)
    BY <1>1, <1>2, <1>7
  <2>2. FragmentEnd(t, Len(s) + 1) <= Len(t)
    BY <1>1, <1>2
  <2>3. \A i \in Heads(t) \ {Len(s) + 1} :
          t[i].last => FragmentEnd(t, i) <= Len(s) \/ FragmentEnd(t, i) > Len(t)
    BY <1>2
  <2>4. Records(t, Len(t)) = Records(t, Len(s)) + 1
    BY <1>1, <1>2, <2>1, <2>2, <2>3, RecordsOne
  <2> QED BY <1>4, <2>4
<1> QED BY <1>3, <1>5, <1>6, <1>7

LEMMA RecordsMonotone ==
  ASSUME NEW s \in Seq(Cell), NEW p \in Nat, NEW q \in Nat, p <= q
  PROVE  Records(s, p) <= Records(s, q)
<1>1. \A i \in Heads(s) : FragmentEnd(s, i) \in Nat
  BY HeadFacts
<1>2. {i \in Heads(s) : s[i].last /\ FragmentEnd(s, i) <= p}
        \in SUBSET {i \in Heads(s) : s[i].last /\ FragmentEnd(s, i) <= q}
  BY <1>1
<1>3. IsFiniteSet({i \in Heads(s) : s[i].last /\ FragmentEnd(s, i) <= q})
  BY RecordsAreFinite
<1> QED BY <1>2, <1>3, FS_Subset DEF Records

\* The end of a last fragment counts itself.
LEMMA RecordsPositive ==
  ASSUME NEW s \in Seq(Cell), NEW i \in Heads(s), s[i].last,
         NEW p \in Nat, FragmentEnd(s, i) <= p
  PROVE  Records(s, p) >= 1
<1>1. i \in {h \in Heads(s) : s[h].last /\ FragmentEnd(s, h) <= p}
  OBVIOUS
<1>2. {h \in Heads(s) : s[h].last /\ FragmentEnd(s, h) <= p} # {}
  BY <1>1
<1>3. Records(s, p) \in Nat /\ IsFiniteSet({h \in Heads(s) : s[h].last /\ FragmentEnd(s, h) <= p})
  BY RecordsType, RecordsAreFinite
<1>4. Records(s, p) # 0
  BY <1>2, <1>3, FS_EmptySet DEF Records
<1> QED BY <1>3, <1>4

\* A prefix that lacks the end of the new fragment fits the old record ends.
LEMMA AppendedPrefixFits ==
  ASSUME NEW s \in Seq(Cell), NEW t \in Seq(Cell), NEW last, NEW n \in Nat,
         Whole(s), AppendsFragment(s, t, last, n),
         NEW es \in Seq(Nat), RecordsFit(s, es), Records(s, Len(s)) = Len(es),
         NEW u \in Seq(Cell), Begins(u, t), Len(u) < Len(t) \/ ~last
  PROVE  RecordsFit(u, es)
<1>1. /\ Len(s) \in Nat /\ Len(t) \in Nat /\ Len(u) \in Nat /\ Len(u) <= Len(t)
      /\ Len(t) = Len(s) + Unit + n
  BY DEF AppendsFragment, Begins
<1>2. ASSUME NEW p \in Nat, p <= Len(u)
      PROVE  Records(u, p) = Records(t, p) /\ PayloadCount(u, p) = PayloadCount(t, p)
  <2>1. \A j \in 1..p : u[j] = t[j]
    BY <1>1, <1>2 DEF Begins
  <2> QED BY <1>2, <2>1, PrefixRecords, PayloadCountSame
<1>3. ASSUME NEW i \in Heads(u), u[i].last, FragmentEnd(u, i) <= Len(u)
      PROVE  /\ Records(u, FragmentEnd(u, i)) <= Len(es)
             /\ es[Records(u, FragmentEnd(u, i))] = PayloadCount(u, FragmentEnd(u, i))
  <2>1. i \in Heads(t) /\ t[i].last /\ FragmentEnd(t, i) = FragmentEnd(u, i)
    BY <1>3, PrefixHeads
  <2>2. FragmentEnd(u, i) \in Nat
    BY HeadFacts
  <2>3. i # Len(s) + 1
    <3>1. SUFFICES ASSUME i = Len(s) + 1 PROVE FALSE
      OBVIOUS
    <3>a. t[Len(s) + 1] = HeaderByte(last, n, 1) /\ FragmentEnd(t, Len(s) + 1) = Len(t)
      BY AppendHeads
    <3>2. t[Len(s) + 1].last = last /\ FragmentEnd(t, Len(s) + 1) = Len(t)
      BY <3>a DEF HeaderByte
    <3> QED BY <1>1, <1>3, <2>1, <2>2, <3>1, <3>2
  <2>4. i \in Heads(s) /\ s[i] = t[i] /\ FragmentEnd(t, i) = FragmentEnd(s, i)
        /\ FragmentEnd(t, i) <= Len(s)
    BY <2>1, <2>3, AppendHeads
  <2>5. /\ Records(t, FragmentEnd(s, i)) = Records(s, FragmentEnd(s, i))
        /\ PayloadCount(t, FragmentEnd(s, i)) = PayloadCount(s, FragmentEnd(s, i))
    <3>1. FragmentEnd(s, i) \in 0..Len(s)
      BY <1>1, <2>1, <2>2, <2>4
    <3> QED BY <3>1, AppendRecords, AppendCount
  <2>6. s[i].last /\ FragmentEnd(s, i) <= Len(s)
    BY <2>1, <2>4
  <2>7. /\ Records(s, FragmentEnd(s, i)) <= Len(es)
        /\ es[Records(s, FragmentEnd(s, i))] = PayloadCount(s, FragmentEnd(s, i))
    BY <2>4, <2>6 DEF RecordsFit
  <2> QED BY <1>2, <1>3, <2>1, <2>2, <2>4, <2>5, <2>7
<1>4. ASSUME NEW p \in 0..Len(u), Records(u, p) < Len(es)
      PROVE  PayloadCount(u, p) <= es[Records(u, p) + 1]
  <2>0. p \in Nat /\ p <= Len(u)
    BY <1>1
  <2>1. p \in Nat /\ Records(t, p) < Len(es) /\ p <= Len(u) /\ Records(u, p) = Records(t, p)
        /\ PayloadCount(u, p) = PayloadCount(t, p)
    BY <1>2, <1>4, <2>0
  <2>2. p < Len(s)
    <3>1. SUFFICES ASSUME p >= Len(s) PROVE FALSE
      BY <1>1, <2>1
    <3>2. CASE p < Len(t)
      <4>1. p \in Len(s)..(Len(t) - 1) BY <1>1, <2>1, <3>1, <3>2
      <4>2. Records(t, p) = Len(es) BY <4>1, AppendRecords
      <4> QED BY <2>1, <4>2
    <3>3. CASE p = Len(t)
      <4>1. ~last BY <1>1, <2>1, <3>3
      <4>2. Records(t, p) = Len(es) BY <3>3, <4>1, AppendRecords
      <4> QED BY <2>1, <4>2
    <3>4. p < Len(t) \/ p = Len(t)
      <4>1. Len(t) \in Nat /\ Len(u) \in Nat /\ Len(u) <= Len(t)
        BY <1>1
      <4> QED BY <2>0, <4>1
    <3> QED BY <3>2, <3>3, <3>4
  <2>3. p \in 0..Len(s) /\ Records(t, p) = Records(s, p) /\ PayloadCount(t, p) = PayloadCount(s, p)
    <3>1. p \in 0..Len(s) BY <1>1, <2>1, <2>2
    <3> QED BY <3>1, AppendRecords, AppendCount
  <2>4. PayloadCount(s, p) <= es[Records(s, p) + 1]
    BY <2>1, <2>3 DEF RecordsFit
  <2> QED BY <2>1, <2>3, <2>4
<1> QED BY <1>3, <1>4 DEF RecordsFit

\* The last fragment of a record, once it is complete, ends one more.
LEMMA AppendedRecordFits ==
  ASSUME NEW s \in Seq(Cell), NEW t \in Seq(Cell), NEW n \in Nat,
         Whole(s), AppendsFragment(s, t, TRUE, n),
         NEW es \in Seq(Nat), RecordsFit(s, es), Records(s, Len(s)) = Len(es)
  PROVE  /\ RecordsFit(t, Append(es, PayloadCount(t, Len(t))))
         /\ Records(t, Len(t)) = Len(es) + 1
<1> DEFINE e == PayloadCount(t, Len(t))
           et == Append(es, e)
<1>1. /\ Len(s) \in Nat /\ Len(t) \in Nat /\ Len(t) = Len(s) + Unit + n
  BY DEF AppendsFragment
<1>2. e \in Nat
  BY <1>1, PayloadCountType
<1>3. Len(et) = Len(es) + 1 /\ et[Len(es) + 1] = e /\ \A k \in 1..Len(es) : et[k] = es[k]
  BY <1>2
<1>t. TRUE \in BOOLEAN
  OBVIOUS
<1>4. Records(t, Len(t)) = Len(es) + 1
  BY <1>t, AppendRecords
<1>5. \A p \in 0..Len(s) : Records(t, p) = Records(s, p) /\ PayloadCount(t, p) = PayloadCount(s, p)
  <2>1. \A p \in 0..Len(s) : Records(t, p) = Records(s, p)
    BY <1>t, AppendRecords, Zenon
  <2>2. \A p \in 0..Len(s) : PayloadCount(t, p) = PayloadCount(s, p)
    BY <1>t, AppendCount, Zenon
  <2> QED BY <2>1, <2>2
<1> HIDE DEF et
<1>6. ASSUME NEW i \in Heads(t), t[i].last
      PROVE  /\ Records(t, FragmentEnd(t, i)) <= Len(et)
             /\ et[Records(t, FragmentEnd(t, i))] = PayloadCount(t, FragmentEnd(t, i))
  <2>1. CASE i = Len(s) + 1
    <3>1. FragmentEnd(t, i) = Len(t) BY <1>t, <2>1, AppendHeads
    <3> QED BY <1>1, <1>2, <1>3, <1>4, <3>1
  <2>2. CASE i # Len(s) + 1
    <3>1. i \in Heads(s) /\ s[i] = t[i] /\ FragmentEnd(t, i) = FragmentEnd(s, i)
          /\ FragmentEnd(s, i) <= Len(s)
      BY <1>t, <2>2, AppendHeads
    <3>2. FragmentEnd(s, i) \in 0..Len(s) /\ FragmentEnd(s, i) \in Nat
      BY <1>1, <3>1, HeadFacts
    <3>3. s[i].last
      BY <1>6, <3>1
    <3>4. /\ Records(s, FragmentEnd(s, i)) <= Len(es)
          /\ es[Records(s, FragmentEnd(s, i))] = PayloadCount(s, FragmentEnd(s, i))
      BY <3>1, <3>3 DEF RecordsFit
    <3>a. FragmentEnd(s, i) <= FragmentEnd(s, i)
      BY <3>2
    <3>b. Records(s, FragmentEnd(s, i)) \in Nat
      BY <3>2, RecordsType
    <3>c. Records(s, FragmentEnd(s, i)) >= 1
      BY <3>1, <3>2, <3>3, <3>a, RecordsPositive, Zenon
    <3>5. Records(s, FragmentEnd(s, i)) >= 1 /\ Records(s, FragmentEnd(s, i)) \in Nat
      BY <3>b, <3>c
    <3>6. Records(s, FragmentEnd(s, i)) \in 1..Len(es)
      BY <3>4, <3>5
    <3>7. /\ Records(t, FragmentEnd(t, i)) = Records(s, FragmentEnd(s, i))
          /\ PayloadCount(t, FragmentEnd(t, i)) = PayloadCount(s, FragmentEnd(s, i))
      BY <1>5, <3>1, <3>2
    <3> QED BY <1>3, <3>4, <3>5, <3>6, <3>7
  <2> QED BY <2>1, <2>2
<1>7. ASSUME NEW p \in 0..Len(t), Records(t, p) < Len(et)
      PROVE  PayloadCount(t, p) <= et[Records(t, p) + 1]
  <2>1. p \in Nat /\ p <= Len(t) /\ PayloadCount(t, p) <= e
    BY <1>1, PayloadCountMonotone
  <2>2. CASE Records(t, p) = Len(es)
    BY <1>3, <2>1, <2>2
  <2>3. CASE Records(t, p) # Len(es)
    <3>a. Records(t, p) \in Nat
      BY <2>1, RecordsType
    <3>1. Records(t, p) \in Nat /\ Records(t, p) < Len(es)
      BY <1>3, <1>7, <2>3, <3>a
    <3>2. p \in 0..Len(s)
      <4>1. SUFFICES ASSUME p > Len(s) PROVE FALSE
        BY <1>1, <2>1
      <4>2. Records(t, Len(s)) <= Records(t, p)
        BY <1>1, <2>1, <4>1, RecordsMonotone
      <4>3. Len(s) \in 0..Len(s)
        BY <1>1
      <4> QED BY <1>5, <3>1, <4>2, <4>3
    <3>3. Records(t, p) + 1 \in 1..Len(es)
      BY <3>1
    <3>4. PayloadCount(s, p) <= es[Records(s, p) + 1]
      BY <1>5, <3>1, <3>2 DEF RecordsFit
    <3> QED BY <1>3, <1>5, <3>2, <3>3, <3>4
  <2> QED BY <2>2, <2>3
<1> QED BY <1>4, <1>6, <1>7 DEF RecordsFit, et

\* For a whole stream, fitting the record ends and being counted by them is
\* what the properties state.
LEMMA WholeRecordsEndAt ==
  ASSUME NEW s \in Seq(Cell), Whole(s), NEW es, RecordsFit(s, es), Records(s, Len(s)) = Len(es)
  PROVE  RecordsEndAt(s, es)
BY DEF Whole, RecordsFit, RecordsEndAt

\* Every payload number from base + 1 on is somewhere in s.
CarriesAll(s, base) ==
  \A k \in 1..PayloadCount(s, Len(s)) : \E i \in 1..Len(s) : s[i] = Payload(base + k)

LEMMA AppendCarries ==
  ASSUME NEW s \in Seq(Cell), NEW t \in Seq(Cell), NEW last, NEW n \in Nat,
         AppendsFragment(s, t, last, n), NEW base \in Int, CarriesAll(s, base),
         \A j \in 1..n : t[Len(s) + Unit + j] = Payload(base + PayloadCount(s, Len(s)) + j)
  PROVE  CarriesAll(t, base)
<1> DEFINE c == PayloadCount(s, Len(s))
<1>1. Len(s) \in Nat /\ Len(t) = Len(s) + Unit + n /\ c \in Nat
  BY PayloadCountType DEF AppendsFragment
<1>2. PayloadCount(t, Len(t)) = c + n
  BY AppendCount
<1> SUFFICES ASSUME NEW k \in 1..(c + n)
             PROVE  \E i \in 1..Len(t) : t[i] = Payload(base + k)
  BY <1>2 DEF CarriesAll
<1>3. CASE k <= c
  <2>1. k \in 1..c
    BY <1>1, <1>3
  <2>2. PICK i \in 1..Len(s) : s[i] = Payload(base + k)
    BY <2>1 DEF CarriesAll
  <2>3. i \in 1..Len(t) /\ t[i] = s[i]
    BY <1>1 DEF AppendsFragment, Begins
  <2> QED BY <2>2, <2>3
<1>4. CASE k > c
  <2>1. PICK j \in 1..n : k = c + j
    <3>1. k - c \in 1..n /\ k = c + (k - c)
      BY <1>1, <1>4
    <3> QED BY <3>1
  <2>2. Len(s) + Unit + j \in 1..Len(t)
    BY <1>1
  <2>3. base + k = base + c + j
    BY <1>1, <2>1
  <2>4. t[Len(s) + Unit + j] = Payload(base + c + j)
    OBVIOUS
  <2> QED BY <2>2, <2>3, <2>4
<1> QED BY <1>1, <1>3, <1>4

-----------------------------------------------------------------------------
(* Whole units: the arithmetic the alignment arguments need.               *)

LEMMA AlignedIsMultiple ==
  ASSUME NEW a \in Nat
  PROVE  Aligned(a) <=> \E k \in Nat : a = k * Unit
<1>1. a = Unit * (a \div Unit) + (a % Unit) /\ a \div Unit \in Nat
  OBVIOUS
<1>2. ASSUME NEW k \in Nat, a = k * Unit PROVE a % Unit = 0
  BY <1>2
<1>3. ASSUME a % Unit = 0 PROVE \E k \in Nat : a = k * Unit
  <2>1. a = (a \div Unit) * Unit BY <1>1, <1>3
  <2> QED BY <1>1, <2>1
<1> QED BY <1>2, <1>3 DEF Aligned

LEMMA AlignedSum ==
  ASSUME NEW a \in Nat, NEW b \in Nat, Aligned(a), Aligned(b)
  PROVE  Aligned(a + b)
<1>1. PICK k \in Nat : a = k * Unit BY AlignedIsMultiple
<1>2. PICK j \in Nat : b = j * Unit BY AlignedIsMultiple
<1>3. a + b = (k + j) * Unit /\ k + j \in Nat /\ a + b \in Nat BY <1>1, <1>2
<1>4. \E i \in Nat : a + b = i * Unit BY <1>3
<1> QED BY <1>3, <1>4, AlignedIsMultiple

LEMMA AlignedDifference ==
  ASSUME NEW a \in Nat, NEW b \in Nat, Aligned(a), Aligned(a + b)
  PROVE  Aligned(b)
<1>1. PICK k \in Nat : a = k * Unit BY AlignedIsMultiple
<1>2. a + b \in Nat OBVIOUS
<1>3. PICK j \in Nat : a + b = j * Unit BY <1>2, AlignedIsMultiple
<1>4. b = (j - k) * Unit BY <1>1, <1>3
<1>5. j - k \in Nat
  <2>1. CASE j < k
    <3>1. (k - j) * Unit > 0 BY <2>1
    <3> QED BY <1>4, <3>1
  <2> QED BY <2>1
<1> QED BY <1>4, <1>5, AlignedIsMultiple

\* Between two multiples of the unit there is room for one.
LEMMA AlignedGap ==
  ASSUME NEW a \in Nat, NEW b \in Nat, Aligned(a), Aligned(b), a < b
  PROVE  a + Unit <= b
<1>1. PICK k \in Nat : a = k * Unit BY AlignedIsMultiple
<1>2. PICK j \in Nat : b = j * Unit BY AlignedIsMultiple
<1>3. j >= k + 1 BY <1>1, <1>2
<1>4. j * Unit >= (k + 1) * Unit BY <1>3
<1> QED BY <1>1, <1>2, <1>4

LEMMA AlignedUnits == Aligned(0) /\ Aligned(Unit) /\ Aligned(2 * Unit)
<1>1. Aligned(0) BY AlignedIsMultiple, 0 = 0 * Unit
<1>2. Aligned(Unit) BY AlignedIsMultiple, Unit = 1 * Unit
<1> QED BY <1>1, <1>2, AlignedIsMultiple

\* RNDUP rounds up, to a whole number of units.
LEMMA RndUpAligned ==
  ASSUME NEW n \in Nat
  PROVE  RNDUP(n) \in Nat /\ RNDUP(n) >= n /\ Aligned(RNDUP(n))
<1> DEFINE q == (n + Unit - 1) \div Unit
<1>1. q \in Nat /\ n + Unit - 1 = Unit * q + ((n + Unit - 1) % Unit)
  OBVIOUS
<1>2. (n + Unit - 1) % Unit \in 0..(Unit - 1)
  OBVIOUS
<1>3. RNDUP(n) = q * Unit /\ q * Unit \in Nat
  BY <1>1 DEF RNDUP
<1>4. RNDUP(n) >= n
  <2> HIDE DEF q
  <2> QED BY <1>1, <1>2, <1>3
<1> QED BY <1>1, <1>3, <1>4, AlignedIsMultiple
-----------------------------------------------------------------------------
(***************************************************************************)
(* The inductive invariant.  What makes an inner fragment non-empty is     *)
(* that every fragment begins with room for one unit of payload            *)
(* (FragmentHasRoom); xdrrec_endofrecord keeps it because record ends are  *)
(* whole units (PutsEndAligned), which needs the padding of xdr_opaque.    *)
(***************************************************************************)
Pending == calls.bytes + calls.pad

PutsEndAligned == /\ calls.bytes = 0 => calls.pad = 0
                  /\ Aligned(out_finger + Pending)

FragmentHasRoom == /\ frag_header + 2 * Unit <= SendSize
                   /\ Aligned(frag_header)

\* A header for a fragment that is not the last of its record is not a zero word.
GoodCell(c) == c.kind = "header" /\ ~c.last => c.len > 0

BufferIsGood == \A a \in Offsets : GoodCell(out_buf[a])
WireIsGood == \A i \in 1..Len(wire) : GoodCell(wire[i])

\* The payload of the fragment being filled.
OpenSize == out_finger - frag_header - Unit

\* Bytes of the open fragment of a buffer, when `put' bytes were encoded.
OpenNumbered(buf, header, finger, put) ==
  \A a \in (header + Unit)..(finger - 1) : buf[a] = Payload(put - (finger - 1 - a))

\* Where a position the caller keeps is now, in the buffer.
MarkAt(m) == m.pos - Len(wire)

\* The byte that is there, when the caller goes there.
NputAt(m) == nput - (out_finger - MarkAt(m))

\* A position in the fragment being filled that is still in its record.
Live(m) == m.fails = fails /\ MarkAt(m) > frag_header /\ ~Abandoned(m)

(***************************************************************************)
(* A position is behind the header only on a unit; where it is live it is  *)
(* where the caller was when it asked.  None is ever beyond the buffer, so *)
(* a flush of the whole buffer leaves none in the next fragment.           *)
(***************************************************************************)
MarkIsExact(m) ==
  /\ m.fails <= fails
  /\ m.fails = fails => MarkAt(m) <= SendSize
  /\ m.fails = fails /\ MarkAt(m) > frag_header => Aligned(MarkAt(m))
  /\ Live(m) => NputAt(m) = m.nput /\ Len(ends) = m.ends

MarksAreExact == \A m \in marks : MarkIsExact(m)

\* Up to a live position, in front of the finger or behind, the buffer
\* holds what the caller encoded.
MarksHold ==
  \A m \in marks : Live(m) => OpenNumbered(out_buf, frag_header, MarkAt(m), NputAt(m))

\* What the caller has in front of it is not less than the open fragment.
PutsFill == OpenSize <= nput

OutInv == /\ OutTypeOK
          /\ FingerInFragment
          /\ PutsEndAligned
          /\ FragmentHasRoom
          /\ BufferIsGood
          /\ WireIsGood
          /\ PutsFill
          /\ MarksAreExact
-----------------------------------------------------------------------------
(* What the stores into the buffer and the calls of writeit preserve.      *)

LEMMA StoreType ==
  ASSUME NEW buf \in [Offsets -> Cell], \A a \in Offsets : GoodCell(buf[a]),
         NEW at \in Nat, NEW n \in Nat, nput \in Nat
  PROVE  /\ Store(buf, at, n) \in [Offsets -> Cell]
         /\ \A a \in Offsets : GoodCell(Store(buf, at, n)[a])
<1>1. ASSUME NEW k \in Nat PROVE Payload(k) \in Cell /\ GoodCell(Payload(k))
  BY DEF Payload, Cell, GoodCell
<1>2. ASSUME NEW a \in Offsets
      PROVE  Store(buf, at, n)[a] \in Cell /\ GoodCell(Store(buf, at, n)[a])
  <2>1. CASE a \in at..(at + n - 1)
    <3>1. nput + 1 + (a - at) \in Nat
      BY <2>1, OutAssumption DEF Offsets, OutAssumption
    <3>2. Store(buf, at, n)[a] = Payload(nput + 1 + (a - at))
      BY <2>1 DEF Store
    <3> QED BY <3>1, <3>2, <1>1
  <2>2. CASE a \notin at..(at + n - 1)
    BY <2>2 DEF Store
  <2> QED BY <2>1, <2>2
<1> QED BY <1>2 DEF Store

LEMMA HeadedType ==
  ASSUME NEW buf \in [Offsets -> Cell], \A a \in Offsets : GoodCell(buf[a]),
         NEW finger \in Nat, NEW last \in BOOLEAN, frag_header \in Nat,
         frag_header + Unit <= finger, ~last => frag_header + Unit < finger
  PROVE  /\ Headed(buf, finger, last) \in [Offsets -> Cell]
         /\ \A a \in Offsets : GoodCell(Headed(buf, finger, last)[a])
<1>1. ASSUME NEW a \in Offsets
      PROVE  Headed(buf, finger, last)[a] \in Cell
               /\ GoodCell(Headed(buf, finger, last)[a])
  <2>1. CASE a \in frag_header..(frag_header + Unit - 1)
    <3> DEFINE l == finger - frag_header - Unit
               p == a - frag_header + 1
    <3>1. l \in Nat /\ p \in 1..Unit /\ (~last => l > 0)
      BY <2>1, OutAssumption DEF Offsets, OutAssumption
    <3>2. Headed(buf, finger, last)[a] = HeaderByte(last, l, p)
      BY <2>1 DEF Headed
    <3> HIDE DEF l, p
    <3> QED BY <3>1, <3>2 DEF HeaderByte, Cell, GoodCell
  <2>2. CASE a \notin frag_header..(frag_header + Unit - 1)
    BY <2>2 DEF Headed
  <2> QED BY <2>1, <2>2
<1> QED BY <1>1 DEF Headed

LEMMA SendType ==
  ASSUME NEW buf \in [Offsets -> Cell], \A a \in Offsets : GoodCell(buf[a]),
         NEW n \in Nat, n <= SendSize, wire \in Seq(Cell), WireIsGood,
         wire' = wire \o Bytes(buf, n)
  PROVE  /\ wire' \in Seq(Cell)
         /\ WireIsGood'
         /\ Len(wire') = Len(wire) + n
<1> DEFINE s == Bytes(buf, n)
<1>0. \A i \in 1..n : i - 1 \in Offsets
  BY OutAssumption DEF Offsets, OutAssumption
<1>1. s \in Seq(Cell) /\ Len(s) = n /\ \A i \in 1..n : s[i] = buf[i - 1] /\ i - 1 \in Offsets
  BY <1>0 DEF Bytes
<1>2. \A i \in 1..n : GoodCell(s[i])
  BY <1>1
<1> HIDE DEF s
<1>3. wire' = wire \o s
  BY DEF s
<1>4. wire' \in Seq(Cell) /\ Len(wire') = Len(wire) + n
  <2>1. wire \o s \in Seq(Cell) /\ Len(wire \o s) = Len(wire) + Len(s)
    BY <1>1, ConcatProperties
  <2> QED BY <1>1, <1>3, <2>1
<1>5. ASSUME NEW i \in 1..Len(wire') PROVE GoodCell(wire'[i])
  <2>1. CASE i <= Len(wire)
    <3>1. wire'[i] = wire[i] BY <2>1, <1>1, <1>3
    <3> QED BY <2>1, <3>1 DEF WireIsGood
  <2>2. CASE i > Len(wire)
    <3>1. wire'[i] = s[i - Len(wire)] /\ i - Len(wire) \in 1..n
      BY <2>2, <1>1, <1>3, <1>4
    <3> QED BY <3>1, <1>2
  <2> QED BY <2>1, <2>2
<1> QED BY <1>4, <1>5 DEF WireIsGood

\* A successful flush.
LEMMA FlushSucceedsKeeps ==
  ASSUME OutInv, NEW buf \in [Offsets -> Cell], \A a \in Offsets : GoodCell(buf[a]),
         NEW finger \in Nat, NEW eor \in BOOLEAN,
         out_finger <= finger, finger <= SendSize,
         ~eor => frag_header + Unit < finger,
         FlushSucceeds(buf, finger, eor), out_finger' \in Nat
  PROVE  /\ wire' \in Seq(Cell) /\ frag_header' \in Nat /\ fails' \in Nat
         /\ Headed(buf, finger, eor) \in [Offsets -> Cell]
         /\ \A a \in Offsets : GoodCell(Headed(buf, finger, eor)[a])
         /\ FragmentHasRoom'
         /\ WireIsGood'
<1> DEFINE b == Headed(buf, finger, eor)
<1>0. frag_header \in Nat /\ frag_header + Unit <= finger
  BY DEF OutInv, OutTypeOK, FingerInFragment
<1>1. b \in [Offsets -> Cell] /\ \A a \in Offsets : GoodCell(b[a])
  BY <1>0, HeadedType
<1>2. wire' = wire \o Bytes(b, finger) /\ frag_header' = 0 /\ fails' = fails
  BY DEF FlushSucceeds
<1> HIDE DEF b
<1>3. wire' \in Seq(Cell) /\ WireIsGood' /\ Len(wire') = Len(wire) + finger
  BY <1>1, <1>2, SendType DEF OutInv, OutTypeOK
<1>4. FragmentHasRoom'
  BY <1>2, AlignedUnits, OutAssumption DEF FragmentHasRoom, OutAssumption, Aligned
<1> QED BY <1>1, <1>2, <1>3, <1>4 DEF OutInv, OutTypeOK, b

\* A failed flush: the buffer and the finger stay.
LEMMA FlushFailsKeeps ==
  ASSUME OutInv, NEW buf \in [Offsets -> Cell], \A a \in Offsets : GoodCell(buf[a]),
         NEW finger \in Nat, NEW eor \in BOOLEAN,
         out_finger <= finger, finger <= SendSize,
         ~eor => frag_header + Unit < finger,
         FlushFails(buf, finger, eor)
  PROVE  /\ wire' \in Seq(Cell) /\ frag_header' \in Nat /\ fails' \in Nat
         /\ out_buf' \in [Offsets -> Cell] /\ out_finger' \in Nat
         /\ out_finger' = finger
         /\ FingerInFragment'
         /\ FragmentHasRoom'
         /\ BufferIsGood'
         /\ WireIsGood'
<1> DEFINE b == Headed(buf, finger, eor)
<1>0. frag_header \in Nat /\ frag_header + Unit <= finger
  BY DEF OutInv, OutTypeOK, FingerInFragment
<1>1. b \in [Offsets -> Cell] /\ \A a \in Offsets : GoodCell(b[a])
  BY <1>0, HeadedType
<1>2. PICK m \in 0..(finger - 1) : wire' = wire \o Bytes(b, m)
  BY DEF FlushFails
<1>3. /\ out_buf' = b /\ out_finger' = finger
      /\ frag_header' = frag_header /\ fails' = fails + 1
  BY DEF FlushFails
<1> HIDE DEF b
<1>4. wire' \in Seq(Cell) /\ WireIsGood'
  <2>1. m \in Nat /\ m <= SendSize
    BY <1>2, OutAssumption DEF OutAssumption
  <2> QED BY <1>1, <1>2, <2>1, SendType DEF OutInv, OutTypeOK
<1>5. FragmentHasRoom' /\ FingerInFragment'
  BY <1>3 DEF OutInv, FragmentHasRoom, FingerInFragment, Aligned, OutTypeOK
<1>6. BufferIsGood'
  BY <1>1, <1>3 DEF BufferIsGood
<1> QED BY <1>1, <1>3, <1>4, <1>5, <1>6 DEF OutInv, OutTypeOK
-----------------------------------------------------------------------------
(* The positions the caller keeps.                                         *)

LEMMA MarkFacts ==
  ASSUME OutInv, NEW m \in marks
  PROVE  /\ m.pos \in Nat /\ m.nput \in Nat /\ m.ends \in Nat /\ m.fails \in Nat
         /\ Len(wire) \in Nat /\ MarkAt(m) \in Int /\ MarkAt(m) = m.pos - Len(wire)
         /\ MarkIsExact(m)
<1>1. m \in [pos : Nat, nput : Nat, ends : Nat, fails : Nat] /\ Len(wire) \in Nat
  BY DEF OutInv, OutTypeOK
<1>2. MarkIsExact(m)
  BY DEF OutInv, MarksAreExact
<1> QED BY <1>1, <1>2 DEF MarkAt

\* Within the open fragment a position stays where it is.
LEMMA MarksShift ==
  ASSUME OutInv, UNCHANGED <<wire, frag_header, marks, fails, ends>>,
         NEW d \in Int, nput' = nput + d, out_finger' = out_finger + d
  PROVE  /\ MarksAreExact'
         /\ \A m \in marks : /\ MarkAt(m)' = MarkAt(m) /\ NputAt(m)' = NputAt(m)
                             /\ Live(m)' <=> Live(m)
<1>1. ASSUME NEW m \in marks
      PROVE  /\ MarkAt(m)' = MarkAt(m) /\ NputAt(m)' = NputAt(m)
             /\ Live(m)' <=> Live(m)
             /\ MarkIsExact(m)'
  <2>1. MarkIsExact(m) /\ MarkAt(m) \in Int /\ nput \in Nat /\ out_finger \in Nat
    BY MarkFacts DEF OutInv, OutTypeOK
  <2>2. MarkAt(m)' = MarkAt(m)
    BY DEF MarkAt
  <2>3. NputAt(m)' = NputAt(m)
    BY <2>1, <2>2 DEF NputAt
  <2>4. Live(m)' <=> Live(m)
    BY <2>2 DEF Live, Abandoned
  <2> QED BY <2>1, <2>2, <2>3, <2>4 DEF MarkIsExact, Aligned
<1> QED BY <1>1 DEF MarksAreExact

\* After a failed writeit the caller uses none of the positions it has.
LEMMA MarksAfterFailure ==
  ASSUME OutInv, marks' = marks, fails' = fails + 1
  PROVE  MarksAreExact' /\ MarksHold'
<1>1. ASSUME NEW m \in marks PROVE MarkIsExact(m)' /\ ~Live(m)'
  <2>1. m.fails \in Nat /\ fails \in Nat /\ m.fails <= fails
    BY MarkFacts DEF MarkIsExact, OutInv, OutTypeOK
  <2>2. m.fails <= fails' /\ m.fails # fails'
    BY <2>1
  <2> QED BY <2>2 DEF MarkIsExact, Live
<1> QED BY <1>1 DEF MarksAreExact, MarksHold

\* A flush of the whole buffer leaves no position behind the header.
LEMMA MarksAfterInner ==
  ASSUME OutInv, marks' = marks, fails' = fails, frag_header' = 0,
         Len(wire') = Len(wire) + SendSize
  PROVE  MarksAreExact' /\ MarksHold'
<1>1. ASSUME NEW m \in marks PROVE MarkIsExact(m)' /\ ~Live(m)'
  <2>1. /\ MarkAt(m) \in Int /\ MarkAt(m) = m.pos - Len(wire) /\ MarkIsExact(m)
        /\ m.pos \in Nat /\ Len(wire) \in Nat /\ SendSize \in Nat
    BY MarkFacts, OutAssumption DEF OutAssumption
  <2>2. MarkAt(m)' = MarkAt(m) - SendSize
    BY <2>1 DEF MarkAt
  <2>3. m.fails <= fails /\ (m.fails = fails => MarkAt(m) <= SendSize)
    BY <2>1 DEF MarkIsExact
  <2>4. m.fails = fails => MarkAt(m)' <= SendSize /\ ~(MarkAt(m)' > frag_header')
    BY <2>1, <2>2, <2>3
  <2> QED BY <2>3, <2>4 DEF MarkIsExact, Live
<1> QED BY <1>1 DEF MarksAreExact, MarksHold

LEMMA AppendKeeps ==
  ASSUME NEW es \in Seq(Nat), NEW x \in Nat, NEW e \in Nat, Len(es) > e
  PROVE  Len(Append(es, x)) > e /\ Append(es, x)[e + 1] = es[e + 1]
<1>1. e + 1 \in 1..Len(es)
  OBVIOUS
<1> QED BY <1>1

(***************************************************************************)
(* At the end of a record a position in front of the finger is abandoned,  *)
(* and every other is in front of the next header.                         *)
(***************************************************************************)
LEMMA MarksAfterEnd ==
  ASSUME OutInv, marks' = marks, fails' = fails, ends' = Append(ends, nput),
         NEW n \in Nat, Aligned(n), n <= out_finger,
         Len(wire') = Len(wire) + n, frag_header' = out_finger - n
  PROVE  MarksAreExact' /\ MarksHold'
<1>1. ASSUME NEW m \in marks PROVE MarkIsExact(m)' /\ ~Live(m)'
  <2>1. /\ MarkAt(m) \in Int /\ MarkAt(m) = m.pos - Len(wire) /\ MarkIsExact(m)
        /\ m.pos \in Nat /\ Len(wire) \in Nat /\ m.ends \in Nat /\ m.nput \in Nat
    BY MarkFacts
  <2>2. /\ out_finger \in Nat /\ frag_header \in Nat /\ frag_header <= out_finger
        /\ nput \in Nat /\ ends \in Seq(Nat)
    BY DEF OutInv, OutTypeOK, FingerInFragment
  <2>3. MarkAt(m)' = MarkAt(m) - n
    BY <2>1 DEF MarkAt
  <2>4. m.fails <= fails /\ (m.fails = fails => MarkAt(m) <= SendSize)
    BY <2>1 DEF MarkIsExact
  <2>5. m.fails = fails => MarkAt(m)' <= SendSize
    BY <2>1, <2>3, <2>4, OutAssumption DEF OutAssumption
  <2>6. ASSUME m.fails = fails, MarkAt(m)' > frag_header'
        PROVE  Aligned(MarkAt(m))' /\ Abandoned(m)'
    <3>1. MarkAt(m) > out_finger
      BY <2>1, <2>2, <2>3, <2>6
    <3>2. MarkAt(m) > frag_header
      BY <2>1, <2>2, <3>1
    <3>3. Aligned(MarkAt(m))
      BY <2>1, <2>6, <3>2 DEF MarkIsExact
    <3>4. Aligned(MarkAt(m)')
      <4>1. PICK b \in Nat : b = MarkAt(m)'
        BY <2>1, <2>2, <2>3, <3>1
      <4>2. MarkAt(m) = n + b
        BY <2>1, <2>3, <4>1
      <4> QED BY <3>3, <4>1, <4>2, AlignedDifference
    <3>5. CASE Abandoned(m)
      <4>1. Len(ends) > m.ends /\ ends[m.ends + 1] < m.nput
        BY <3>5 DEF Abandoned
      <4>2. Len(ends') > m.ends /\ ends'[m.ends + 1] = ends[m.ends + 1]
        BY <2>1, <2>2, <4>1, AppendKeeps
      <4> QED BY <3>4, <4>1, <4>2 DEF Abandoned, Aligned
    <3>6. CASE ~Abandoned(m)
      <4>1. NputAt(m) = m.nput /\ Len(ends) = m.ends
        BY <2>1, <2>6, <3>2, <3>6 DEF MarkIsExact, Live
      <4>2. nput < m.nput
        BY <2>1, <2>2, <3>1, <4>1 DEF NputAt
      <4>3. Len(ends') = m.ends + 1 /\ ends'[m.ends + 1] = nput
        BY <2>1, <2>2, <4>1
      <4>4. Len(ends') > m.ends /\ ends'[m.ends + 1] < m.nput
        BY <2>1, <4>2, <4>3
      <4> QED BY <3>4, <4>4 DEF Abandoned, Aligned
    <3> QED BY <3>5, <3>6
  <2>7. ~Live(m)'
    BY <2>6 DEF Live
  <2> QED BY <2>4, <2>5, <2>6, <2>7 DEF MarkIsExact
<1> QED BY <1>1 DEF MarksAreExact, MarksHold

LEMMA SentLength ==
  ASSUME wire \in Seq(Cell), NEW buf, NEW finger \in Nat, NEW eor,
         FlushSucceeds(buf, finger, eor)
  PROVE  Len(wire') = Len(wire) + finger
<1> DEFINE b == Headed(buf, finger, eor)
           t == Bytes(b, finger)
           S == Cell \cup {b[i - 1] : i \in 1..finger}
<1>1. t \in Seq(S) /\ Len(t) = finger
  <2> HIDE DEF b
  <2>1. \A i \in 1..finger : b[i - 1] \in S
    OBVIOUS
  <2>2. t = [i \in 1..finger |-> b[i - 1]]
    BY DEF Bytes
  <2> HIDE DEF S, t
  <2> QED BY <2>1, <2>2
<1>2. wire' = wire \o t
  BY DEF FlushSucceeds
<1>3. wire \in Seq(S)
  OBVIOUS
<1> HIDE DEF t, S, b
<1> QED BY <1>1, <1>2, <1>3, ConcatProperties

\* memcpy puts under a position what the caller encodes there.
LEMMA StoreKeepsMarks ==
  ASSUME OutInv, NEW n \in Nat,
         out_buf' = Store(out_buf, out_finger, n),
         out_finger' = out_finger + n, nput' = nput + n,
         UNCHANGED <<wire, frag_header, marks, fails, ends>>
  PROVE  MarksAreExact' /\ (MarksHold => MarksHold')
<1>1. /\ MarksAreExact'
      /\ \A m \in marks : /\ MarkAt(m)' = MarkAt(m) /\ NputAt(m)' = NputAt(m)
                          /\ Live(m)' <=> Live(m)
  <2>1. n \in Int
    OBVIOUS
  <2> QED BY <2>1, MarksShift
<1>2. ASSUME MarksHold, NEW m \in marks, Live(m)
      PROVE  OpenNumbered(out_buf', frag_header, MarkAt(m), NputAt(m))
  <2>1. MarkAt(m) \in Int /\ MarkAt(m) <= SendSize
    BY <1>2, MarkFacts DEF MarkIsExact, Live
  <2>2. /\ out_finger \in Nat /\ frag_header \in Nat /\ nput \in Nat /\ SendSize \in Nat
    BY OutAssumption DEF OutInv, OutTypeOK, OutAssumption
  <2>3. OpenNumbered(out_buf, frag_header, MarkAt(m), NputAt(m))
    BY <1>2 DEF MarksHold
  <2>4. ASSUME NEW a \in (frag_header + Unit)..(MarkAt(m) - 1)
        PROVE  out_buf'[a] = Payload(NputAt(m) - (MarkAt(m) - 1 - a))
    <3>1. a \in Offsets
      BY <2>1, <2>2 DEF Offsets
    <3>2. CASE a \in out_finger..(out_finger + n - 1)
      <4>1. out_buf'[a] = Payload(nput + 1 + (a - out_finger))
        BY <3>1, <3>2 DEF Store
      <4>2. nput + 1 + (a - out_finger) = NputAt(m) - (MarkAt(m) - 1 - a)
        BY <2>1, <2>2 DEF NputAt
      <4> QED BY <4>1, <4>2
    <3>3. CASE a \notin out_finger..(out_finger + n - 1)
      <4>1. out_buf'[a] = out_buf[a]
        BY <3>1, <3>3 DEF Store
      <4> QED BY <2>3, <4>1 DEF OpenNumbered
    <3> QED BY <3>2, <3>3
  <2> QED BY <2>4 DEF OpenNumbered
<1> QED BY <1>1, <1>2 DEF MarksHold

\* A full buffer is flushed to make room.
LEMMA InnerFlushKeepsMarks ==
  ASSUME OutInv, NEW buf, NEW eor, FlushSucceeds(buf, SendSize, eor), marks' = marks
  PROVE  MarksAreExact' /\ MarksHold'
<1>1. Len(wire') = Len(wire) + SendSize
  BY SentLength, OutAssumption DEF OutInv, OutTypeOK, OutAssumption
<1> QED BY <1>1, MarksAfterInner DEF FlushSucceeds

LEMMA FailedFlushKeepsMarks ==
  ASSUME OutInv, NEW buf, NEW finger, NEW eor, FlushFails(buf, finger, eor), marks' = marks
  PROVE  MarksAreExact' /\ MarksHold'
BY MarksAfterFailure DEF FlushFails
-----------------------------------------------------------------------------
(* Each operation keeps the invariant.                                     *)

\* Between calls the finger is on a unit.
LEMMA IdleAligned ==
  ASSUME OutInv, calls = NoCalls
  PROVE  Pending = 0 /\ Aligned(out_finger)
BY DEF OutInv, PutsEndAligned, Pending, OutTypeOK, Aligned, NoCalls

\* A put without a flush, or a move: what it adds to the one it adds to the other.
LEMMA ShiftFills ==
  ASSUME OutInv, frag_header' = frag_header,
         NEW d \in Int, nput' = nput + d, out_finger' = out_finger + d
  PROVE  PutsFill'
<1>1. OpenSize <= nput /\ out_finger \in Nat /\ frag_header \in Nat /\ nput \in Nat
  BY DEF OutInv, OutTypeOK, PutsFill
<1>2. OpenSize' = out_finger' - frag_header - Unit
  BY DEF OpenSize
<1> QED BY <1>1, <1>2 DEF PutsFill, OpenSize

LEMMA IdleKeepsMarks ==
  ASSUME OutInv,
         UNCHANGED <<wire, out_buf, out_finger, frag_header, marks, fails, nput, ends>>
  PROVE  MarksAreExact' /\ (MarksHold => MarksHold') /\ PutsFill'
<1>1. 0 \in Int /\ nput' = nput + 0 /\ out_finger' = out_finger + 0
  BY DEF OutInv, OutTypeOK
<1>2. /\ MarksAreExact'
      /\ \A m \in marks : /\ MarkAt(m)' = MarkAt(m) /\ NputAt(m)' = NputAt(m)
                          /\ Live(m)' <=> Live(m)
  BY <1>1, MarksShift
<1>3. PutsFill'
  BY <1>1, ShiftFills
<1> QED BY <1>2, <1>3 DEF MarksHold

LEMMA PutLongKeepsMarks ==
  ASSUME OutInv, PutLong PROVE MarksAreExact' /\ (MarksHold => MarksHold') /\ PutsFill'
<1>0. /\ Aligned(out_finger) /\ out_finger \in Nat /\ out_finger <= SendSize
      /\ SendSize \in Nat /\ Aligned(SendSize) /\ nput \in Nat
  BY IdleAligned, OutAssumption
  DEF PutLong, Idle, OutInv, OutTypeOK, FingerInFragment, OutAssumption
<1>1. CASE Fits(Unit)
  <2>1. /\ out_buf' = Store(out_buf, out_finger, Unit)
        /\ out_finger' = out_finger + Unit /\ nput' = nput + Unit
        /\ UNCHANGED <<wire, frag_header, marks, fails, ends>>
        /\ Unit \in Nat /\ Unit \in Int
    BY <1>1 DEF PutLong
  <2> QED BY <2>1, StoreKeepsMarks, ShiftFills
<1>2. CASE ~Fits(Unit)
  <2>1. out_finger = SendSize
    <3>1. CASE out_finger < SendSize
      BY <1>0, <1>2, <3>1, AlignedGap DEF Fits
    <3> QED BY <1>0, <3>1
  <2>2. CASE FlushFails(out_buf, out_finger, FALSE) /\ nput' = nput
    <3>1. frag_header' = frag_header /\ out_finger' = out_finger + 0 /\ nput' = nput + 0
      BY <1>0, <2>2 DEF FlushFails
    <3>2. marks' = marks /\ FlushFails(out_buf, out_finger, FALSE)
      BY <1>2, <2>2 DEF PutLong
    <3> QED BY <3>1, <3>2, 0 \in Int, ShiftFills, FailedFlushKeepsMarks
  <2>3. CASE /\ FlushSucceeds(out_buf, out_finger, FALSE)
             /\ out_finger' = 2 * Unit
             /\ nput' = nput + Unit
    <3>1. PutsFill'
      BY <1>0, <2>3 DEF PutsFill, OpenSize, FlushSucceeds
    <3>2. marks' = marks /\ FlushSucceeds(out_buf, SendSize, FALSE)
      BY <1>2, <2>1, <2>3 DEF PutLong
    <3> QED BY <3>1, <3>2, InnerFlushKeepsMarks
  <2> QED BY <1>2, <2>2, <2>3 DEF PutLong
<1> QED BY <1>1, <1>2

LEMMA PutBytesStepKeepsMarks ==
  ASSUME OutInv, PutBytesStep
  PROVE  MarksAreExact' /\ (MarksHold => MarksHold') /\ PutsFill'
<1> DEFINE n == MinOf(calls.bytes, SendSize - out_finger)
           rest == calls.bytes - n
           buf == Store(out_buf, out_finger, n)
           finger == out_finger + n
<1>0. /\ out_finger \in Nat /\ nput \in Nat /\ frag_header \in Nat /\ SendSize \in Nat
      /\ out_finger <= SendSize /\ calls.bytes \in Nat
  BY OutAssumption DEF OutInv, OutTypeOK, FingerInFragment, OutAssumption
<1>1. n \in Nat /\ n \in Int
  BY <1>0 DEF MinOf
<1>2. ends' = ends /\ nput' = nput + n /\ marks' = marks
  BY DEF PutBytesStep
<1>3. \/ /\ out_buf' = buf /\ out_finger' = finger
         /\ UNCHANGED <<wire, frag_header, fails>>
      \/ /\ finger = SendSize
         /\ \/ /\ FlushSucceeds(buf, finger, FALSE)
               /\ out_finger' = Unit
            \/ FlushFails(buf, finger, FALSE)
  <2>1. CASE finger = SendSize /\ rest > 0
    BY <2>1 DEF PutBytesStep
  <2>2. CASE ~(finger = SendSize /\ rest > 0)
    BY <2>2 DEF PutBytesStep
  <2> QED BY <2>1, <2>2
<1> HIDE DEF n, rest
<1>4. CASE out_buf' = buf /\ out_finger' = finger /\ UNCHANGED <<wire, frag_header, fails>>
  BY <1>1, <1>2, <1>4, StoreKeepsMarks, ShiftFills
<1> HIDE DEF buf
<1>5. CASE FlushFails(buf, finger, FALSE)
  <2>1. frag_header' = frag_header /\ out_finger' = out_finger + n
    BY <1>5 DEF FlushFails
  <2> QED BY <1>1, <1>2, <1>5, <2>1, ShiftFills, FailedFlushKeepsMarks
<1>6. CASE /\ finger = SendSize
           /\ FlushSucceeds(buf, finger, FALSE)
           /\ out_finger' = Unit
  <2>1. PutsFill'
    BY <1>0, <1>1, <1>2, <1>6 DEF PutsFill, OpenSize, FlushSucceeds
  <2>2. FlushSucceeds(buf, SendSize, FALSE)
    BY <1>6
  <2> QED BY <1>2, <2>1, <2>2, InnerFlushKeepsMarks
<1> QED BY <1>3, <1>4, <1>5, <1>6

LEMMA EndOfRecordKeepsMarks ==
  ASSUME OutInv, NEW sendnow \in BOOLEAN, EndOfRecord(sendnow)
  PROVE  MarksAreExact' /\ MarksHold' /\ PutsFill'
<1>0. /\ Aligned(out_finger) /\ Aligned(0) /\ out_finger \in Nat /\ nput \in Nat
      /\ Len(wire) \in Nat /\ frag_header \in Nat /\ wire \in Seq(Cell)
  BY IdleAligned, AlignedUnits DEF EndOfRecord, Idle, OutInv, OutTypeOK
<1>1. nput' = nput /\ marks' = marks
  BY DEF EndOfRecord
<1>2. CASE MustFlush(sendnow)
  <2>1. CASE FlushFails(out_buf, out_finger, TRUE)
    <3>1. frag_header' = frag_header /\ out_finger' = out_finger + 0 /\ nput' = nput + 0
      BY <1>0, <1>1, <2>1 DEF FlushFails
    <3> QED BY <1>1, <2>1, <3>1, 0 \in Int, ShiftFills, FailedFlushKeepsMarks
  <2>2. CASE /\ FlushSucceeds(out_buf, out_finger, TRUE)
             /\ out_finger' = Unit
             /\ ends' = Append(ends, nput)
    <3>1. Len(wire') = Len(wire) + out_finger
      BY <1>0, <2>2, SentLength
    <3>2. fails' = fails /\ frag_header' = 0 /\ out_finger <= out_finger
      BY <1>0, <2>2 DEF FlushSucceeds
    <3>3. frag_header' = out_finger - out_finger
      BY <1>0, <3>2
    <3>4. PutsFill'
      BY <1>0, <1>1, <2>2, <3>2 DEF PutsFill, OpenSize
    <3> QED BY <1>0, <1>1, <2>2, <3>1, <3>2, <3>3, <3>4, MarksAfterEnd
  <2> QED BY <1>2, <2>1, <2>2 DEF EndOfRecord
<1>3. CASE ~MustFlush(sendnow)
  <2>1. /\ frag_header' = out_finger /\ out_finger' = out_finger + Unit
        /\ ends' = Append(ends, nput) /\ wire' = wire /\ fails' = fails
    BY <1>3 DEF EndOfRecord
  <2>2. /\ 0 \in Nat /\ 0 <= out_finger /\ frag_header' = out_finger - 0
        /\ Len(wire') = Len(wire) + 0
    BY <1>0, <2>1
  <2>3. PutsFill'
    BY <1>0, <1>1, <2>1 DEF PutsFill, OpenSize
  <2> QED BY <1>0, <1>1, <2>1, <2>2, <2>3, MarksAfterEnd
<1> QED BY <1>2, <1>3

(***************************************************************************)
(* Where x_setpostn goes: to a unit in the fragment, and if the position   *)
(* is not abandoned to the byte, in the record, it was taken at.           *)
(***************************************************************************)
LEMMA SetPosLands ==
  ASSUME OutInv, NEW m \in marks, SetPosTo(m)
  PROVE  /\ out_finger' = MarkAt(m) /\ out_finger' \in Nat
         /\ frag_header + Unit <= out_finger' /\ out_finger' <= SendSize
         /\ Aligned(out_finger')
         /\ nput' = NputAt(m) /\ nput' \in Nat
         /\ ~Abandoned(m) => Live(m) /\ nput' = m.nput /\ Len(ends) = m.ends
<1>1. /\ m.pos \in Nat /\ Len(wire) \in Nat /\ MarkAt(m) \in Int
      /\ MarkAt(m) = m.pos - Len(wire) /\ MarkIsExact(m)
  BY MarkFacts
<1>2. /\ out_finger \in Nat /\ frag_header \in Nat /\ nput \in Nat
      /\ frag_header + Unit <= out_finger
      /\ Aligned(frag_header) /\ SendSize \in Nat
      /\ out_finger - frag_header - Unit <= nput
  BY OutAssumption DEF OutInv, OutTypeOK, FingerInFragment, FragmentHasRoom, PutsFill, OpenSize,
                       OutAssumption
<1>3. /\ Position - m.pos = out_finger - MarkAt(m)
      /\ out_finger - (Position - m.pos) = MarkAt(m)
  BY <1>1, <1>2 DEF Position
<1>4. /\ m.fails = fails /\ MayMoveTo(MarkAt(m))
      /\ out_finger' = MarkAt(m) /\ nput' = NputAt(m)
  BY <1>3 DEF SetPosTo, NputAt
<1>5. MarkAt(m) > frag_header /\ MarkAt(m) < SendSize /\ MarkAt(m) \in Nat
  BY <1>1, <1>2, <1>4 DEF MayMoveTo
<1>6. Aligned(MarkAt(m)) /\ (Live(m) => NputAt(m) = m.nput /\ Len(ends) = m.ends)
  BY <1>1, <1>4, <1>5 DEF MarkIsExact
<1>7. frag_header + Unit <= MarkAt(m)
  BY <1>2, <1>5, <1>6, AlignedGap
<1>8. NputAt(m) \in Nat
  BY <1>2, <1>5, <1>7 DEF NputAt
<1>9. ~Abandoned(m) => Live(m)
  BY <1>4, <1>5 DEF Live
<1> QED BY <1>2, <1>4, <1>5, <1>6, <1>7, <1>8, <1>9

LEMMA SetPosKeepsMarks ==
  ASSUME OutInv, SetPos PROVE MarksAreExact' /\ (MarksHold => MarksHold') /\ PutsFill'
<1>1. PICK m \in marks : SetPosTo(m)
  BY DEF SetPos
<1>2. PICK d \in Int : d = MarkAt(m) - out_finger
  <2>1. MarkAt(m) \in Int /\ out_finger \in Nat
    BY MarkFacts DEF OutInv, OutTypeOK
  <2> QED BY <2>1
<1>3. /\ nput' = nput + d /\ out_finger' = out_finger + d
      /\ UNCHANGED <<wire, out_buf, frag_header, marks, fails, ends>>
  <2>1. MarkAt(m) \in Int /\ out_finger \in Nat /\ nput \in Nat
    BY MarkFacts DEF OutInv, OutTypeOK
  <2>2. out_finger' = MarkAt(m) /\ nput' = NputAt(m)
    BY <1>1, SetPosLands
  <2>3. UNCHANGED <<wire, out_buf, frag_header, marks, fails, ends>>
    BY <1>1 DEF SetPosTo
  <2> QED BY <1>2, <2>1, <2>2, <2>3 DEF NputAt
<1>4. /\ MarksAreExact'
      /\ \A x \in marks : /\ MarkAt(x)' = MarkAt(x) /\ NputAt(x)' = NputAt(x)
                          /\ Live(x)' <=> Live(x)
  BY <1>3, MarksShift
<1>5. PutsFill'
  BY <1>3, ShiftFills
<1> QED BY <1>3, <1>4, <1>5 DEF MarksHold

LEMMA GetPosKeepsMarks ==
  ASSUME OutInv, GetPos
  PROVE  /\ MarksAreExact' /\ PutsFill'
         /\ MarksHold /\ OpenNumbered(out_buf, frag_header, out_finger, nput) => MarksHold'
<1>1. /\ UNCHANGED <<wire, out_buf, out_finger, frag_header, fails, nput, ends>>
      /\ Aligned(out_finger)
  BY IdleAligned DEF GetPos, Idle
<1>2. /\ out_finger \in Nat /\ nput \in Nat /\ fails \in Nat /\ Len(wire) \in Nat
      /\ Len(ends) \in Nat /\ out_finger <= SendSize
  BY DEF OutInv, OutTypeOK, FingerInFragment
<1>3. ASSUME NEW m, MarkIsExact(m) PROVE MarkIsExact(m)'
  BY <1>1, <1>3 DEF MarkIsExact, MarkAt, NputAt, Live, Abandoned, Aligned
<1>4. MarkAt(Here) = out_finger /\ NputAt(Here) = nput
  <2>1. Here.pos = Len(wire) + out_finger
    BY DEF Here, Position
  <2> QED BY <1>2, <2>1 DEF MarkAt, NputAt
<1>5. MarkIsExact(Here)
  <2>1. Here.fails = fails /\ Here.nput = nput /\ Here.ends = Len(ends)
    BY DEF Here
  <2> QED BY <1>1, <1>2, <1>4, <2>1 DEF MarkIsExact
<1>6. \A m \in marks' : m \in marks \/ m = Here
  BY DEF GetPos
<1>7. ASSUME NEW m \in marks' PROVE MarkIsExact(m)'
  <2>1. MarkIsExact(m)
    BY <1>5, <1>6 DEF OutInv, MarksAreExact
  <2> QED BY <1>3, <2>1
<1>8. ASSUME MarksHold, OpenNumbered(out_buf, frag_header, out_finger, nput),
             NEW m \in marks', Live(m)'
      PROVE  OpenNumbered(out_buf, frag_header, MarkAt(m), NputAt(m))'
  <2>1. Live(m) /\ MarkAt(m)' = MarkAt(m) /\ NputAt(m)' = NputAt(m)
    BY <1>1, <1>8 DEF Live, MarkAt, NputAt, Abandoned
  <2>2. OpenNumbered(out_buf, frag_header, MarkAt(m), NputAt(m))
    BY <1>4, <1>6, <1>8, <2>1 DEF MarksHold
  <2> QED BY <1>1, <2>1, <2>2 DEF OpenNumbered
<1>9. PutsFill'
  BY <1>1 DEF OutInv, PutsFill, OpenSize
<1> QED BY <1>7, <1>8, <1>9 DEF MarksAreExact, MarksHold

\* Bytes put without a flush: the finger, the history and nothing else moves.
LEMMA AdvanceKeeps ==
  ASSUME OutInv, NEW n \in Nat, out_finger + n <= SendSize,
         out_buf' = Store(out_buf, out_finger, n),
         out_finger' = out_finger + n, nput' = nput + n,
         UNCHANGED <<wire, open, frag_header, frag_sent, marks, fails, ends, strayed>>
  PROVE  /\ calls' \in [bytes : Nat, pad : Nat] => OutTypeOK'
         /\ FingerInFragment'
         /\ FragmentHasRoom'
         /\ BufferIsGood'
         /\ WireIsGood'
<1> DEFINE b == Store(out_buf, out_finger, n)
<1>1. b \in [Offsets -> Cell] /\ \A a \in Offsets : GoodCell(b[a])
  BY StoreType DEF OutInv, OutTypeOK, BufferIsGood
<1> HIDE DEF b
<1>2. out_buf' = b
  BY DEF b
<1>3. calls' \in [bytes : Nat, pad : Nat] => OutTypeOK'
  BY <1>1, <1>2 DEF OutInv, OutTypeOK
<1>4. FingerInFragment' /\ FragmentHasRoom' /\ WireIsGood' /\ BufferIsGood'
  BY <1>1, <1>2 DEF OutInv, OutTypeOK, FingerInFragment, FragmentHasRoom,
                    BufferIsGood, WireIsGood, Aligned
<1> QED BY <1>3, <1>4

LEMMA PutLongKeeps == ASSUME OutInv, PutLong PROVE OutInv'
<1>1. Aligned(out_finger) /\ calls = NoCalls /\ calls' = NoCalls /\ Pending' = 0
      /\ calls' \in [bytes : Nat, pad : Nat] /\ calls'.pad = 0
  BY IdleAligned DEF PutLong, Idle, Pending, NoCalls
<1>m. MarksAreExact' /\ PutsFill'
  BY PutLongKeepsMarks
<1>2. CASE Fits(Unit)
  <2>1. /\ out_buf' = Store(out_buf, out_finger, Unit)
        /\ out_finger' = out_finger + Unit /\ nput' = nput + Unit
        /\ out_finger + Unit <= SendSize
        /\ UNCHANGED <<wire, open, frag_header, frag_sent, marks, fails, ends, strayed>>
    BY <1>2 DEF PutLong, Fits
  <2>2. PutsEndAligned'
    <3>1. Aligned(out_finger + Unit)
      BY <1>1, AlignedSum, AlignedUnits DEF OutInv, OutTypeOK
    <3> QED BY <1>1, <2>1, <3>1 DEF PutsEndAligned, Aligned, OutInv, OutTypeOK
  <2> QED BY <1>1, <1>m, <2>1, <2>2, AdvanceKeeps DEF OutInv
<1>3. CASE ~Fits(Unit)
  <2>1. frag_header + Unit < out_finger /\ out_finger <= SendSize
    BY <1>3, OutAssumption DEF OutInv, OutTypeOK, FingerInFragment, FragmentHasRoom,
                               Fits, OutAssumption
  <2>a. /\ out_buf \in [Offsets -> Cell] /\ (\A a \in Offsets : GoodCell(out_buf[a]))
        /\ out_finger \in Nat /\ nput \in Nat /\ out_finger <= out_finger
    BY DEF OutInv, OutTypeOK, BufferIsGood
  <2>b. marks' = marks /\ strayed' = strayed /\ open' = open /\ ends' = ends /\ calls' = calls /\ frag_sent' = TRUE
    BY <1>3 DEF PutLong
  <2>2. CASE FlushFails(out_buf, out_finger, FALSE) /\ nput' = nput
    <3>1. PutsEndAligned'
      BY <1>1, <2>2 DEF PutsEndAligned, Aligned, FlushFails, OutInv, OutTypeOK
    <3>2. /\ wire' \in Seq(Cell) /\ frag_header' \in Nat /\ fails' \in Nat
          /\ out_buf' \in [Offsets -> Cell] /\ out_finger' \in Nat
          /\ FingerInFragment' /\ FragmentHasRoom'
          /\ BufferIsGood' /\ WireIsGood'
      <4>1. FlushFails(out_buf, out_finger, FALSE) /\ FALSE \in BOOLEAN
        BY <2>2
      <4> QED BY <2>1, <2>a, <2>b, <4>1, FlushFailsKeeps, Zenon
    <3> QED BY <1>m, <2>2, <2>b, <3>1, <3>2 DEF OutInv, OutTypeOK
  <2>3. CASE /\ FlushSucceeds(out_buf, out_finger, FALSE)
             /\ out_buf' = Store(Headed(out_buf, out_finger, FALSE), Unit, Unit)
             /\ out_finger' = 2 * Unit
             /\ nput' = nput + Unit
    <3>0. out_finger' = 2 * Unit /\ nput' = nput + Unit
      BY <2>3, Zenon
    <3>c. out_finger' \in Nat /\ nput' \in Nat
      BY <3>0, <2>a
    <3> DEFINE b == Headed(out_buf, out_finger, FALSE)
    <3>1. /\ wire' \in Seq(Cell) /\ frag_header' \in Nat /\ fails' \in Nat
          /\ b \in [Offsets -> Cell]
          /\ \A a \in Offsets : GoodCell(b[a])
          /\ FragmentHasRoom' /\ WireIsGood'
      <4>1. FlushSucceeds(out_buf, out_finger, FALSE) /\ FALSE \in BOOLEAN
        BY <2>3
      <4> QED BY <2>1, <3>c, <2>a, <2>b, <4>1, FlushSucceedsKeeps, Zenon DEF b
    <3> HIDE DEF b
    <3>2. out_buf' \in [Offsets -> Cell] /\ BufferIsGood'
      BY <3>1, <2>3, <2>a, StoreType DEF BufferIsGood, b
    <3>3. FingerInFragment'
      BY <2>3, OutAssumption DEF FingerInFragment, FlushSucceeds, OutAssumption
    <3>4. PutsEndAligned'
      BY <1>1, <2>3, AlignedUnits DEF PutsEndAligned, Aligned
    <3>5. OutTypeOK'
      BY <2>b, <3>c, <3>1, <3>2 DEF OutInv, OutTypeOK
    <3> QED BY <1>m, <3>1, <3>2, <3>3, <3>4, <3>5 DEF OutInv
  <2> QED BY <1>3, <2>2, <2>3 DEF PutLong
<1> QED BY <1>2, <1>3

LEMMA PutOpaqueKeeps ==
  ASSUME OutInv, NEW size \in OpaqueSizes, PutOpaque(size) PROVE OutInv'
<1>1. /\ Aligned(out_finger) /\ size \in Nat \ {0} /\ out_finger \in Nat
      /\ UNCHANGED <<wire, open, out_buf, out_finger, frag_header, frag_sent,
                     marks, fails, nput, ends, strayed>>
  <2>1. Idle /\ size > 0
        /\ UNCHANGED <<wire, open, out_buf, out_finger, frag_header, frag_sent,
                       marks, fails, nput, ends, strayed>>
    BY DEF PutOpaque
  <2>2. size \in Nat
    BY OutAssumption DEF OutAssumption
  <2>3. Aligned(out_finger)
    BY <2>1, IdleAligned DEF Idle
  <2>4. out_finger \in Nat
    BY DEF OutInv, OutTypeOK
  <2> QED BY <2>1, <2>2, <2>3, <2>4
<1>2. RNDUP(size) \in Nat /\ RNDUP(size) >= size /\ Aligned(RNDUP(size))
  BY <1>1, RndUpAligned
<1>3. calls' = [bytes |-> size, pad |-> RNDUP(size) - size]
  BY DEF PutOpaque
<1>4. calls' \in [bytes : Nat, pad : Nat] /\ calls'.bytes # 0 /\ Pending' = RNDUP(size)
  BY <1>1, <1>2, <1>3 DEF Pending
<1>5. PutsEndAligned'
  BY <1>1, <1>2, <1>4, AlignedSum DEF PutsEndAligned, Aligned
<1>6. MarksAreExact' /\ PutsFill'
  BY <1>1, IdleKeepsMarks
<1> QED
  BY <1>1, <1>4, <1>5, <1>6
  DEF OutInv, OutTypeOK, FingerInFragment, FragmentHasRoom, BufferIsGood, WireIsGood, Aligned

LEMMA PutInlineKeeps ==
  ASSUME OutInv, NEW n \in InlineSizes, PutInline(n) PROVE OutInv'
<1>1. /\ Aligned(out_finger) /\ n \in Nat /\ Aligned(n) /\ out_finger + n <= SendSize
      /\ calls = NoCalls /\ calls' = NoCalls /\ Pending' = 0 /\ out_finger \in Nat
      /\ calls' \in [bytes : Nat, pad : Nat] /\ calls'.pad = 0
  BY IdleAligned, OutAssumption
  DEF PutInline, Idle, Fits, OutAssumption, Pending, OutInv, OutTypeOK, NoCalls
<1>2. /\ out_buf' = Store(out_buf, out_finger, n)
      /\ out_finger' = out_finger + n /\ nput' = nput + n
      /\ UNCHANGED <<wire, open, frag_header, frag_sent, marks, fails, ends, strayed>>
  BY DEF PutInline
<1>3. PutsEndAligned'
  <2>1. Aligned(out_finger + n) BY <1>1, AlignedSum
  <2> QED BY <1>1, <1>2, <2>1 DEF PutsEndAligned, Aligned
<1>4. MarksAreExact' /\ PutsFill'
  <2>1. n \in Int /\ UNCHANGED <<wire, frag_header, marks, fails, ends>>
    BY <1>1, <1>2
  <2> QED BY <1>1, <1>2, <2>1, StoreKeepsMarks, ShiftFills
<1> QED BY <1>1, <1>2, <1>3, <1>4, AdvanceKeeps DEF OutInv

LEMMA PutBytesStepKeeps == ASSUME OutInv, PutBytesStep PROVE OutInv'
<1> DEFINE n == MinOf(calls.bytes, SendSize - out_finger)
           rest == calls.bytes - n
           buf == Store(out_buf, out_finger, n)
           finger == out_finger + n
           more == IF rest = 0 THEN [bytes |-> calls.pad, pad |-> 0]
                               ELSE [calls EXCEPT !.bytes = rest]
<1>1. /\ calls \in [bytes : Nat, pad : Nat] /\ calls.bytes > 0
      /\ out_finger \in Nat /\ out_finger <= SendSize /\ SendSize \in Nat
      /\ Aligned(out_finger + Pending)
  <2> HIDE DEF n, rest, buf, finger, more
  <2>0. /\ calls \in [bytes : Nat, pad : Nat] /\ calls # NoCalls
        /\ calls.bytes = 0 => calls.pad = 0
    BY DEF PutBytesStep, OutInv, OutTypeOK, PutsEndAligned
  <2>1. calls \in [bytes : Nat, pad : Nat] /\ calls.bytes > 0
    BY <2>0 DEF NoCalls
  <2>2. out_finger \in Nat /\ out_finger <= SendSize /\ SendSize \in Nat
    BY OutAssumption DEF OutInv, OutTypeOK, FingerInFragment, OutAssumption
  <2>3. Aligned(out_finger + Pending)
    BY DEF OutInv, PutsEndAligned
  <2> QED BY <2>1, <2>2, <2>3
<1>2. n \in Nat /\ rest \in Nat /\ finger \in Nat /\ finger <= SendSize
      /\ out_finger <= finger
  BY <1>1 DEF MinOf
<1>3. /\ more \in [bytes : Nat, pad : Nat]
      /\ more.bytes = 0 => more.pad = 0
      /\ n + (more.bytes + more.pad) = Pending
  BY <1>1, <1>2 DEF Pending
<1>4. /\ nput' = nput + n /\ nput \in Nat
      /\ UNCHANGED <<open, marks, ends, strayed>>
  BY DEF PutBytesStep, OutInv, OutTypeOK
<1>m. MarksAreExact' /\ PutsFill'
  BY PutBytesStepKeepsMarks
<1>5. CASE ~(finger = SendSize /\ rest > 0)
  <2>1. /\ out_buf' = buf /\ out_finger' = finger /\ calls' = more
        /\ UNCHANGED <<wire, frag_header, frag_sent, fails>>
    BY <1>5 DEF PutBytesStep
  <2> HIDE DEF n, rest, more
  <2>2. PutsEndAligned'
    <3>1. out_finger' + Pending' = out_finger + Pending
      BY <1>1, <1>2, <1>3, <2>1 DEF Pending
    <3> QED BY <1>1, <1>3, <2>1, <3>1 DEF PutsEndAligned, Aligned
  <2> QED BY <1>2, <1>3, <1>4, <1>m, <2>1, <2>2, AdvanceKeeps DEF OutInv
<1>6. CASE finger = SendSize /\ rest > 0
  <2>0. /\ frag_sent' = TRUE
        /\ \/ /\ FlushSucceeds(buf, finger, FALSE)
              /\ out_buf' = Headed(buf, finger, FALSE)
              /\ out_finger' = Unit
              /\ calls' = more
           \/ /\ FlushFails(buf, finger, FALSE)
              /\ calls' = NoCalls
    BY <1>6 DEF PutBytesStep
  <2>1. buf \in [Offsets -> Cell] /\ \A a \in Offsets : GoodCell(buf[a])
    <3> HIDE DEF n
    <3> QED BY <1>2, <1>4, StoreType DEF OutInv, OutTypeOK, BufferIsGood
  <2>2. frag_header + Unit < finger
    BY <1>6, OutAssumption DEF OutInv, OutTypeOK, FragmentHasRoom, OutAssumption
  <2>3. nput' \in Nat
    BY <1>2, <1>4
  <2>4. Aligned(finger) /\ Aligned(Unit)
    BY <1>6, OutAssumption, AlignedUnits DEF OutAssumption
  <2> HIDE DEF n, rest, more, buf, finger
  <2>5. CASE FlushFails(buf, finger, FALSE) /\ calls' = NoCalls
    <3>1. /\ wire' \in Seq(Cell) /\ frag_header' \in Nat /\ fails' \in Nat
          /\ out_buf' \in [Offsets -> Cell] /\ out_finger' \in Nat
          /\ out_finger' = finger
          /\ FingerInFragment' /\ FragmentHasRoom'
          /\ BufferIsGood' /\ WireIsGood'
      BY <1>2, <1>4, <2>1, <2>2, <2>5, FALSE \in BOOLEAN, FlushFailsKeeps, Zenon
    <3>2. PutsEndAligned'
      BY <1>2, <2>4, <2>5, <3>1 DEF PutsEndAligned, Pending, NoCalls, Aligned
    <3>3. OutTypeOK'
      BY <1>4, <2>0, <2>3, <2>5, <3>1 DEF OutInv, OutTypeOK, NoCalls
    <3> QED BY <1>m, <3>1, <3>2, <3>3 DEF OutInv
  <2>6. CASE /\ FlushSucceeds(buf, finger, FALSE)
             /\ out_buf' = Headed(buf, finger, FALSE)
             /\ out_finger' = Unit
             /\ calls' = more
    <3>0. out_finger' = Unit /\ calls' = more /\ out_buf' = Headed(buf, finger, FALSE)
      BY <2>6, Zenon
    <3>c. out_finger' \in Nat
      BY <3>0
    <3>1. /\ wire' \in Seq(Cell) /\ frag_header' \in Nat /\ fails' \in Nat
          /\ Headed(buf, finger, FALSE) \in [Offsets -> Cell]
          /\ \A a \in Offsets : GoodCell(Headed(buf, finger, FALSE)[a])
          /\ FragmentHasRoom' /\ WireIsGood'
      BY <1>2, <1>4, <2>1, <2>2, <2>6, <3>c, FALSE \in BOOLEAN, FlushSucceedsKeeps, Zenon
    <3>2. out_buf' \in [Offsets -> Cell] /\ BufferIsGood'
      BY <3>0, <3>1, Zenon DEF BufferIsGood
    <3>3. FingerInFragment'
      BY <2>6, OutAssumption DEF FingerInFragment, FlushSucceeds, OutAssumption
    <3>4. PutsEndAligned'
      <4>1. Pending \in Nat /\ Pending' = Pending - n /\ Pending' \in Nat
        BY <1>1, <1>2, <1>3, <3>0 DEF Pending
      <4>2. out_finger + Pending = finger + Pending'
        BY <1>1, <1>2, <4>1 DEF finger
      <4>3. Aligned(Pending')
        BY <1>1, <1>2, <2>4, <4>1, <4>2, AlignedDifference
      <4>4. Aligned(Unit + Pending')
        BY <2>4, <4>1, <4>3, AlignedSum
      <4> QED BY <1>3, <3>0, <4>4 DEF PutsEndAligned, Aligned
    <3>5. OutTypeOK'
      BY <1>3, <1>4, <2>0, <2>3, <3>0, <3>c, <3>1, <3>2 DEF OutInv, OutTypeOK
    <3> QED BY <1>m, <3>1, <3>2, <3>3, <3>4, <3>5 DEF OutInv
  <2> QED BY <2>0, <2>5, <2>6
<1> QED BY <1>5, <1>6

LEMMA EndOfRecordKeeps ==
  ASSUME OutInv, NEW sendnow \in BOOLEAN, EndOfRecord(sendnow) PROVE OutInv'
<1>1. /\ Aligned(out_finger) /\ calls = NoCalls /\ calls' = NoCalls /\ Pending' = 0
      /\ calls' \in [bytes : Nat, pad : Nat] /\ calls'.pad = 0
  BY IdleAligned DEF EndOfRecord, Idle, Pending, NoCalls
<1>2. /\ out_buf \in [Offsets -> Cell] /\ (\A a \in Offsets : GoodCell(out_buf[a]))
      /\ out_finger \in Nat /\ frag_header \in Nat /\ nput \in Nat /\ ends \in Seq(Nat)
      /\ SendSize \in Nat /\ out_finger <= SendSize /\ out_finger <= out_finger
      /\ frag_header + Unit <= out_finger
  BY OutAssumption DEF OutInv, OutTypeOK, BufferIsGood, FingerInFragment, OutAssumption
<1>3. UNCHANGED <<open, calls, marks, nput, strayed>>
  BY DEF EndOfRecord
<1>4. Append(ends, nput) \in Seq(Nat) /\ Len(Append(ends, nput)) = Len(ends) + 1
  BY <1>2
<1>m. MarksAreExact' /\ PutsFill'
  BY EndOfRecordKeepsMarks
<1>5. CASE ~MustFlush(sendnow)
  <2>1. /\ out_buf' = Headed(out_buf, out_finger, TRUE)
        /\ frag_header' = out_finger
        /\ out_finger' = out_finger + Unit
        /\ ends' = Append(ends, nput)
        /\ UNCHANGED <<wire, frag_sent, fails>>
    BY <1>5 DEF EndOfRecord
  <2>2. out_finger + Unit < SendSize
    BY <1>2, <1>5 DEF MustFlush
  <2>3. out_buf' \in [Offsets -> Cell] /\ BufferIsGood'
    <3>1. Headed(out_buf, out_finger, TRUE) \in [Offsets -> Cell]
            /\ \A a \in Offsets : GoodCell(Headed(out_buf, out_finger, TRUE)[a])
      BY <1>2, TRUE \in BOOLEAN, HeadedType, Zenon
    <3> QED BY <2>1, <3>1 DEF BufferIsGood
  <2>4. OutTypeOK'
    <3>1. out_finger' \in Nat /\ frag_header' \in Nat /\ ends' \in Seq(Nat)
      BY <1>2, <1>4, <2>1
    <3>2. UNCHANGED <<wire, frag_sent, fails>>
      BY <2>1
    <3> QED BY <1>1, <1>3, <2>3, <3>1, <3>2 DEF OutInv, OutTypeOK
  <2>5. FingerInFragment'
    BY <1>2, <2>1, <2>2 DEF FingerInFragment
  <2>6. Aligned(out_finger + Unit)
    BY <1>1, <1>2, AlignedSum, AlignedUnits
  <2>7. FragmentHasRoom'
    <3>1. out_finger + Unit + Unit <= SendSize
      BY <1>2, <2>2, <2>6, AlignedGap, OutAssumption DEF OutAssumption
    <3> QED BY <1>1, <1>2, <2>1, <3>1 DEF FragmentHasRoom, Aligned
  <2>8. PutsEndAligned'
    BY <1>1, <1>2, <2>1, <2>6 DEF PutsEndAligned, Aligned
  <2> QED BY <1>m, <2>1, <2>3, <2>4, <2>5, <2>7, <2>8 DEF OutInv, WireIsGood
<1>6. CASE MustFlush(sendnow)
  <2>0. /\ frag_sent' = FALSE
        /\ \/ /\ FlushSucceeds(out_buf, out_finger, TRUE)
              /\ out_buf' = Headed(out_buf, out_finger, TRUE)
              /\ out_finger' = Unit
              /\ ends' = Append(ends, nput)
           \/ /\ FlushFails(out_buf, out_finger, TRUE)
              /\ ends' = ends
    BY <1>6 DEF EndOfRecord
  <2>1. CASE FlushFails(out_buf, out_finger, TRUE) /\ ends' = ends
    <3>1. /\ wire' \in Seq(Cell) /\ frag_header' \in Nat /\ fails' \in Nat
          /\ out_buf' \in [Offsets -> Cell] /\ out_finger' \in Nat
          /\ out_finger' = out_finger
          /\ FingerInFragment' /\ FragmentHasRoom'
          /\ BufferIsGood' /\ WireIsGood'
      BY <1>2, <1>3, <2>1, TRUE \in BOOLEAN, FlushFailsKeeps, Zenon
    <3>2. PutsEndAligned'
      BY <1>1, <1>2, <3>1 DEF PutsEndAligned, Aligned
    <3>3. OutTypeOK'
      BY <1>1, <1>2, <1>3, <2>0, <2>1, <3>1 DEF OutInv, OutTypeOK
    <3> QED BY <1>m, <3>1, <3>2, <3>3 DEF OutInv
  <2>2. CASE /\ FlushSucceeds(out_buf, out_finger, TRUE)
             /\ out_buf' = Headed(out_buf, out_finger, TRUE)
             /\ out_finger' = Unit
             /\ ends' = Append(ends, nput)
    <3>0. /\ out_finger' = Unit /\ ends' = Append(ends, nput)
          /\ out_buf' = Headed(out_buf, out_finger, TRUE)
      BY <2>2, Zenon
    <3>c. out_finger' \in Nat
      BY <3>0
    <3>1. /\ wire' \in Seq(Cell) /\ frag_header' \in Nat /\ fails' \in Nat
          /\ Headed(out_buf, out_finger, TRUE) \in [Offsets -> Cell]
          /\ \A a \in Offsets : GoodCell(Headed(out_buf, out_finger, TRUE)[a])
          /\ FragmentHasRoom' /\ WireIsGood'
      BY <1>2, <1>3, <2>2, <3>c, TRUE \in BOOLEAN, FlushSucceedsKeeps, Zenon
    <3>2. out_buf' \in [Offsets -> Cell] /\ BufferIsGood'
      BY <3>0, <3>1, Zenon DEF BufferIsGood
    <3>3. FingerInFragment'
      BY <2>2, OutAssumption DEF FingerInFragment, FlushSucceeds, OutAssumption
    <3>4. PutsEndAligned'
      BY <1>1, <3>0, AlignedUnits DEF PutsEndAligned, Aligned
    <3>5. OutTypeOK'
      BY <1>1, <1>2, <1>3, <1>4, <2>0, <3>0, <3>c, <3>1, <3>2 DEF OutInv, OutTypeOK
    <3> QED BY <1>m, <3>1, <3>2, <3>3, <3>4, <3>5 DEF OutInv
  <2> QED BY <2>0, <2>1, <2>2
<1> QED BY <1>5, <1>6

LEMMA GetPosKeeps == ASSUME OutInv, GetPos PROVE OutInv'
<1>1. UNCHANGED <<wire, open, out_buf, out_finger, frag_header, frag_sent,
                  calls, fails, nput, ends, strayed>>
  BY DEF GetPos
<1>2. marks' \subseteq [pos : Nat, nput : Nat, ends : Nat, fails : Nat]
  <2>1. Here \in [pos : Nat, nput : Nat, ends : Nat, fails : Nat]
    <3>1. /\ Len(wire) \in Nat /\ Len(ends) \in Nat /\ nput \in Nat /\ out_finger \in Nat
          /\ fails \in Nat
      BY DEF OutInv, OutTypeOK
    <3>2. Position \in Nat
      BY <3>1 DEF Position
    <3> QED BY <3>1, <3>2 DEF Here
  <2>2. \A m \in marks' : m \in marks \/ m = Here
    BY DEF GetPos
  <2> QED BY <2>1, <2>2 DEF OutInv, OutTypeOK
<1>3. OutTypeOK'
  BY <1>1, <1>2 DEF OutInv, OutTypeOK
<1>4. MarksAreExact' /\ PutsFill'
  BY GetPosKeepsMarks
<1>5. FingerInFragment' /\ PutsEndAligned' /\ FragmentHasRoom' /\ BufferIsGood' /\ WireIsGood'
  BY <1>1 DEF OutInv, FingerInFragment, PutsEndAligned, Pending, FragmentHasRoom,
              BufferIsGood, WireIsGood, Aligned
<1> QED BY <1>3, <1>4, <1>5 DEF OutInv

LEMMA SetPosKeeps == ASSUME OutInv, SetPos PROVE OutInv'
<1>1. PICK m \in marks : SetPosTo(m)
  BY DEF SetPos
<1>2. /\ out_finger' = MarkAt(m) /\ out_finger' \in Nat
      /\ frag_header + Unit <= out_finger' /\ out_finger' <= SendSize
      /\ Aligned(out_finger') /\ nput' \in Nat
  BY <1>1, SetPosLands
<1>3. /\ calls = NoCalls
      /\ UNCHANGED <<wire, open, out_buf, frag_header, frag_sent, calls, marks, fails, ends>>
  BY <1>1 DEF SetPosTo, Idle
<1>4. strayed' \in BOOLEAN
  BY <1>1, Zenon DEF SetPosTo
<1>5. OutTypeOK'
  BY <1>2, <1>3, <1>4 DEF OutInv, OutTypeOK
<1>6. FingerInFragment'
  BY <1>2, <1>3 DEF FingerInFragment
<1>7. PutsEndAligned'
  BY <1>2, <1>3 DEF PutsEndAligned, Pending, NoCalls, Aligned
<1>8. FragmentHasRoom' /\ BufferIsGood' /\ WireIsGood'
  BY <1>3 DEF OutInv, FragmentHasRoom, BufferIsGood, WireIsGood, Aligned
<1>9. MarksAreExact' /\ PutsFill'
  BY SetPosKeepsMarks
<1> QED BY <1>5, <1>6, <1>7, <1>8, <1>9 DEF OutInv

LEMMA OutStutterKeeps ==
  ASSUME OutInv, UNCHANGED <<wire, outVars>>, open' \in BOOLEAN PROVE OutInv'
<1>1. MarksAreExact' /\ PutsFill'
  BY IdleKeepsMarks DEF outVars
<1> QED BY <1>1 DEF OutInv, OutTypeOK, outVars, FingerInFragment, PutsEndAligned, Pending,
                    FragmentHasRoom, BufferIsGood, WireIsGood, Aligned

LEMMA OutInitEstablishes ==
  ASSUME wire = << >>, open = TRUE, OutInit PROVE OutInv
<1>1. /\ out_buf = [a \in Offsets |-> Junk] /\ out_finger = Unit /\ frag_header = 0
      /\ frag_sent = FALSE /\ calls = NoCalls /\ marks = {}
      /\ fails = 0 /\ nput = 0 /\ ends = << >> /\ strayed = FALSE
  BY DEF OutInit
<1>2. Junk \in Cell /\ GoodCell(Junk)
  BY DEF Junk, Payload, Cell, GoodCell
<1>3. OutTypeOK
  <2>1. out_buf \in [Offsets -> Cell]
    BY <1>1, <1>2
  <2>2. calls \in [bytes : Nat, pad : Nat]
    BY <1>1 DEF NoCalls
  <2>3. marks \subseteq [pos : Nat, nput : Nat, ends : Nat, fails : Nat]
    BY <1>1
  <2>4. wire \in Seq(Cell) /\ ends \in Seq(Nat)
    BY <1>1
  <2>5. /\ open \in BOOLEAN /\ frag_sent \in BOOLEAN /\ strayed \in BOOLEAN
    BY <1>1, Zenon
  <2>6. out_finger \in Nat /\ frag_header \in Nat /\ fails \in Nat /\ nput \in Nat
    BY <1>1
  <2> QED BY <2>1, <2>2, <2>3, <2>4, <2>5, <2>6 DEF OutTypeOK
<1>4. BufferIsGood /\ WireIsGood
  BY <1>1, <1>2 DEF BufferIsGood, WireIsGood
<1>5. FingerInFragment /\ FragmentHasRoom
  BY <1>1, AlignedUnits, OutAssumption DEF FingerInFragment, FragmentHasRoom, OutAssumption
<1>6. PutsEndAligned
  BY <1>1, AlignedUnits DEF PutsEndAligned, Pending, NoCalls
<1>7. MarksAreExact /\ PutsFill
  BY <1>1 DEF MarksAreExact, PutsFill, OpenSize
<1> QED BY <1>3, <1>4, <1>5, <1>6, <1>7 DEF OutInv

LEMMA OutNextKeeps == ASSUME OutInv, OutNext PROVE OutInv'
<1>1. CASE PutLong BY <1>1, PutLongKeeps
<1>2. CASE \E size \in OpaqueSizes : PutOpaque(size) BY <1>2, PutOpaqueKeeps
<1>3. CASE PutBytesStep BY <1>3, PutBytesStepKeeps
<1>4. CASE \E n \in InlineSizes : PutInline(n) BY <1>4, PutInlineKeeps
<1>5. CASE \E sendnow \in BOOLEAN : EndOfRecord(sendnow) BY <1>5, EndOfRecordKeeps, Zenon
<1>6. CASE GetPos BY <1>6, GetPosKeeps
<1>7. CASE SetPos BY <1>7, SetPosKeeps
<1>8. CASE Destroy BY <1>8, OutStutterKeeps DEF Destroy, outVars
<1> QED BY <1>1, <1>2, <1>3, <1>4, <1>5, <1>6, <1>7, <1>8 DEF OutNext
-----------------------------------------------------------------------------
(***************************************************************************)
(* The invariant of the writer, for every buffer size, caller and failure. *)
(***************************************************************************)
THEOREM OutInvariance == OutSpec => []OutInv
<1>1. OutStart => OutInv
  BY OutInitEstablishes DEF OutStart
<1>2. OutInv /\ [OutNext]_<<wireVars, outVars>> => OutInv'
  <2> SUFFICES ASSUME OutInv, [OutNext]_<<wireVars, outVars>> PROVE OutInv'
    OBVIOUS
  <2>1. CASE UNCHANGED <<wireVars, outVars>>
    BY <2>1, OutStutterKeeps DEF wireVars, OutInv, OutTypeOK
  <2> QED BY <2>1, OutNextKeeps
<1> QED BY <1>1, <1>2, PTL DEF OutSpec

(***************************************************************************)
(* The variables keep their types: no negative fragment length, in         *)
(* particular, is ever encoded in a header.                                *)
(***************************************************************************)
THEOREM OutTypeCorrect == OutSpec => []OutTypeOK
<1>1. OutInv => OutTypeOK BY DEF OutInv
<1> QED BY <1>1, OutInvariance, PTL

(***************************************************************************)
(* Every store of the writer is in its buffer and past the header of the   *)
(* fragment it fills.                                                      *)
(***************************************************************************)
THEOREM FingerStaysInFragment == OutSpec => []FingerInFragment
<1>1. OutInv => FingerInFragment BY DEF OutInv
<1> QED BY <1>1, OutInvariance, PTL

(***************************************************************************)
(* The writer never sends the zero word set_input_fragment refuses.        *)
(***************************************************************************)
THEOREM NeverAnEmptyInnerFragment == OutSpec => []NoEmptyInnerFragment
<1>1. OutInv => NoEmptyInnerFragment
  BY DEF OutInv, WireIsGood, GoodCell, NoEmptyInnerFragment
<1> QED BY <1>1, OutInvariance, PTL

(***************************************************************************)
(* Of all the positions the caller keeps, of whatever age, x_setpostn      *)
(* either refuses one or goes to the byte it was taken at, in the record   *)
(* it was taken in: save those that the caller cut off by ending a record  *)
(* in front of them.                                                       *)
(***************************************************************************)
THEOREM SetPosReachesItsByte == OutSpec => SetPosIsExact
<1>1. OutInv
        => [\A m \in marks :
              SetPosTo(m) /\ ~Abandoned(m) => nput' = m.nput /\ Len(ends) = m.ends]_outVars
  BY SetPosLands
<1> QED BY <1>1, OutInvariance, PTL DEF SetPosIsExact

-----------------------------------------------------------------------------
(***************************************************************************)
(* The inductive invariant, on top of OutInv, while the caller has not     *)
(* strayed (KeptInv).  BufferKept holds whatever writeit does;             *)
(* StreamIsGood while it has not failed.  A caller may go forth again to   *)
(* where it was, and finds there what it had encoded (MarksHold).          *)
(***************************************************************************)
\* Gone, without the sequence OpenPayload.
Away == nput - OpenSize - PayloadCount(ClosedPart, frag_header)

AwayIsSent == \A k \in 1..Away : \E i \in 1..Len(wire) : wire[i] = Payload(k)

BufferKept ==
  /\ Whole(ClosedPart)
  /\ NumberedFrom(ClosedPart, Away)
  /\ CarriesAll(ClosedPart, Away)
  /\ OpenNumbered(out_buf, frag_header, out_finger, nput)
  /\ AwayIsSent

StreamIsGood ==
  /\ Whole(wire)
  /\ Whole(ClosedStream)
  /\ NumberedFrom(ClosedStream, 0)
  /\ RecordsFit(ClosedStream, ends)
  /\ Records(ClosedStream, Len(ClosedStream)) = Len(ends)
  /\ PayloadCount(ClosedStream, Len(ClosedStream)) + OpenSize = nput
  /\ LastEnd <= PayloadCount(ClosedStream, Len(ClosedStream))
  /\ frag_sent <=> PartSent

StreamInv == BufferKept /\ (fails = 0 => StreamIsGood)

KeptInv == ~strayed => StreamInv /\ MarksHold
-----------------------------------------------------------------------------
(* Sequences of the bytes of a buffer.                                     *)

LEMMA PayloadIsPayload == \A k : IsPayload(Payload(k)) /\ Payload(k).k = k
BY DEF Payload, IsPayload

LEMMA BytesFacts ==
  ASSUME NEW buf \in [Offsets -> Cell], NEW n \in Nat, n <= SendSize
  PROVE  /\ Bytes(buf, n) \in Seq(Cell)
         /\ Len(Bytes(buf, n)) = n
         /\ \A i \in 1..n : Bytes(buf, n)[i] = buf[i - 1] /\ i - 1 \in Offsets
<1>1. \A i \in 1..n : i - 1 \in Offsets
  BY OutAssumption DEF Offsets, OutAssumption
<1>2. \A i \in 1..n : buf[i - 1] \in Cell
  BY <1>1
<1> QED BY <1>1, <1>2 DEF Bytes

LEMMA OutFacts ==
  ASSUME OutInv
  PROVE  /\ wire \in Seq(Cell) /\ Len(wire) \in Nat
         /\ out_buf \in [Offsets -> Cell]
         /\ out_finger \in Nat /\ frag_header \in Nat /\ nput \in Nat /\ ends \in Seq(Nat)
         /\ fails \in Nat
         /\ frag_header + Unit <= out_finger /\ out_finger <= SendSize /\ SendSize \in Nat
         /\ frag_header <= SendSize /\ frag_header + 2 * Unit <= SendSize
         /\ OpenSize \in Nat /\ OpenSize = out_finger - frag_header - Unit
<1>1. /\ wire \in Seq(Cell) /\ out_buf \in [Offsets -> Cell]
      /\ out_finger \in Nat /\ frag_header \in Nat /\ nput \in Nat /\ ends \in Seq(Nat)
      /\ fails \in Nat
  BY DEF OutInv, OutTypeOK
<1>2. Len(wire) \in Nat
  BY <1>1
<1>3. /\ frag_header + Unit <= out_finger /\ out_finger <= SendSize /\ SendSize \in Nat
      /\ frag_header + 2 * Unit <= SendSize
  BY OutAssumption DEF OutInv, FingerInFragment, FragmentHasRoom, OutAssumption
<1>4. frag_header <= SendSize /\ OpenSize \in Nat /\ OpenSize = out_finger - frag_header - Unit
  BY <1>1, <1>3 DEF OpenSize
<1> QED BY <1>1, <1>2, <1>3, <1>4

LEMMA LastEndType == ASSUME OutInv PROVE LastEnd \in Nat
<1>1. ends \in Seq(Nat)
  BY OutFacts
<1>2. CASE ends = << >>
  BY <1>2 DEF LastEnd
<1>3. CASE ends # << >>
  <2>1. Len(ends) \in 1..Len(ends)
    BY <1>1, <1>3
  <2>2. ends[Len(ends)] \in Nat
    BY <1>1, <2>1
  <2> QED BY <1>3, <2>2 DEF LastEnd
<1> QED BY <1>2, <1>3

LEMMA ClosedFacts ==
  ASSUME OutInv
  PROVE  /\ ClosedPart \in Seq(Cell) /\ Len(ClosedPart) = frag_header
         /\ ClosedStream \in Seq(Cell) /\ Len(ClosedStream) = Len(wire) + frag_header
         /\ \A i \in 1..frag_header : ClosedPart[i] = out_buf[i - 1]
         /\ Begins(wire, ClosedStream)
         /\ PayloadCount(ClosedPart, frag_header) \in Nat
         /\ PayloadCount(ClosedStream, Len(ClosedStream)) \in Nat
<1>1. ClosedPart \in Seq(Cell) /\ Len(ClosedPart) = frag_header
      /\ \A i \in 1..frag_header : ClosedPart[i] = out_buf[i - 1]
  BY OutFacts, BytesFacts DEF ClosedPart
<1>2. ClosedStream \in Seq(Cell) /\ Len(ClosedStream) = Len(wire) + frag_header
  BY <1>1, OutFacts, ConcatProperties DEF ClosedStream
<1>3. Begins(wire, ClosedStream)
  BY <1>1, <1>2, OutFacts, ConcatProperties DEF ClosedStream, Begins
<1>4. frag_header \in Nat /\ Len(ClosedStream) \in Nat
  BY <1>2, OutFacts
<1> QED BY <1>1, <1>2, <1>3, <1>4, PayloadCountType

LEMMA OpenFacts ==
  ASSUME OutInv
  PROVE  /\ Len(OpenPayload) = OpenSize
         /\ \A i \in 1..OpenSize : OpenPayload[i] = out_buf[frag_header + Unit + i - 1]
BY OutFacts DEF OpenPayload, OpenSize

\* Only the last fragment of a record may be empty.
CanClose(finger, last) == last \in BOOLEAN /\ (~last => frag_header + Unit < finger)

\* The open fragment of a buffer, closed: one fragment behind ClosedPart.
LEMMA HeadedAppends ==
  ASSUME OutInv, NEW buf \in [Offsets -> Cell], NEW finger \in Nat, NEW last,
         \A a \in Offsets : GoodCell(buf[a]), CanClose(finger, last),
         NEW put \in Nat,
         frag_header + Unit <= finger, finger <= SendSize,
         \A a \in 0..(frag_header - 1) : buf[a] = out_buf[a],
         OpenNumbered(buf, frag_header, finger, put)
  PROVE  LET t == Bytes(Headed(buf, finger, last), finger)
             n == finger - frag_header - Unit
         IN  /\ t \in Seq(Cell) /\ Len(t) = finger /\ n \in Nat
             /\ AppendsFragment(ClosedPart, t, last, n)
             /\ \A j \in 1..n : t[frag_header + Unit + j] = Payload(put - n + j)
<1> DEFINE h == Headed(buf, finger, last)
           t == Bytes(h, finger)
           n == finger - frag_header - Unit
<1>a. frag_header \in Nat /\ SendSize \in Nat
  BY OutFacts
<1>b. /\ Len(ClosedPart) = frag_header
      /\ \A i \in 1..frag_header : ClosedPart[i] = out_buf[i - 1]
  BY ClosedFacts
<1>c. n \in Nat /\ n = finger - frag_header - Unit
  BY <1>a
<1>0. /\ frag_header \in Nat /\ SendSize \in Nat /\ n \in Nat /\ n = finger - frag_header - Unit
      /\ Len(ClosedPart) = frag_header
      /\ \A i \in 1..frag_header : ClosedPart[i] = out_buf[i - 1]
  BY <1>a, <1>b, <1>c
<1>1. h \in [Offsets -> Cell]
  BY OutFacts, HeadedType DEF CanClose
<1>2. /\ \A a \in 0..(frag_header - 1) : h[a] = out_buf[a]
      /\ \A j \in 1..Unit : h[frag_header + j - 1] = HeaderByte(last, n, j)
      /\ \A a \in (frag_header + Unit)..(finger - 1) : h[a] = buf[a]
  <2>1. ASSUME NEW a \in 0..(frag_header - 1) PROVE h[a] = out_buf[a]
    <3>1. a \in Offsets /\ a \notin frag_header..(frag_header + Unit - 1)
      BY <1>0 DEF Offsets
    <3> QED BY <3>1 DEF Headed
  <2>2. ASSUME NEW j \in 1..Unit PROVE h[frag_header + j - 1] = HeaderByte(last, n, j)
    <3> DEFINE a == frag_header + j - 1
    <3>1. /\ a \in Offsets
          /\ a \in frag_header..(frag_header + Unit - 1)
          /\ a - frag_header + 1 = j
      <4>1. frag_header + Unit <= SendSize /\ a \in Int /\ a - frag_header + 1 = j
        BY <1>0
      <4>2. 0 <= a /\ frag_header <= a /\ a <= frag_header + Unit - 1
        BY <1>0
      <4> HIDE DEF a
      <4> QED BY <1>0, <4>1, <4>2 DEF Offsets
    <3> HIDE DEF a
    <3>2. h[a] = HeaderByte(last, n, a - frag_header + 1)
      BY <3>1 DEF Headed
    <3> QED BY <3>1, <3>2 DEF a
  <2>3. ASSUME NEW a \in (frag_header + Unit)..(finger - 1) PROVE h[a] = buf[a]
    <3>1. a \in Offsets /\ a \notin frag_header..(frag_header + Unit - 1)
      BY <1>0 DEF Offsets
    <3> QED BY <3>1 DEF Headed
  <2> QED BY <2>1, <2>2, <2>3
<1> HIDE DEF h
<1>3. t \in Seq(Cell) /\ Len(t) = finger /\ \A i \in 1..finger : t[i] = h[i - 1]
  BY <1>1, BytesFacts
<1> HIDE DEF t, n
<1>4. Begins(ClosedPart, t)
  <2>1. ASSUME NEW i \in 1..frag_header PROVE ClosedPart[i] = t[i]
    <3>1. i - 1 \in 0..(frag_header - 1) /\ i \in 1..finger
      BY <1>0
    <3> QED BY <1>0, <1>2, <1>3, <3>1
  <2> QED BY <1>0, <1>3, <2>1 DEF Begins
<1>5. ASSUME NEW j \in 1..Unit PROVE t[frag_header + j] = HeaderByte(last, n, j)
  <2>1. PICK i \in 1..finger : i = frag_header + j
    <3>1. frag_header + j \in 1..finger
      BY <1>0
    <3> QED BY <3>1
  <2>2. t[i] = h[i - 1]
    BY <1>3
  <2>3. i - 1 = frag_header + j - 1
    BY <1>0, <2>1
  <2> QED BY <1>2, <2>1, <2>2, <2>3
<1>6. ASSUME NEW j \in 1..n PROVE t[frag_header + Unit + j] = Payload(put - n + j)
  <2>1. PICK a \in Nat : a = frag_header + Unit + j - 1
    <3>1. frag_header + Unit + j - 1 \in Nat
      BY <1>0
    <3> QED BY <3>1
  <2>2. /\ a \in (frag_header + Unit)..(finger - 1) /\ frag_header + Unit + j \in 1..finger
        /\ put - (finger - 1 - a) = put - n + j /\ a = (frag_header + Unit + j) - 1
    BY <1>0, <2>1
  <2>3. t[frag_header + Unit + j] = buf[a]
    BY <1>2, <1>3, <2>2
  <2>4. buf[a] = Payload(put - (finger - 1 - a))
    BY <2>2 DEF OpenNumbered
  <2> QED BY <2>2, <2>3, <2>4
<1>7. \A j \in 1..n : IsPayload(t[frag_header + Unit + j])
  BY <1>6, PayloadIsPayload
<1>8. Len(t) = frag_header + Unit + n
  BY <1>0, <1>3
<1>9. AppendsFragment(ClosedPart, t, last, n)
  BY <1>0, <1>4, <1>5, <1>7, <1>8 DEF AppendsFragment
<1> QED BY <1>0, <1>3, <1>6, <1>9 DEF t, h, n

\* A fragment appended to ClosedPart is appended to the stream.
LEMMA StreamAppends ==
  ASSUME OutInv, NEW t \in Seq(Cell), NEW last, NEW n \in Nat,
         AppendsFragment(ClosedPart, t, last, n)
  PROVE  /\ wire \o t \in Seq(Cell)
         /\ Len(wire \o t) = Len(wire) + Len(t)
         /\ AppendsFragment(ClosedStream, wire \o t, last, n)
         /\ \A j \in 1..n :
              (wire \o t)[Len(ClosedStream) + Unit + j] = t[frag_header + Unit + j]
<1> DEFINE T == wire \o t
<1>0. /\ Len(ClosedPart) = frag_header /\ frag_header \in Nat /\ Len(wire) \in Nat
      /\ ClosedPart \in Seq(Cell) /\ wire \in Seq(Cell)
      /\ Len(ClosedStream) = Len(wire) + frag_header
      /\ Len(t) = frag_header + Unit + n
  BY OutFacts, ClosedFacts DEF AppendsFragment
<1>1. T \in Seq(Cell) /\ Len(T) = Len(wire) + Len(t)
      /\ (\A i \in 1..Len(wire) : T[i] = wire[i])
      /\ (\A i \in 1..Len(t) : T[Len(wire) + i] = t[i])
  <2>1. T \in Seq(Cell) /\ Len(T) = Len(wire) + Len(t)
    BY <1>0, ConcatProperties
  <2>2. \A i \in 1..Len(wire) : T[i] = wire[i]
    BY <1>0
  <2>3. \A i \in 1..Len(t) : T[Len(wire) + i] = t[i]
    BY <1>0
  <2> QED BY <2>1, <2>2, <2>3
<1>2. \A i \in 1..Len(wire) : ClosedStream[i] = wire[i]
  BY <1>0 DEF ClosedStream
<1>3. \A i \in 1..frag_header : ClosedStream[Len(wire) + i] = ClosedPart[i]
  BY <1>0 DEF ClosedStream
<1> HIDE DEF T
<1>4. \A i \in 1..frag_header : t[i] = ClosedPart[i]
  BY <1>0 DEF AppendsFragment, Begins
<1>5. Begins(ClosedStream, T)
  <2>1. ASSUME NEW i \in 1..Len(ClosedStream) PROVE ClosedStream[i] = T[i]
    <3>1. CASE i <= Len(wire)
      BY <1>0, <1>1, <1>2, <3>1
    <3>2. CASE i > Len(wire)
      <4>1. i - Len(wire) \in 1..frag_header /\ i - Len(wire) \in 1..Len(t)
            /\ i = Len(wire) + (i - Len(wire))
        BY <1>0, <3>2
      <4> QED BY <1>1, <1>3, <1>4, <4>1
    <3> QED BY <1>0, <3>1, <3>2
  <2>2. Len(ClosedStream) <= Len(T)
    BY <1>0, <1>1
  <2> QED BY <2>1, <2>2 DEF Begins
<1>6. ASSUME NEW j \in 1..(Unit + n) PROVE T[Len(ClosedStream) + j] = t[frag_header + j]
  <2>1. frag_header + j \in 1..Len(t) /\ Len(ClosedStream) + j = Len(wire) + (frag_header + j)
    BY <1>0
  <2> QED BY <1>1, <2>1
<1>7. \A j \in 1..Unit : T[Len(ClosedStream) + j] = HeaderByte(last, n, j)
  <2>1. \A j \in 1..Unit : j \in 1..(Unit + n)
    OBVIOUS
  <2>2. \A j \in 1..Unit : t[frag_header + j] = HeaderByte(last, n, j)
    BY <1>0 DEF AppendsFragment
  <2> QED BY <1>6, <2>1, <2>2
<1>8. ASSUME NEW j \in 1..n
      PROVE  T[Len(ClosedStream) + Unit + j] = t[frag_header + Unit + j]
  <2>1. /\ Unit + j \in 1..(Unit + n)
        /\ Len(ClosedStream) + Unit + j = Len(ClosedStream) + (Unit + j)
        /\ frag_header + Unit + j = frag_header + (Unit + j)
    BY <1>0
  <2> QED BY <1>6, <2>1
<1>9. \A j \in 1..n : IsPayload(T[Len(ClosedStream) + Unit + j])
  BY <1>0, <1>8 DEF AppendsFragment
<1>10. Len(T) = Len(ClosedStream) + Unit + n
  BY <1>0, <1>1
<1>11. AppendsFragment(ClosedStream, T, last, n)
  BY <1>5, <1>7, <1>9, <1>10 DEF AppendsFragment
<1> QED BY <1>1, <1>8, <1>11 DEF T
-----------------------------------------------------------------------------
(* What a flush puts on the wire, and what it leaves in the buffer.        *)

\* memcpy continues the open fragment and touches nothing before it.
LEMMA StoreContinues ==
  ASSUME OutInv, OpenNumbered(out_buf, frag_header, out_finger, nput),
         NEW n \in Nat, out_finger + n <= SendSize
  PROVE  LET buf == Store(out_buf, out_finger, n)
         IN  /\ buf \in [Offsets -> Cell]
             /\ \A a \in Offsets : GoodCell(buf[a])
             /\ \A a \in 0..(frag_header - 1) : buf[a] = out_buf[a]
             /\ OpenNumbered(buf, frag_header, out_finger + n, nput + n)
<1> DEFINE buf == Store(out_buf, out_finger, n)
<1>0. /\ out_buf \in [Offsets -> Cell] /\ out_finger \in Nat /\ frag_header \in Nat
      /\ nput \in Nat /\ SendSize \in Nat /\ frag_header + Unit <= out_finger
  BY OutFacts
<1>1. buf \in [Offsets -> Cell] /\ \A a \in Offsets : GoodCell(buf[a])
  BY <1>0, StoreType DEF OutInv, BufferIsGood
<1>2. ASSUME NEW a \in 0..(out_finger - 1) PROVE buf[a] = out_buf[a]
  <2>1. a \in Offsets /\ a \notin out_finger..(out_finger + n - 1)
    BY <1>0 DEF Offsets
  <2> QED BY <2>1 DEF Store
<1>3. ASSUME NEW a \in out_finger..(out_finger + n - 1)
      PROVE  buf[a] = Payload(nput + 1 + (a - out_finger))
  <2>1. a \in Offsets
    BY <1>0 DEF Offsets
  <2> QED BY <2>1 DEF Store
<1> HIDE DEF buf
<1>4. ASSUME NEW a \in (frag_header + Unit)..(out_finger + n - 1)
      PROVE  buf[a] = Payload(nput + n - (out_finger + n - 1 - a))
  <2>1. CASE a < out_finger
    <3>1. /\ a \in 0..(out_finger - 1) /\ a \in (frag_header + Unit)..(out_finger - 1)
          /\ nput + n - (out_finger + n - 1 - a) = nput - (out_finger - 1 - a)
      BY <1>0, <2>1
    <3> QED BY <1>2, <3>1 DEF OpenNumbered
  <2>2. CASE a >= out_finger
    <3>1. /\ a \in out_finger..(out_finger + n - 1)
          /\ nput + n - (out_finger + n - 1 - a) = nput + 1 + (a - out_finger)
      BY <1>0, <2>2
    <3> QED BY <1>3, <3>1
  <2> QED BY <1>0, <2>1, <2>2
<1>5. \A a \in 0..(frag_header - 1) : buf[a] = out_buf[a]
  BY <1>0, <1>2
<1>6. OpenNumbered(buf, frag_header, out_finger + n, nput + n)
  <2> DEFINE f == out_finger + n
             p == nput + n
  <2>1. ASSUME NEW a \in (frag_header + Unit)..(f - 1)
        PROVE  buf[a] = Payload(p - (f - 1 - a))
    BY <1>0, <1>4
  <2> HIDE DEF f, p
  <2>2. OpenNumbered(buf, frag_header, f, p)
    BY <2>1 DEF OpenNumbered
  <2> QED BY <2>2 DEF f, p
<1> QED BY <1>1, <1>5, <1>6, Zenon DEF buf

\* The batched part of the buffer, and the open fragment closed behind it.
LEMMA ClosedMore ==
  ASSUME OutInv, BufferKept,
         NEW t \in Seq(Cell), NEW last, NEW n \in Nat, NEW put \in Nat,
         AppendsFragment(ClosedPart, t, last, n),
         \A j \in 1..n : t[frag_header + Unit + j] = Payload(put - n + j),
         put - n = nput - OpenSize
  PROVE  /\ Whole(t)
         /\ Away \in Int
         /\ NumberedFrom(t, Away)
         /\ CarriesAll(t, Away)
         /\ Away + PayloadCount(t, Len(t)) = put
<1> DEFINE closed == PayloadCount(ClosedPart, frag_header)
<1>1. /\ t \in Seq(Cell) /\ n \in Nat
      /\ AppendsFragment(ClosedPart, t, last, n)
      /\ \A j \in 1..n : t[frag_header + Unit + j] = Payload(put - n + j)
  OBVIOUS
<1>3. frag_header \in Nat /\ nput \in Nat /\ OpenSize \in Nat
  BY OutFacts
<1>4. ClosedPart \in Seq(Cell) /\ Len(ClosedPart) = frag_header /\ closed \in Nat
  BY ClosedFacts
<1>5. closed = PayloadCount(ClosedPart, frag_header)
  OBVIOUS
<1> HIDE DEF closed
<1>6. Away \in Int /\ Away + closed + n = put
  <2>2. Away = nput - OpenSize - closed
    BY <1>5 DEF Away
  <2> QED BY <1>1, <1>3, <1>4, <2>2
<1>7. \A j \in 1..n :
        t[Len(ClosedPart) + Unit + j] = Payload(Away + PayloadCount(ClosedPart, Len(ClosedPart)) + j)
  <2>1. \A j \in 1..n : put - n + j = Away + closed + j
    BY <1>1, <1>4, <1>6
  <2>2. \A j \in 1..n : t[frag_header + Unit + j] = Payload(Away + closed + j)
    BY <1>1, <2>1
  <2> QED BY <1>4, <1>5, <2>2
<1>a. Whole(ClosedPart) /\ NumberedFrom(ClosedPart, Away) /\ CarriesAll(ClosedPart, Away)
  BY DEF BufferKept
<1>8. Whole(t)
  BY <1>1, <1>4, <1>a, AppendWhole
<1>b. Away \in Int /\ ClosedPart \in Seq(Cell)
  BY <1>4, <1>6
<1>9. CarriesAll(t, Away)
  BY <1>7, <1>a, <1>b, AppendCarries
<1>10. NumberedFrom(t, Away)
  BY <1>7, <1>a, <1>b, AppendNumbered
<1>11. PayloadCount(t, Len(t)) = closed + n
  <2>1. PayloadCount(t, Len(t)) = PayloadCount(ClosedPart, Len(ClosedPart)) + n
    BY <1>1, <1>4, AppendCount
  <2> QED BY <1>4, <1>5, <2>1
<1>12. Away + PayloadCount(t, Len(t)) = put
  BY <1>1, <1>4, <1>6, <1>11
<1> QED BY <1>6, <1>8, <1>9, <1>10, <1>12

\* The stream when all of the buffer, its open fragment closed, has been sent.
LEMMA SentStream ==
  ASSUME OutInv, StreamInv,
         NEW t \in Seq(Cell), NEW last, NEW n \in Nat, NEW put \in Nat,
         AppendsFragment(ClosedPart, t, last, n),
         \A j \in 1..n : t[frag_header + Unit + j] = Payload(put - n + j),
         put - n = nput - OpenSize
  PROVE  LET w == wire \o t
         IN  /\ w \in Seq(Cell)
             /\ \A k \in 1..put : \E i \in 1..Len(w) : w[i] = Payload(k)
             /\ AppendsFragment(ClosedStream, w, last, n)
             /\ fails = 0 =>
                  /\ Whole(w)
                  /\ NumberedFrom(w, 0)
                  /\ PayloadCount(w, Len(w)) = put
<1> DEFINE w == wire \o t
<1>1. /\ t \in Seq(Cell) /\ n \in Nat
      /\ AppendsFragment(ClosedPart, t, last, n)
      /\ \A j \in 1..n : t[frag_header + Unit + j] = Payload(put - n + j)
  OBVIOUS
<1>2. /\ w \in Seq(Cell)
      /\ AppendsFragment(ClosedStream, w, last, n)
      /\ \A j \in 1..n : w[Len(ClosedStream) + Unit + j] = t[frag_header + Unit + j]
  BY StreamAppends
<1>w. w = wire \o t
  OBVIOUS
<1> HIDE DEF w
<1>3. /\ frag_header \in Nat /\ nput \in Nat /\ OpenSize \in Nat /\ fails \in Nat
      /\ Len(wire) \in Nat /\ wire \in Seq(Cell)
  BY OutFacts
<1>4. /\ ClosedPart \in Seq(Cell) /\ Len(ClosedPart) = frag_header
      /\ ClosedStream \in Seq(Cell)
      /\ PayloadCount(ClosedStream, Len(ClosedStream)) \in Nat
  BY ClosedFacts
<1>5. /\ CarriesAll(t, Away)
      /\ Away + PayloadCount(t, Len(t)) = put /\ Away \in Int
  BY ClosedMore DEF StreamInv
<1>6. PayloadCount(t, Len(t)) \in Nat
  BY PayloadCountType
<1>8. ASSUME NEW k \in 1..put PROVE \E i \in 1..Len(w) : w[i] = Payload(k)
  <2>0. Len(w) = Len(wire) + Len(t) /\ Len(t) \in Nat
        /\ (\A i \in 1..Len(wire) : w[i] = wire[i])
        /\ (\A i \in 1..Len(t) : w[Len(wire) + i] = t[i])
    BY <1>1, <1>3, <1>w, ConcatProperties
  <2>1. CASE k <= Away
    <3>1. k \in 1..Away
      BY <1>5, <2>1
    <3>2. PICK i \in 1..Len(wire) : wire[i] = Payload(k)
      BY <3>1 DEF StreamInv, BufferKept, AwayIsSent
    <3>3. i \in 1..Len(w) /\ w[i] = wire[i]
      BY <1>3, <2>0
    <3> QED BY <3>2, <3>3
  <2>2. CASE k > Away
    <3>1. k - Away \in 1..PayloadCount(t, Len(t)) /\ Away + (k - Away) = k
      BY <1>5, <1>6, <2>2
    <3>2. PICK i \in 1..Len(t) : t[i] = Payload(k)
      BY <1>5, <3>1 DEF CarriesAll
    <3>3. Len(wire) + i \in 1..Len(w) /\ w[Len(wire) + i] = t[i]
      BY <1>3, <2>0
    <3> QED BY <3>2, <3>3
  <2> QED BY <1>5, <2>1, <2>2
<1>9. ASSUME fails = 0
      PROVE  Whole(w) /\ NumberedFrom(w, 0) /\ PayloadCount(w, Len(w)) = put
  <2>1. /\ Whole(ClosedStream) /\ NumberedFrom(ClosedStream, 0)
        /\ PayloadCount(ClosedStream, Len(ClosedStream)) + OpenSize = nput
    BY <1>9 DEF StreamInv, StreamIsGood
  <2>2. PayloadCount(ClosedStream, Len(ClosedStream)) = put - n
    BY <1>1, <1>3, <1>4, <2>1
  <2>3. Whole(w)
    BY <1>1, <1>2, <1>4, <2>1, AppendWhole
  <2>4. PayloadCount(w, Len(w)) = put
    <3>1. PayloadCount(w, Len(w)) = PayloadCount(ClosedStream, Len(ClosedStream)) + n
      BY <1>1, <1>2, <1>4, AppendCount
    <3> QED BY <1>1, <2>2, <3>1
  <2>5. \A j \in 1..n : w[Len(ClosedStream) + Unit + j]
                          = Payload(0 + PayloadCount(ClosedStream, Len(ClosedStream)) + j)
    <3>1. \A j \in 1..n : put - n + j = 0 + PayloadCount(ClosedStream, Len(ClosedStream)) + j
      BY <1>4, <2>2
    <3> QED BY <1>1, <1>2, <3>1
  <2>6. NumberedFrom(w, 0)
    BY <1>1, <1>2, <1>4, <2>1, <2>5, 0 \in Int, AppendNumbered
  <2> QED BY <2>3, <2>4, <2>6
<1> QED BY <1>2, <1>8, <1>9 DEF w

LEMMA EmptyStream ==
  /\ << >> \in Seq(Cell) /\ Len(<< >>) = 0
  /\ Whole(<< >>)
  /\ \A base : NumberedFrom(<< >>, base) /\ CarriesAll(<< >>, base)
  /\ PayloadCount(<< >>, 0) = 0 /\ Records(<< >>, 0) = 0
<1>1. << >> \in Seq(Cell) /\ Len(<< >>) = 0
  OBVIOUS
<1>2. Heads(<< >>) = {}
  BY DEF Heads
<1>3. Whole(<< >>)
  BY <1>2 DEF Whole, Framed
<1>4. PayloadCount(<< >>, 0) = 0
  BY PayloadCountZero
<1>5. ASSUME NEW base PROVE NumberedFrom(<< >>, base) /\ CarriesAll(<< >>, base)
  BY <1>1, <1>4 DEF NumberedFrom, CarriesAll
<1>6. {i \in Heads(<< >>) : (<< >>)[i].last /\ FragmentEnd(<< >>, i) <= 0} = {}
  BY <1>2
<1>7. Records(<< >>, 0) = 0
  BY <1>6, FS_EmptySet DEF Records
<1> QED BY <1>1, <1>3, <1>4, <1>5, <1>7

\* After a flush the buffer holds nothing but the open fragment.
LEMMA EmptiedKeeps ==
  ASSUME wire' \in Seq(Cell), frag_header' = 0, out_finger' \in Nat, nput' \in Nat,
         NEW put \in Nat, nput' = put + (out_finger' - Unit),
         \A a \in Unit..(out_finger' - 1) : out_buf'[a] = Payload(nput' - (out_finger' - 1 - a)),
         \A k \in 1..put : \E i \in 1..Len(wire') : wire'[i] = Payload(k)
  PROVE  BufferKept' /\ ClosedStream' = wire' /\ OpenSize' = out_finger' - Unit
<1>1. ClosedPart' = << >>
  BY DEF ClosedPart, Bytes
<1>2. ClosedStream' = wire'
  BY <1>1 DEF ClosedStream
<1>3. OpenSize' = out_finger' - Unit
  BY DEF OpenSize
<1>4. Away' = put
  <2>1. PayloadCount(ClosedPart', frag_header') = 0
    <3>1. PayloadCount(<< >>, 0) = 0
      BY EmptyStream
    <3> QED BY <1>1, <3>1
  <2>2. Away' = nput' - OpenSize' - PayloadCount(ClosedPart', frag_header')
    BY DEF Away
  <2>3. OpenSize' \in Int
    BY <1>3
  <2> QED BY <1>3, <2>1, <2>2
<1>5. /\ Whole(ClosedPart')
      /\ NumberedFrom(ClosedPart', Away')
      /\ CarriesAll(ClosedPart', Away')
  <2>1. Whole(<< >>) /\ NumberedFrom(<< >>, Away') /\ CarriesAll(<< >>, Away')
    BY EmptyStream
  <2> QED BY <1>1, <2>1
<1>6. AwayIsSent'
  BY <1>4 DEF AwayIsSent
<1>7. OpenNumbered(out_buf', frag_header', out_finger', nput')
  <2>1. frag_header' + Unit = Unit
    OBVIOUS
  <2> QED BY <2>1 DEF OpenNumbered
<1> QED BY <1>2, <1>3, <1>5, <1>6, <1>7 DEF BufferKept

\* The wire, when the fragment sent last does not end the record.
LEMMA InnerSent ==
  ASSUME OutInv, StreamInv, fails = 0,
         NEW w \in Seq(Cell), NEW n \in Nat, n > 0,
         AppendsFragment(ClosedStream, w, FALSE, n),
         NumberedFrom(w, 0)
  PROVE  /\ RecordsFit(w, ends)
         /\ Records(w, Len(w)) = Len(ends)
         /\ \E i \in 1..Len(w) : w[i] = Payload(PayloadCount(w, Len(w)))
<1>1. /\ Whole(ClosedStream) /\ RecordsFit(ClosedStream, ends)
      /\ Records(ClosedStream, Len(ClosedStream)) = Len(ends)
  BY DEF StreamInv, StreamIsGood
<1>2. ClosedStream \in Seq(Cell) /\ ends \in Seq(Nat)
  BY ClosedFacts, OutFacts
<1>3. Len(ClosedStream) \in Nat /\ Len(w) = Len(ClosedStream) + Unit + n /\ Len(w) \in Nat
  BY <1>2 DEF AppendsFragment
<1>4. Begins(w, w)
  BY <1>3 DEF Begins
<1>5. RecordsFit(w, ends)
  BY <1>1, <1>2, <1>4, AppendedPrefixFits
<1>6. Records(w, Len(w)) = Len(ends)
  BY <1>1, <1>2, AppendRecords
<1>7. IsPayload(w[Len(w)])
  BY <1>3 DEF AppendsFragment
<1>8. w[Len(w)] = Payload(0 + PayloadCount(w, Len(w))) /\ Len(w) \in 1..Len(w)
  BY <1>3, <1>7 DEF NumberedFrom
<1>9. 0 + PayloadCount(w, Len(w)) = PayloadCount(w, Len(w))
  BY <1>3, PayloadCountType
<1> QED BY <1>5, <1>6, <1>8, <1>9

\* When it does.
LEMMA LastSent ==
  ASSUME OutInv, StreamInv, fails = 0,
         NEW w \in Seq(Cell), NEW n \in Nat,
         AppendsFragment(ClosedStream, w, TRUE, n)
  PROVE  /\ RecordsFit(w, Append(ends, PayloadCount(w, Len(w))))
         /\ Records(w, Len(w)) = Len(ends) + 1
<1>1. /\ Whole(ClosedStream) /\ RecordsFit(ClosedStream, ends)
      /\ Records(ClosedStream, Len(ClosedStream)) = Len(ends)
  BY DEF StreamInv, StreamIsGood
<1>2. ClosedStream \in Seq(Cell) /\ ends \in Seq(Nat)
  BY ClosedFacts, OutFacts
<1> QED BY <1>1, <1>2, AppendedRecordFits

\* Payload numbers on a numbered wire are at most its payload count.
LEMMA NumbersAreBounded ==
  ASSUME NEW w \in Seq(Cell), NumberedFrom(w, 0), NEW i \in 1..Len(w), w[i].kind = "payload"
  PROVE  w[i].k <= PayloadCount(w, Len(w)) /\ w[i].k \in Nat
<1>1. i \in Nat /\ Len(w) \in Nat /\ i <= Len(w)
  OBVIOUS
<1>2. w[i] = Payload(0 + PayloadCount(w, i))
  BY DEF NumberedFrom, IsPayload
<1>3. w[i].k = 0 + PayloadCount(w, i)
  BY <1>2 DEF Payload
<1>4. PayloadCount(w, i) <= PayloadCount(w, Len(w))
  BY <1>1, PayloadCountMonotone
<1>5. PayloadCount(w, i) \in Nat /\ PayloadCount(w, Len(w)) \in Nat
  BY <1>1, PayloadCountType
<1> QED BY <1>3, <1>4, <1>5
-----------------------------------------------------------------------------
(* What each kind of step does to the invariant.                           *)

\* The buffer up to the open fragment stays, and the wire at least grows.
LEMMA BufferStays ==
  ASSUME OutInv, OutInv', BufferKept,
         frag_header' = frag_header,
         \A a \in 0..(frag_header - 1) : out_buf'[a] = out_buf[a],
         NEW d \in Int, nput' = nput + d, out_finger' = out_finger + d,
         OpenNumbered(out_buf', frag_header, out_finger', nput'),
         \A i \in 1..Len(wire) : i \in 1..Len(wire') /\ wire'[i] = wire[i]
  PROVE  /\ BufferKept'
         /\ ClosedPart' = ClosedPart
         /\ OpenSize' = OpenSize + d
<1>0. /\ frag_header \in Nat /\ nput \in Nat /\ out_finger \in Nat
      /\ nput' \in Nat /\ out_finger' \in Nat
  BY DEF OutInv, OutTypeOK
<1>1. ClosedPart' = ClosedPart
  <2>1. \A i \in 1..frag_header : out_buf'[i - 1] = out_buf[i - 1]
    BY <1>0
  <2> QED BY <2>1 DEF ClosedPart, Bytes
<1>2. /\ OpenSize' = out_finger' - frag_header - Unit
      /\ OpenSize = out_finger - frag_header - Unit
  BY DEF OpenSize
<1>3. OpenSize' = OpenSize + d /\ nput' - OpenSize' = nput - OpenSize
  <2>1. OpenSize \in Int /\ OpenSize' = OpenSize + d
    BY <1>0, <1>2
  <2> QED BY <1>0, <2>1
<1>4. Away' = Away
  BY <1>1, <1>3 DEF Away
<1>5. Whole(ClosedPart') /\ NumberedFrom(ClosedPart', Away') /\ CarriesAll(ClosedPart', Away')
  BY <1>1, <1>4 DEF BufferKept
<1>6. AwayIsSent'
  <2> SUFFICES ASSUME NEW k \in 1..Away PROVE \E i \in 1..Len(wire') : wire'[i] = Payload(k)
    BY <1>4 DEF AwayIsSent
  <2>1. PICK i \in 1..Len(wire) : wire[i] = Payload(k)
    BY DEF BufferKept, AwayIsSent
  <2> QED BY <2>1
<1>7. OpenNumbered(out_buf', frag_header', out_finger', nput')
  OBVIOUS
<1> QED BY <1>1, <1>3, <1>5, <1>6, <1>7 DEF BufferKept

\* Nothing is sent and no fragment closed.
LEMMA StreamStays ==
  ASSUME OutInv, OutInv', StreamInv,
         frag_header' = frag_header, wire' = wire, fails' = fails, ends' = ends,
         frag_sent' = frag_sent,
         \A a \in 0..(frag_header - 1) : out_buf'[a] = out_buf[a],
         NEW d \in Int, nput' = nput + d, out_finger' = out_finger + d,
         OpenNumbered(out_buf', frag_header, out_finger', nput')
  PROVE  StreamInv'
<1>1. \A i \in 1..Len(wire) : i \in 1..Len(wire') /\ wire'[i] = wire[i]
  OBVIOUS
<1>2. /\ BufferKept'
      /\ ClosedPart' = ClosedPart
      /\ OpenSize' = OpenSize + d
  BY <1>1, BufferStays DEF StreamInv
<1>3. ClosedStream' = ClosedStream
  BY <1>2 DEF ClosedStream
<1>4. LastEnd' = LastEnd
  BY DEF LastEnd
<1>5. PartSent' = PartSent
  BY <1>4 DEF PartSent
<1>6. ASSUME fails' = 0 PROVE StreamIsGood'
  <2>0. StreamIsGood
    BY <1>6 DEF StreamInv
  <2>1. /\ Whole(wire) /\ Whole(ClosedStream)
        /\ NumberedFrom(ClosedStream, 0) /\ RecordsFit(ClosedStream, ends)
        /\ Records(ClosedStream, Len(ClosedStream)) = Len(ends)
        /\ PayloadCount(ClosedStream, Len(ClosedStream)) + OpenSize = nput
        /\ LastEnd <= PayloadCount(ClosedStream, Len(ClosedStream))
    BY <2>0 DEF StreamIsGood
  <2>2. frag_sent <=> PartSent
    BY <2>0 DEF StreamIsGood
  <2>3. PayloadCount(ClosedStream', Len(ClosedStream')) + OpenSize' = nput'
    <3>1. PayloadCount(ClosedStream, Len(ClosedStream)) \in Nat
      BY ClosedFacts
    <3>2. OpenSize \in Nat /\ OpenSize' \in Nat /\ nput \in Nat /\ nput' \in Nat
      <4>1. OpenSize' = out_finger' - frag_header' - Unit
        BY DEF OpenSize
      <4>2. frag_header' + Unit <= out_finger' /\ out_finger' \in Nat /\ frag_header' \in Nat
            /\ nput' \in Nat
        BY DEF OutInv, OutTypeOK, FingerInFragment
      <4>3. OpenSize' \in Nat
        <5>1. out_finger' - frag_header' - Unit \in Nat
          BY <4>2
        <5> QED BY <4>1, <5>1
      <4> QED BY <4>2, <4>3, OutFacts
    <3>3. PayloadCount(ClosedStream, Len(ClosedStream)) + OpenSize' = nput'
      BY <1>2, <2>1, <3>1, <3>2
    <3> QED BY <1>3, <3>3
  <2>4. frag_sent' <=> PartSent'
    BY <1>5, <2>2
  <2>5. /\ Whole(wire') /\ Whole(ClosedStream')
        /\ NumberedFrom(ClosedStream', 0) /\ RecordsFit(ClosedStream', ends')
        /\ Records(ClosedStream', Len(ClosedStream')) = Len(ends')
        /\ LastEnd' <= PayloadCount(ClosedStream', Len(ClosedStream'))
    BY <1>3, <1>4, <2>1
  <2> QED BY <2>3, <2>4, <2>5 DEF StreamIsGood
<1> QED BY <1>2, <1>6 DEF StreamInv

\* A buffer that continues the open fragment up to `finger'.
Continues(buf, finger, put) ==
  /\ buf \in [Offsets -> Cell] /\ \A a \in Offsets : GoodCell(buf[a])
  /\ finger \in Nat /\ frag_header + Unit <= finger /\ finger <= SendSize
  /\ \A a \in 0..(frag_header - 1) : buf[a] = out_buf[a]
  /\ OpenNumbered(buf, frag_header, finger, put)
  /\ put \in Nat /\ put = nput + (finger - out_finger)

\* The payload of the n bytes behind a header at offset `header' ends with byte put.
EndsWith(s, header, n, put) == \A j \in 1..n : s[header + Unit + j] = Payload(put - n + j)

\* Closing it.
LEMMA ClosedBuffer ==
  ASSUME OutInv, NEW buf, NEW finger, NEW put, NEW last,
         Continues(buf, finger, put), CanClose(finger, last)
  PROVE  /\ Bytes(Headed(buf, finger, last), finger) \in Seq(Cell)
         /\ Len(Bytes(Headed(buf, finger, last), finger)) = finger
         /\ finger - frag_header - Unit \in Nat
         /\ AppendsFragment(ClosedPart, Bytes(Headed(buf, finger, last), finger), last,
                            finger - frag_header - Unit)
         /\ EndsWith(Bytes(Headed(buf, finger, last), finger), frag_header,
                     finger - frag_header - Unit, put)
<1>1. /\ buf \in [Offsets -> Cell] /\ \A a \in Offsets : GoodCell(buf[a])
      /\ finger \in Nat /\ frag_header + Unit <= finger /\ finger <= SendSize
      /\ \A a \in 0..(frag_header - 1) : buf[a] = out_buf[a]
      /\ OpenNumbered(buf, frag_header, finger, put)
      /\ put \in Nat
  BY DEF Continues
<1> QED BY <1>1, HeadedAppends DEF EndsWith

\* Closing and sending it.
LEMMA SentBuffer ==
  ASSUME OutInv, StreamInv, NEW buf, NEW finger, NEW put, NEW last,
         Continues(buf, finger, put), CanClose(finger, last),
         wire' = wire \o Bytes(Headed(buf, finger, last), finger)
  PROVE  /\ wire' \in Seq(Cell)
         /\ \A k \in 1..put : \E i \in 1..Len(wire') : wire'[i] = Payload(k)
         /\ finger - frag_header - Unit \in Nat
         /\ AppendsFragment(ClosedStream, wire', last, finger - frag_header - Unit)
         /\ fails = 0 =>
              /\ Whole(wire')
              /\ NumberedFrom(wire', 0)
              /\ PayloadCount(wire', Len(wire')) = put
<1> DEFINE t == Bytes(Headed(buf, finger, last), finger)
           n == finger - frag_header - Unit
<1>1. /\ t \in Seq(Cell) /\ Len(t) = finger /\ n \in Nat
      /\ AppendsFragment(ClosedPart, t, last, n)
      /\ \A j \in 1..n : t[frag_header + Unit + j] = Payload(put - n + j)
  BY ClosedBuffer DEF EndsWith
<1>2. put \in Nat /\ put - n = nput - OpenSize
  <2>1. /\ frag_header \in Nat /\ out_finger \in Nat /\ nput \in Nat
        /\ OpenSize = out_finger - frag_header - Unit
    BY OutFacts
  <2>2. finger \in Nat /\ put \in Nat /\ put = nput + (finger - out_finger)
    BY DEF Continues
  <2> QED BY <2>1, <2>2
<1>3. wire' = wire \o t
  OBVIOUS
<1> HIDE DEF t, n
<1>4. LET w == wire \o t
      IN  /\ w \in Seq(Cell)
          /\ \A k \in 1..put : \E i \in 1..Len(w) : w[i] = Payload(k)
          /\ AppendsFragment(ClosedStream, w, last, n)
          /\ fails = 0 =>
               /\ Whole(w)
               /\ NumberedFrom(w, 0)
               /\ PayloadCount(w, Len(w)) = put
  BY <1>1, <1>2, SentStream
<1>5. n = finger - frag_header - Unit
  BY DEF n
<1> QED BY <1>1, <1>3, <1>4, <1>5

\* flush_out in the middle of a record.
LEMMA InnerFlushKeeps ==
  ASSUME OutInv, OutInv', StreamInv, NEW buf, NEW finger, NEW put,
         Continues(buf, finger, put), frag_header + Unit < finger,
         FlushSucceeds(buf, finger, FALSE), frag_sent', ends' = ends,
         nput' = put + (out_finger' - Unit),
         OpenNumbered(out_buf', 0, out_finger', nput')
  PROVE  StreamInv'
<1> DEFINE n == finger - frag_header - Unit
<1>1. wire' = wire \o Bytes(Headed(buf, finger, FALSE), finger) /\ frag_header' = 0 /\ fails' = fails
  BY DEF FlushSucceeds
<1>2. CanClose(finger, FALSE)
  BY DEF CanClose
<1>3. /\ wire' \in Seq(Cell)
      /\ \A k \in 1..put : \E i \in 1..Len(wire') : wire'[i] = Payload(k)
      /\ n \in Nat
      /\ AppendsFragment(ClosedStream, wire', FALSE, n)
      /\ fails = 0 => /\ Whole(wire')
                      /\ NumberedFrom(wire', 0)
                      /\ PayloadCount(wire', Len(wire')) = put
  BY <1>1, <1>2, SentBuffer
<1>4. n > 0 /\ put \in Nat
  <2>1. finger \in Nat /\ frag_header \in Nat
    BY OutFacts DEF Continues
  <2> QED BY <2>1 DEF Continues
<1> HIDE DEF n
<1>5. out_finger' \in Nat /\ nput' \in Nat
  BY DEF OutInv, OutTypeOK
<1>6. \A a \in Unit..(out_finger' - 1) : out_buf'[a] = Payload(nput' - (out_finger' - 1 - a))
  <2>1. 0 + Unit = Unit
    OBVIOUS
  <2> QED BY <2>1 DEF OpenNumbered
<1>7. BufferKept' /\ ClosedStream' = wire' /\ OpenSize' = out_finger' - Unit
  BY <1>1, <1>3, <1>4, <1>5, <1>6, EmptiedKeeps
<1>8. ASSUME fails' = 0 PROVE StreamIsGood'
  <2>1. fails = 0 /\ Whole(wire') /\ NumberedFrom(wire', 0) /\ PayloadCount(wire', Len(wire')) = put
    BY <1>1, <1>3, <1>8
  <2>2. /\ RecordsFit(wire', ends)
        /\ Records(wire', Len(wire')) = Len(ends)
        /\ \E i \in 1..Len(wire') : wire'[i] = Payload(PayloadCount(wire', Len(wire')))
    BY <1>3, <1>4, <2>1, InnerSent
  <2>3. LastEnd < put
    <3>1. LastEnd <= PayloadCount(ClosedStream, Len(ClosedStream))
      BY <2>1 DEF StreamInv, StreamIsGood
    <3>2. PayloadCount(wire', Len(wire')) = PayloadCount(ClosedStream, Len(ClosedStream)) + n
      <4>1. ClosedStream \in Seq(Cell)
        BY ClosedFacts
      <4> QED BY <1>3, <4>1, AppendCount
    <3>3. PayloadCount(ClosedStream, Len(ClosedStream)) \in Nat
      BY ClosedFacts
    <3>4. LastEnd \in Nat
      BY LastEndType
    <3> QED BY <1>3, <1>4, <2>1, <3>1, <3>2, <3>3, <3>4
  <2>4. LastEnd' = LastEnd
    BY DEF LastEnd
  <2>5. PartSent'
    <3>1. PICK i \in 1..Len(wire') : wire'[i] = Payload(put)
      BY <2>1, <2>2
    <3>2. wire'[i].kind = "payload" /\ wire'[i].k > LastEnd'
      BY <2>3, <2>4, <3>1 DEF Payload
    <3> QED BY <3>2 DEF PartSent
  <2>6. frag_sent' <=> PartSent'
    BY <2>5
  <2>7. LastEnd' <= put
    <3>1. LastEnd \in Nat
      BY LastEndType
    <3> QED BY <1>4, <2>3, <2>4, <3>1
  <2>8. put + OpenSize' = nput'
    <3>1. OpenSize' \in Int /\ nput' = put + OpenSize'
      BY <1>5, <1>7
    <3> QED BY <3>1
  <2>9. Whole(wire') /\ Whole(ClosedStream') /\ NumberedFrom(ClosedStream', 0)
    BY <1>7, <2>1
  <2>10. /\ RecordsFit(ClosedStream', ends')
         /\ Records(ClosedStream', Len(ClosedStream')) = Len(ends')
    BY <1>7, <2>2
  <2>11. PayloadCount(ClosedStream', Len(ClosedStream')) = put
    BY <1>7, <2>1
  <2>12. /\ PayloadCount(ClosedStream', Len(ClosedStream')) + OpenSize' = nput'
         /\ LastEnd' <= PayloadCount(ClosedStream', Len(ClosedStream'))
    BY <2>7, <2>8, <2>11
  <2> QED BY <2>6, <2>9, <2>10, <2>12 DEF StreamIsGood
<1> QED BY <1>7, <1>8 DEF StreamInv

\* The buffer as it is continues itself.
LEMMA ContinuesItself ==
  ASSUME OutInv, StreamInv PROVE Continues(out_buf, out_finger, nput)
<1>1. /\ out_buf \in [Offsets -> Cell] /\ out_finger \in Nat
      /\ frag_header + Unit <= out_finger /\ out_finger <= SendSize
      /\ nput \in Nat /\ OpenSize = out_finger - frag_header - Unit
  BY OutFacts
<1>2. \A a \in Offsets : GoodCell(out_buf[a])
  BY DEF OutInv, BufferIsGood
<1>3. OpenNumbered(out_buf, frag_header, out_finger, nput)
  BY DEF StreamInv, BufferKept
<1> QED BY <1>1, <1>2, <1>3 DEF Continues

\* While writeit has not failed, no number on the wire is above nput.
LEMMA NothingAhead ==
  ASSUME NEW w \in Seq(Cell), NumberedFrom(w, 0), wire' = w,
         LastEnd' = PayloadCount(w, Len(w))
  PROVE  ~PartSent'
<1> SUFFICES ASSUME NEW i \in 1..Len(wire'), wire'[i].kind = "payload", wire'[i].k > LastEnd'
             PROVE  FALSE
  BY DEF PartSent
<1>1. w[i].k <= PayloadCount(w, Len(w)) /\ w[i].k \in Nat
  BY NumbersAreBounded
<1>2. PayloadCount(w, Len(w)) \in Nat
  <2>1. Len(w) \in Nat
    OBVIOUS
  <2> QED BY <2>1, PayloadCountType
<1> QED BY <1>1, <1>2

\* flush_out at the end of a record.
LEMMA LastFlushKeeps ==
  ASSUME OutInv, OutInv', StreamInv,
         FlushSucceeds(out_buf, out_finger, TRUE), ~frag_sent', ends' = Append(ends, nput),
         out_finger' = Unit, nput' = nput
  PROVE  StreamInv'
<1> DEFINE n == out_finger - frag_header - Unit
<1>1. wire' = wire \o Bytes(Headed(out_buf, out_finger, TRUE), out_finger)
      /\ frag_header' = 0 /\ fails' = fails
  BY DEF FlushSucceeds
<1>2. CanClose(out_finger, TRUE) /\ Continues(out_buf, out_finger, nput)
  BY ContinuesItself DEF CanClose
<1>3. /\ wire' \in Seq(Cell)
      /\ \A k \in 1..nput : \E i \in 1..Len(wire') : wire'[i] = Payload(k)
      /\ n \in Nat
      /\ AppendsFragment(ClosedStream, wire', TRUE, n)
      /\ fails = 0 => /\ Whole(wire')
                      /\ NumberedFrom(wire', 0)
                      /\ PayloadCount(wire', Len(wire')) = nput
  BY <1>1, <1>2, SentBuffer
<1> HIDE DEF n
<1>5. nput \in Nat /\ ends \in Seq(Nat)
  BY OutFacts
<1>6. /\ nput' = nput + (out_finger' - Unit) /\ out_finger' \in Nat /\ nput' \in Nat
      /\ \A a \in Unit..(out_finger' - 1) : out_buf'[a] = Payload(nput' - (out_finger' - 1 - a))
  BY <1>5
<1>7. BufferKept' /\ ClosedStream' = wire' /\ OpenSize' = 0
  <2>1. BufferKept' /\ ClosedStream' = wire' /\ OpenSize' = out_finger' - Unit
    BY <1>1, <1>3, <1>5, <1>6, EmptiedKeeps
  <2> QED BY <2>1
<1>8. ASSUME fails' = 0 PROVE StreamIsGood'
  <2>1. fails = 0 /\ Whole(wire') /\ NumberedFrom(wire', 0) /\ PayloadCount(wire', Len(wire')) = nput
    BY <1>1, <1>3, <1>8
  <2>2. /\ RecordsFit(wire', Append(ends, PayloadCount(wire', Len(wire'))))
        /\ Records(wire', Len(wire')) = Len(ends) + 1
    BY <1>3, <2>1, LastSent
  <2>3. /\ RecordsFit(wire', ends')
        /\ Records(wire', Len(wire')) = Len(ends')
    BY <1>5, <2>1, <2>2
  <2>4. LastEnd' = nput
    BY <1>5 DEF LastEnd
  <2>5. ~PartSent'
    BY <1>3, <2>1, <2>4, NothingAhead
  <2>6. frag_sent' <=> PartSent'
    BY <2>5
  <2>9. Whole(wire') /\ Whole(ClosedStream') /\ NumberedFrom(ClosedStream', 0)
    BY <1>7, <2>1
  <2>10. /\ RecordsFit(ClosedStream', ends')
         /\ Records(ClosedStream', Len(ClosedStream')) = Len(ends')
    BY <1>7, <2>3
  <2>11. PayloadCount(ClosedStream', Len(ClosedStream')) = nput
    BY <1>7, <2>1
  <2>12. /\ PayloadCount(ClosedStream', Len(ClosedStream')) + OpenSize' = nput'
         /\ LastEnd' <= PayloadCount(ClosedStream', Len(ClosedStream'))
    BY <1>5, <1>7, <2>4, <2>11
  <2> QED BY <2>6, <2>9, <2>10, <2>12 DEF StreamIsGood
<1> QED BY <1>7, <1>8 DEF StreamInv

\* flush_out when writeit fails, in the middle of a record or at its end.
LEMMA FailedFlushKeeps ==
  ASSUME OutInv, OutInv', StreamInv, NEW buf, NEW finger, NEW eor,
         Continues(buf, finger, nput'),
         FlushFails(buf, finger, eor)
  PROVE  StreamInv'
<1>1. /\ frag_header' = frag_header /\ out_finger' = finger
      /\ out_buf' = Headed(buf, finger, eor) /\ fails' = fails + 1
  BY DEF FlushFails
<1>2. PICK m \in 0..(finger - 1) : wire' = wire \o Bytes(Headed(buf, finger, eor), m)
  BY DEF FlushFails
<1>3. /\ frag_header \in Nat /\ SendSize \in Nat /\ wire \in Seq(Cell) /\ out_finger \in Nat
      /\ fails \in Nat /\ nput \in Nat /\ OpenSize = out_finger - frag_header - Unit
  BY OutFacts
<1>4. /\ finger \in Nat /\ frag_header + Unit <= finger /\ finger <= SendSize
      /\ nput' \in Nat /\ nput' = nput + (finger - out_finger)
  BY DEF Continues
<1>5. ASSUME NEW a \in Offsets, a \notin frag_header..(frag_header + Unit - 1)
      PROVE  out_buf'[a] = buf[a]
  BY <1>1, <1>5 DEF Headed
<1>6. ASSUME NEW a \in 0..(frag_header - 1) PROVE out_buf'[a] = out_buf[a]
  <2>1. a \in Offsets /\ a \notin frag_header..(frag_header + Unit - 1)
    BY <1>3, <1>4 DEF Offsets
  <2>2. buf[a] = out_buf[a]
    BY DEF Continues
  <2> QED BY <1>5, <2>1, <2>2
<1>7. OpenNumbered(out_buf', frag_header, out_finger', nput')
  <2>1. ASSUME NEW a \in (frag_header + Unit)..(finger - 1) PROVE out_buf'[a] = buf[a]
    <3>1. a \in Offsets /\ a \notin frag_header..(frag_header + Unit - 1)
      BY <1>3, <1>4 DEF Offsets
    <3> QED BY <1>5, <3>1
  <2>2. OpenNumbered(buf, frag_header, finger, nput')
    BY DEF Continues
  <2> QED BY <1>1, <2>1, <2>2 DEF OpenNumbered
<1>8. \A i \in 1..Len(wire) : i \in 1..Len(wire') /\ wire'[i] = wire[i]
  <2>1. Bytes(Headed(buf, finger, eor), m) \in Seq(Cell)
    <3>1. m \in Nat /\ m <= SendSize
      BY <1>2, <1>3, <1>4
    <3>2. Headed(buf, finger, eor) \in [Offsets -> Cell]
      BY <1>1 DEF OutInv, OutTypeOK
    <3> QED BY <3>1, <3>2, BytesFacts
  <2> DEFINE u == Bytes(Headed(buf, finger, eor), m)
  <2> HIDE DEF u
  <2>2. u \in Seq(Cell) /\ wire' = wire \o u
    BY <1>2, <2>1 DEF u
  <2> QED BY <1>3, <2>2, ConcatProperties
<1>9. BufferKept'
  <2>1. finger - out_finger \in Int /\ nput' = nput + (finger - out_finger)
        /\ out_finger' = out_finger + (finger - out_finger)
    BY <1>1, <1>3, <1>4
  <2>2. BufferKept
    BY DEF StreamInv
  <2> QED BY <1>1, <1>6, <1>7, <1>8, <2>1, <2>2, BufferStays
<1>10. fails' # 0
  BY <1>1, <1>3
<1> QED BY <1>9, <1>10 DEF StreamInv

\* The end of a record that stays in the buffer.
LEMMA BatchKeeps ==
  ASSUME OutInv, OutInv', StreamInv,
         out_buf' = Headed(out_buf, out_finger, TRUE),
         frag_header' = out_finger, out_finger' = out_finger + Unit,
         ends' = Append(ends, nput), ~frag_sent',
         wire' = wire, fails' = fails, nput' = nput
  PROVE  StreamInv'
<1> DEFINE t == Bytes(Headed(out_buf, out_finger, TRUE), out_finger)
           n == out_finger - frag_header - Unit
<1>0. CanClose(out_finger, TRUE) /\ Continues(out_buf, out_finger, nput)
  BY ContinuesItself DEF CanClose
<1>1. /\ t \in Seq(Cell) /\ Len(t) = out_finger /\ n \in Nat
      /\ AppendsFragment(ClosedPart, t, TRUE, n)
      /\ \A j \in 1..n : t[frag_header + Unit + j] = Payload(nput - n + j)
  <2>1. /\ t \in Seq(Cell) /\ Len(t) = out_finger /\ n \in Nat
    BY <1>0, ClosedBuffer
  <2>2. AppendsFragment(ClosedPart, t, TRUE, n)
    BY <1>0, ClosedBuffer
  <2>3. EndsWith(t, frag_header, n, nput)
    BY <1>0, ClosedBuffer
  <2> QED BY <2>1, <2>2, <2>3 DEF EndsWith
<1>2. ClosedPart' = t
  BY DEF ClosedPart
<1>3. ClosedStream' = wire \o t
  BY <1>2 DEF ClosedStream
<1>4. /\ nput \in Nat /\ ends \in Seq(Nat) /\ out_finger \in Nat /\ frag_header \in Nat
      /\ OpenSize = n /\ wire \in Seq(Cell) /\ OpenSize \in Nat
  BY OutFacts
<1>5. OpenSize' = 0
  <2>1. out_finger' - frag_header' - Unit = 0
    BY <1>4
  <2> QED BY <2>1 DEF OpenSize
<1> HIDE DEF t, n
<1>6. nput - n = nput - OpenSize
  BY <1>4
<1>7. /\ Whole(t) /\ Away \in Int /\ NumberedFrom(t, Away) /\ CarriesAll(t, Away)
      /\ Away + PayloadCount(t, Len(t)) = nput
  BY <1>1, <1>4, <1>6, ClosedMore DEF StreamInv
<1>8. Away' = Away
  <2>1. PayloadCount(ClosedPart', frag_header') = PayloadCount(t, Len(t))
    BY <1>1, <1>2
  <2>2. Away' = nput' - OpenSize' - PayloadCount(ClosedPart', frag_header')
    BY DEF Away
  <2>3. PayloadCount(t, Len(t)) \in Nat
    BY <1>1, <1>4, PayloadCountType
  <2> QED BY <1>4, <1>5, <1>7, <2>1, <2>2, <2>3
<1>9. BufferKept'
  <2>1. Whole(ClosedPart') /\ NumberedFrom(ClosedPart', Away') /\ CarriesAll(ClosedPart', Away')
    BY <1>2, <1>7, <1>8
  <2>2. AwayIsSent'
    BY <1>8 DEF AwayIsSent, StreamInv, BufferKept
  <2>3. OpenNumbered(out_buf', frag_header', out_finger', nput')
    <3>1. (frag_header' + Unit)..(out_finger' - 1) = {}
      BY <1>4
    <3> QED BY <3>1 DEF OpenNumbered
  <2> QED BY <2>1, <2>2, <2>3 DEF BufferKept
<1>10. ASSUME fails' = 0 PROVE StreamIsGood'
  <2> DEFINE w == wire \o t
  <2>0. fails = 0
    BY <1>10
  <2>1. /\ w \in Seq(Cell)
        /\ AppendsFragment(ClosedStream, w, TRUE, n)
        /\ Whole(w) /\ NumberedFrom(w, 0) /\ PayloadCount(w, Len(w)) = nput
    BY <1>1, <1>4, <1>6, <2>0, SentStream
  <2> HIDE DEF w
  <2>2. ClosedStream' = w
    BY <1>3 DEF w
  <2>3. /\ RecordsFit(w, Append(ends, PayloadCount(w, Len(w))))
        /\ Records(w, Len(w)) = Len(ends) + 1
    BY <1>1, <2>0, <2>1, LastSent
  <2>4. RecordsFit(w, ends') /\ Records(w, Len(w)) = Len(ends')
    BY <1>4, <2>1, <2>3
  <2>5. LastEnd' = nput
    BY <1>4 DEF LastEnd
  <2>6. Whole(wire) /\ NumberedFrom(ClosedStream, 0)
        /\ PayloadCount(ClosedStream, Len(ClosedStream)) + OpenSize = nput
    BY <2>0 DEF StreamInv, StreamIsGood
  <2>7. ~PartSent'
    <3> SUFFICES ASSUME NEW i \in 1..Len(wire), wire[i].kind = "payload", wire[i].k > nput
                 PROVE  FALSE
      BY <2>5 DEF PartSent
    <3>1. Begins(wire, ClosedStream) /\ ClosedStream \in Seq(Cell)
      BY ClosedFacts
    <3>2. i \in 1..Len(ClosedStream) /\ ClosedStream[i] = wire[i]
      BY <1>4, <3>1, PrefixAt
    <3>3. ClosedStream[i].kind = "payload"
      BY <3>2
    <3>4. ClosedStream[i].k <= PayloadCount(ClosedStream, Len(ClosedStream))
          /\ ClosedStream[i].k \in Nat
      BY <2>6, <3>1, <3>2, <3>3, NumbersAreBounded
    <3>5. PayloadCount(ClosedStream, Len(ClosedStream)) \in Nat
      BY ClosedFacts
    <3> QED BY <1>4, <2>6, <3>2, <3>4, <3>5
  <2>8. frag_sent' <=> PartSent'
    BY <2>7
  <2>9. Whole(wire') /\ Whole(ClosedStream') /\ NumberedFrom(ClosedStream', 0)
    BY <2>1, <2>2, <2>6
  <2>10. /\ RecordsFit(ClosedStream', ends')
         /\ Records(ClosedStream', Len(ClosedStream')) = Len(ends')
    BY <2>2, <2>4
  <2>11. PayloadCount(ClosedStream', Len(ClosedStream')) = nput
    BY <2>1, <2>2
  <2>12. /\ PayloadCount(ClosedStream', Len(ClosedStream')) + OpenSize' = nput'
         /\ LastEnd' <= PayloadCount(ClosedStream', Len(ClosedStream'))
    BY <1>4, <1>5, <2>5, <2>11
  <2> QED BY <2>8, <2>9, <2>10, <2>12 DEF StreamIsGood
<1> QED BY <1>9, <1>10 DEF StreamInv
-----------------------------------------------------------------------------
(* Each operation keeps the invariant.                                     *)

LEMMA StoreKeepsStream ==
  ASSUME OutInv, OutInv', StreamInv, NEW n \in Nat, out_finger + n <= SendSize,
         out_buf' = Store(out_buf, out_finger, n),
         out_finger' = out_finger + n, nput' = nput + n,
         UNCHANGED <<wire, frag_header, frag_sent, fails, ends>>
  PROVE  StreamInv'
<1>1. OpenNumbered(out_buf, frag_header, out_finger, nput)
  BY DEF StreamInv, BufferKept
<1>2. /\ \A a \in 0..(frag_header - 1) : out_buf'[a] = out_buf[a]
      /\ OpenNumbered(out_buf', frag_header, out_finger', nput')
  BY <1>1, StoreContinues
<1>3. n \in Int
  OBVIOUS
<1> QED BY <1>2, <1>3, StreamStays

\* The buffer after a store, as flush_out gets it.
LEMMA StoreContinuesItself ==
  ASSUME OutInv, StreamInv, NEW n \in Nat, out_finger + n <= SendSize
  PROVE  Continues(Store(out_buf, out_finger, n), out_finger + n, nput + n)
<1> DEFINE b == Store(out_buf, out_finger, n)
<1>1. OpenNumbered(out_buf, frag_header, out_finger, nput)
  BY DEF StreamInv, BufferKept
<1>2. /\ b \in [Offsets -> Cell]
      /\ \A a \in Offsets : GoodCell(b[a])
      /\ \A a \in 0..(frag_header - 1) : b[a] = out_buf[a]
      /\ OpenNumbered(b, frag_header, out_finger + n, nput + n)
  BY <1>1, StoreContinues
<1>3. /\ out_finger \in Nat /\ frag_header \in Nat /\ nput \in Nat
      /\ frag_header + Unit <= out_finger
  BY OutFacts
<1>4. /\ out_finger + n \in Nat /\ frag_header + Unit <= out_finger + n
      /\ nput + n \in Nat /\ nput + n = nput + ((out_finger + n) - out_finger)
  BY <1>3
<1> HIDE DEF b
<1>5. Continues(b, out_finger + n, nput + n)
  BY <1>2, <1>4 DEF Continues
<1> QED BY <1>5 DEF b

LEMMA StoredUnit ==
  ASSUME NEW buf, NEW p \in Nat,
         \A a \in Unit..(2 * Unit - 1) : buf[a] = Payload(p + 1 + (a - Unit))
  PROVE  OpenNumbered(buf, 0, 2 * Unit, p + Unit)
<1>1. ASSUME NEW a \in (0 + Unit)..(2 * Unit - 1)
      PROVE  buf[a] = Payload(p + Unit - (2 * Unit - 1 - a))
  <2>1. a \in Unit..(2 * Unit - 1) /\ p + 1 + (a - Unit) = p + Unit - (2 * Unit - 1 - a)
    OBVIOUS
  <2> QED BY <2>1
<1> QED BY <1>1 DEF OpenNumbered

LEMMA PutLongKeepsStream == ASSUME OutInv, OutInv', StreamInv, PutLong PROVE StreamInv'
<1>0. /\ out_finger \in Nat /\ nput \in Nat /\ frag_header \in Nat /\ SendSize \in Nat
      /\ out_finger <= SendSize /\ frag_header + 2 * Unit <= SendSize
  BY OutFacts
<1>1. CASE Fits(Unit)
  <2>1. /\ out_buf' = Store(out_buf, out_finger, Unit)
        /\ out_finger' = out_finger + Unit /\ nput' = nput + Unit
        /\ out_finger + Unit <= SendSize
        /\ UNCHANGED <<wire, frag_header, frag_sent, fails, ends>>
    BY <1>1 DEF PutLong, Fits
  <2> QED BY <2>1, Unit \in Nat, StoreKeepsStream
<1>2. CASE ~Fits(Unit)
  <2>1. frag_header + Unit < out_finger
    BY <1>0, <1>2 DEF Fits
  <2>2. frag_sent' /\ ends' = ends
    BY <1>2 DEF PutLong
  <2>3. CASE FlushFails(out_buf, out_finger, FALSE) /\ nput' = nput
    <3>1. Continues(out_buf, out_finger, nput')
      BY <2>3, ContinuesItself
    <3>2. FlushFails(out_buf, out_finger, FALSE)
      BY <2>3
    <3> QED BY <3>1, <3>2, FailedFlushKeeps, Zenon
  <2>4. CASE /\ FlushSucceeds(out_buf, out_finger, FALSE)
             /\ out_buf' = Store(Headed(out_buf, out_finger, FALSE), Unit, Unit)
             /\ out_finger' = 2 * Unit
             /\ nput' = nput + Unit
    <3>1. Continues(out_buf, out_finger, nput)
      BY ContinuesItself
    <3>2. nput' = nput + (out_finger' - Unit)
      BY <1>0, <2>4
    <3>3. OpenNumbered(out_buf', 0, out_finger', nput')
      <4>1. ASSUME NEW a \in Unit..(2 * Unit - 1)
            PROVE  out_buf'[a] = Payload(nput + 1 + (a - Unit))
        <5>1. a \in Offsets /\ a \in Unit..(Unit + Unit - 1)
          BY <1>0 DEF Offsets
        <5> QED BY <2>4, <5>1 DEF Store
      <4>2. OpenNumbered(out_buf', 0, 2 * Unit, nput + Unit)
        BY <1>0, <4>1, StoredUnit
      <4> QED BY <2>4, <4>2
    <3>4. FlushSucceeds(out_buf, out_finger, FALSE)
      BY <2>4
    <3> QED BY <2>1, <2>2, <3>1, <3>2, <3>3, <3>4, InnerFlushKeeps
  <2> QED BY <1>2, <2>3, <2>4 DEF PutLong
<1> QED BY <1>1, <1>2

LEMMA PutBytesStepKeepsStream ==
  ASSUME OutInv, OutInv', StreamInv, PutBytesStep PROVE StreamInv'
<1> DEFINE n == MinOf(calls.bytes, SendSize - out_finger)
           rest == calls.bytes - n
           buf == Store(out_buf, out_finger, n)
           finger == out_finger + n
<1>0. /\ out_finger \in Nat /\ nput \in Nat /\ frag_header \in Nat /\ SendSize \in Nat
      /\ out_finger <= SendSize /\ frag_header + 2 * Unit <= SendSize
  BY OutFacts
<1>1. n \in Nat /\ n <= SendSize - out_finger
  <2>1. calls.bytes \in Nat
    BY DEF OutInv, OutTypeOK
  <2> QED BY <1>0, <2>1 DEF MinOf
<1>2. ends' = ends /\ nput' = nput + n
  BY DEF PutBytesStep
<1>3. \/ /\ out_buf' = buf /\ out_finger' = finger
         /\ UNCHANGED <<wire, frag_header, frag_sent, fails>>
      \/ /\ finger = SendSize /\ frag_sent' = TRUE
         /\ \/ /\ FlushSucceeds(buf, finger, FALSE)
               /\ out_buf' = Headed(buf, finger, FALSE)
               /\ out_finger' = Unit
            \/ FlushFails(buf, finger, FALSE)
  <2>1. CASE finger = SendSize /\ rest > 0
    BY <2>1 DEF PutBytesStep
  <2>2. CASE ~(finger = SendSize /\ rest > 0)
    BY <2>2 DEF PutBytesStep
  <2> QED BY <2>1, <2>2
<1>4. out_finger + n <= SendSize /\ out_finger + n \in Nat
  BY <1>0, <1>1
<1> HIDE DEF n, rest
<1>5. Continues(buf, finger, nput')
  BY <1>1, <1>2, <1>4, StoreContinuesItself
<1>6. CASE out_buf' = buf /\ out_finger' = finger /\ UNCHANGED <<wire, frag_header, frag_sent, fails>>
  BY <1>1, <1>2, <1>4, <1>6, StoreKeepsStream
<1>7. CASE FlushFails(buf, finger, FALSE)
  BY <1>5, <1>7, FailedFlushKeeps, Zenon
<1>8. CASE /\ finger = SendSize /\ frag_sent' = TRUE
           /\ FlushSucceeds(buf, finger, FALSE)
           /\ out_finger' = Unit
  <2>1. frag_header + Unit < finger
    BY <1>0, <1>8
  <2>2. nput' = nput' + (out_finger' - Unit)
    BY <1>0, <1>1, <1>2, <1>8
  <2>3. OpenNumbered(out_buf', 0, out_finger', nput')
    <3>1. (0 + Unit)..(out_finger' - 1) = {}
      BY <1>8
    <3> QED BY <3>1 DEF OpenNumbered
  <2>4. FlushSucceeds(buf, finger, FALSE) /\ frag_sent'
    BY <1>8
  <2> QED BY <1>2, <1>5, <2>1, <2>2, <2>3, <2>4, InnerFlushKeeps
<1> QED BY <1>3, <1>6, <1>7, <1>8

LEMMA EndOfRecordKeepsStream ==
  ASSUME OutInv, OutInv', StreamInv, NEW sendnow \in BOOLEAN, EndOfRecord(sendnow)
  PROVE  StreamInv'
<1>1. nput' = nput
  BY DEF EndOfRecord
<1>2. CASE MustFlush(sendnow)
  <2>1. frag_sent' = FALSE
    BY <1>2 DEF EndOfRecord
  <2>2. CASE FlushFails(out_buf, out_finger, TRUE)
    <3>1. Continues(out_buf, out_finger, nput')
      BY <1>1, ContinuesItself
    <3> QED BY <2>2, <3>1, FailedFlushKeeps, Zenon
  <2>3. CASE /\ FlushSucceeds(out_buf, out_finger, TRUE)
             /\ out_buf' = Headed(out_buf, out_finger, TRUE)
             /\ out_finger' = Unit
             /\ ends' = Append(ends, nput)
    <3>1. ~frag_sent' /\ FlushSucceeds(out_buf, out_finger, TRUE)
          /\ out_finger' = Unit /\ ends' = Append(ends, nput)
      BY <2>1, <2>3
    <3> QED BY <1>1, <3>1, LastFlushKeeps
  <2> QED BY <1>2, <2>2, <2>3 DEF EndOfRecord
<1>3. CASE ~MustFlush(sendnow)
  <2>1. /\ out_buf' = Headed(out_buf, out_finger, TRUE)
        /\ frag_header' = out_finger /\ out_finger' = out_finger + Unit
        /\ ends' = Append(ends, nput)
        /\ wire' = wire /\ fails' = fails
    BY <1>3 DEF EndOfRecord
  <2>2. ~frag_sent'
    <3>1. frag_sent' = frag_sent
      BY <1>3 DEF EndOfRecord
    <3>2. ~frag_sent
      BY <1>3 DEF MustFlush
    <3> QED BY <3>1, <3>2
  <2> QED BY <1>1, <2>1, <2>2, BatchKeeps
<1> QED BY <1>2, <1>3

\* A step that changes nothing the invariant speaks of.
LEMMA OutIdleKeepsStream ==
  ASSUME OutInv, OutInv', StreamInv,
         UNCHANGED <<wire, out_buf, out_finger, frag_header, frag_sent, fails, nput, ends>>
  PROVE  StreamInv'
<1>1. OpenNumbered(out_buf', frag_header, out_finger', nput')
  BY DEF StreamInv, BufferKept
<1>2. 0 \in Int /\ nput' = nput + 0 /\ out_finger' = out_finger + 0
  BY OutFacts
<1>3. \A a \in 0..(frag_header - 1) : out_buf'[a] = out_buf[a]
  OBVIOUS
<1> QED BY <1>1, <1>2, <1>3, StreamStays

\* A move that is exact, back or forth.
LEMMA SetPosKeepsStream ==
  ASSUME OutInv, OutInv', StreamInv, MarksHold, SetPos, ~strayed' PROVE StreamInv'
<1>1. PICK m \in marks : SetPosTo(m)
  BY DEF SetPos
<1>2. /\ UNCHANGED <<wire, out_buf, frag_header, frag_sent, fails, ends>>
      /\ nput' = m.nput /\ Len(ends) = m.ends
  <2>1. UNCHANGED <<wire, out_buf, frag_header, frag_sent, fails, ends>>
    BY <1>1 DEF SetPosTo
  <2>2. strayed' = (strayed \/ nput' # m.nput \/ Len(ends) # m.ends)
    BY <1>1 DEF SetPosTo
  <2> QED BY <2>1, <2>2
<1>3. ~Abandoned(m)
  <2>1. Len(ends) \in Nat
    BY OutFacts
  <2> QED BY <1>2, <2>1 DEF Abandoned
<1>4. Live(m) /\ out_finger' = MarkAt(m) /\ nput' = NputAt(m)
  BY <1>1, <1>3, SetPosLands
<1>5. OpenNumbered(out_buf', frag_header, out_finger', nput')
  <2>1. OpenNumbered(out_buf, frag_header, MarkAt(m), NputAt(m))
    BY <1>4 DEF MarksHold
  <2> QED BY <1>2, <1>4, <2>1
<1>6. PICK d \in Int : d = MarkAt(m) - out_finger
  <2>1. MarkAt(m) \in Int /\ out_finger \in Nat
    BY MarkFacts, OutFacts
  <2> QED BY <2>1
<1>7. nput' = nput + d /\ out_finger' = out_finger + d
  <2>1. MarkAt(m) \in Int /\ out_finger \in Nat /\ nput \in Nat
    BY MarkFacts, OutFacts
  <2> QED BY <1>4, <1>6, <2>1 DEF NputAt
<1>8. \A a \in 0..(frag_header - 1) : out_buf'[a] = out_buf[a]
  BY <1>2
<1> QED BY <1>2, <1>5, <1>7, <1>8, StreamStays

\* The caller strays only by a move.
LEMMA OnlyMovesStray ==
  ASSUME OutNext PROVE strayed' = strayed \/ (SetPos /\ (strayed => strayed'))
BY Zenon DEF OutNext, PutLong, PutOpaque, PutBytesStep, PutInline, EndOfRecord, GetPos, SetPos,
             SetPosTo, Destroy, outVars

LEMMA OutNextKeepsStream ==
  ASSUME OutInv, StreamInv, MarksHold, OutNext, ~strayed'
  PROVE  OutInv' /\ StreamInv' /\ MarksHold'
<1>0. OutInv'
  BY OutNextKeeps
<1>1. CASE PutLong BY <1>0, <1>1, PutLongKeepsStream, PutLongKeepsMarks
<1>2. CASE \E size \in OpaqueSizes : PutOpaque(size)
  <2>1. UNCHANGED <<wire, out_buf, out_finger, frag_header, frag_sent, marks, fails, nput, ends>>
    BY <1>2 DEF PutOpaque
  <2> QED BY <1>0, <2>1, OutIdleKeepsStream, IdleKeepsMarks
<1>3. CASE PutBytesStep BY <1>0, <1>3, PutBytesStepKeepsStream, PutBytesStepKeepsMarks
<1>4. CASE \E n \in InlineSizes : PutInline(n)
  <2>1. PICK n \in InlineSizes : PutInline(n)
    BY <1>4
  <2>2. n \in Nat /\ out_finger + n <= SendSize
    BY <2>1, OutAssumption DEF PutInline, Fits, OutAssumption
  <2>3. /\ out_buf' = Store(out_buf, out_finger, n)
        /\ out_finger' = out_finger + n /\ nput' = nput + n
        /\ UNCHANGED <<wire, frag_header, frag_sent, marks, fails, ends>>
    BY <2>1 DEF PutInline
  <2>4. StreamInv'
    BY <1>0, <2>2, <2>3, StoreKeepsStream
  <2>5. MarksHold'
    BY <2>2, <2>3, StoreKeepsMarks
  <2> QED BY <1>0, <2>4, <2>5
<1>5. CASE \E sendnow \in BOOLEAN : EndOfRecord(sendnow)
  <2>1. PICK sendnow \in BOOLEAN : EndOfRecord(sendnow)
    BY <1>5
  <2> QED BY <1>0, <2>1, EndOfRecordKeepsStream, EndOfRecordKeepsMarks, Zenon
<1>6. CASE GetPos
  <2>1. OpenNumbered(out_buf, frag_header, out_finger, nput)
    BY DEF StreamInv, BufferKept
  <2>2. StreamInv'
    BY <1>0, <1>6, OutIdleKeepsStream DEF GetPos
  <2> QED BY <1>0, <1>6, <2>1, <2>2, GetPosKeepsMarks
<1>7. CASE SetPos BY <1>0, <1>7, SetPosKeepsStream, SetPosKeepsMarks
<1>8. CASE Destroy
  <2>1. UNCHANGED <<wire, out_buf, out_finger, frag_header, frag_sent, marks, fails, nput, ends>>
    BY <1>8 DEF Destroy, outVars
  <2> QED BY <1>0, <2>1, OutIdleKeepsStream, IdleKeepsMarks
<1> QED BY <1>0, <1>1, <1>2, <1>3, <1>4, <1>5, <1>6, <1>7, <1>8 DEF OutNext

LEMMA OutNextKeepsKept == ASSUME OutInv, KeptInv, OutNext PROVE OutInv' /\ KeptInv'
<1>1. OutInv'
  BY OutNextKeeps
<1>2. ASSUME ~strayed' PROVE StreamInv' /\ MarksHold'
  <2>1. ~strayed
    BY <1>2, OnlyMovesStray
  <2> QED BY <1>2, <2>1, OutNextKeepsStream DEF KeptInv
<1> QED BY <1>1, <1>2 DEF KeptInv

LEMMA OutStutterKeepsKept ==
  ASSUME OutInv, OutInv', KeptInv, UNCHANGED <<wire, outVars>> PROVE KeptInv'
<1>1. UNCHANGED <<wire, out_buf, out_finger, frag_header, frag_sent, marks, fails, nput, ends>>
      /\ strayed' = strayed
  BY DEF outVars
<1>2. ASSUME ~strayed' PROVE StreamInv' /\ MarksHold'
  <2>1. StreamInv /\ MarksHold
    BY <1>1, <1>2 DEF KeptInv
  <2> QED BY <1>1, <2>1, OutIdleKeepsStream, IdleKeepsMarks
<1> QED BY <1>2 DEF KeptInv

LEMMA OutInitIsStream == ASSUME wire = << >>, open = TRUE, OutInit PROVE StreamInv
<1>1. out_finger = Unit /\ frag_header = 0 /\ frag_sent = FALSE /\ nput = 0 /\ ends = << >>
  BY DEF OutInit
<1>2. ClosedPart = << >> /\ ClosedStream = << >> /\ OpenSize = 0 /\ LastEnd = 0
  BY <1>1 DEF ClosedPart, ClosedStream, Bytes, OpenSize, LastEnd
<1>3. PayloadCount(<< >>, 0) = 0
  BY EmptyStream
<1>4. Away = 0
  BY <1>1, <1>2, <1>3 DEF Away
<1>5. BufferKept
  <2>1. Whole(ClosedPart) /\ NumberedFrom(ClosedPart, Away) /\ CarriesAll(ClosedPart, Away)
    BY <1>2, EmptyStream
  <2>2. OpenNumbered(out_buf, frag_header, out_finger, nput) /\ AwayIsSent
    BY <1>1, <1>4 DEF OpenNumbered, AwayIsSent
  <2> QED BY <2>1, <2>2 DEF BufferKept
<1>6. ~PartSent
  BY DEF PartSent
<1>7. Len(<< >>) = 0
  BY EmptyStream
<1>8. RecordsFit(<< >>, << >>)
  <2>1. Heads(<< >>) = {}
    BY DEF Heads
  <2>2. ASSUME NEW q \in 0..Len(<< >>) PROVE ~(Records(<< >>, q) < Len(<< >>))
    <3>1. q = 0
      BY <1>7
    <3>2. Records(<< >>, 0) = 0
      BY EmptyStream
    <3> QED BY <1>7, <3>1, <3>2
  <2> QED BY <2>1, <2>2 DEF RecordsFit
<1>9. Records(<< >>, 0) = 0 /\ NumberedFrom(<< >>, 0) /\ Whole(<< >>)
  BY EmptyStream
<1>10. StreamIsGood
  <2>1. frag_sent <=> PartSent
    BY <1>1, <1>6
  <2>2. /\ Whole(wire) /\ Whole(ClosedStream) /\ NumberedFrom(ClosedStream, 0)
        /\ RecordsFit(ClosedStream, ends)
    BY <1>1, <1>2, <1>8, <1>9
  <2>3. /\ Records(ClosedStream, Len(ClosedStream)) = Len(ends)
        /\ PayloadCount(ClosedStream, Len(ClosedStream)) + OpenSize = nput
        /\ LastEnd <= PayloadCount(ClosedStream, Len(ClosedStream))
    BY <1>1, <1>2, <1>3, <1>7, <1>9
  <2> QED BY <2>1, <2>2, <2>3 DEF StreamIsGood
<1> QED BY <1>5, <1>10 DEF StreamInv
-----------------------------------------------------------------------------
LEMMA OutInitIsKept == ASSUME wire = << >>, open = TRUE, OutInit PROVE KeptInv
<1>1. MarksHold
  BY DEF OutInit, MarksHold
<1> QED BY <1>1, OutInitIsStream DEF KeptInv

(***************************************************************************)
(* What the writer puts on the wire, whatever writeit does, for every      *)
(* caller that has not strayed.                                            *)
(***************************************************************************)
THEOREM StreamInvariance == OutSpec => [](OutInv /\ KeptInv)
<1>1. OutStart => OutInv /\ KeptInv
  BY OutInitEstablishes, OutInitIsKept DEF OutStart
<1>2. OutInv /\ KeptInv /\ [OutNext]_<<wireVars, outVars>> => OutInv' /\ KeptInv'
  <2> SUFFICES ASSUME OutInv, KeptInv, [OutNext]_<<wireVars, outVars>>
               PROVE  OutInv' /\ KeptInv'
    OBVIOUS
  <2>1. CASE UNCHANGED <<wireVars, outVars>>
    <3>1. OutInv'
      BY <2>1, OutStutterKeeps DEF wireVars, OutInv, OutTypeOK
    <3> QED BY <2>1, <3>1, OutStutterKeepsKept DEF wireVars
  <2> QED BY <2>1, OutNextKeepsKept
<1> QED BY <1>1, <1>2, PTL DEF OutSpec

LEMMA OpenPayloadIsTail == ASSUME OutInv, StreamInv PROVE OpenIsTail
<1>1. /\ Len(OpenPayload) = OpenSize
      /\ \A i \in 1..OpenSize : OpenPayload[i] = out_buf[frag_header + Unit + i - 1]
  BY OpenFacts
<1>2. /\ out_finger \in Nat /\ frag_header \in Nat /\ nput \in Nat /\ OpenSize \in Nat
      /\ OpenSize = out_finger - frag_header - Unit
  BY OutFacts
<1>3. OpenNumbered(out_buf, frag_header, out_finger, nput)
  BY DEF StreamInv, BufferKept
<1>4. ASSUME NEW i \in 1..OpenSize PROVE OpenPayload[i] = Payload(nput - OpenSize + i)
  <2>1. PICK a \in Nat : a = frag_header + Unit + i - 1
    <3>1. frag_header + Unit + i - 1 \in Nat
      BY <1>2
    <3> QED BY <3>1
  <2>2. a \in (frag_header + Unit)..(out_finger - 1)
        /\ nput - (out_finger - 1 - a) = nput - OpenSize + i
    BY <1>2, <2>1
  <2>3. out_buf[a] = Payload(nput - (out_finger - 1 - a))
    BY <1>3, <2>2 DEF OpenNumbered
  <2> QED BY <1>1, <2>1, <2>2, <2>3
<1> QED BY <1>1, <1>4 DEF OpenIsTail

(***************************************************************************)
(* While writeit does not fail and the caller has not strayed, the stream  *)
(* is whole fragments, its records end where the caller ended them, and it *)
(* carries every byte, once and in order.                                  *)
(***************************************************************************)
THEOREM StreamStaysRecords == OutSpec => []StreamIsRecords
<1>1. OutInv /\ KeptInv => StreamIsRecords
  <2> SUFFICES ASSUME OutInv, KeptInv, fails = 0, ~strayed
               PROVE  /\ Whole(ClosedStream)
                      /\ RecordsEndAt(ClosedStream, ends)
                      /\ NumberedFrom(ClosedStream, 0)
                      /\ PayloadCount(ClosedStream, Len(ClosedStream)) + Len(OpenPayload) = nput
                      /\ OpenIsTail
    BY DEF StreamIsRecords
  <2>0. StreamInv
    BY DEF KeptInv
  <2>1. /\ Whole(ClosedStream) /\ NumberedFrom(ClosedStream, 0)
        /\ RecordsFit(ClosedStream, ends)
        /\ Records(ClosedStream, Len(ClosedStream)) = Len(ends)
        /\ PayloadCount(ClosedStream, Len(ClosedStream)) + OpenSize = nput
    BY <2>0 DEF StreamInv, StreamIsGood
  <2>2. ClosedStream \in Seq(Cell) /\ Len(OpenPayload) = OpenSize
    BY ClosedFacts, OpenFacts
  <2>3. RecordsEndAt(ClosedStream, ends)
    BY <2>1, <2>2, WholeRecordsEndAt
  <2>4. OpenIsTail
    BY <2>0, OpenPayloadIsTail
  <2> QED BY <2>1, <2>2, <2>3, <2>4
<1> QED BY <1>1, StreamInvariance, PTL

(***************************************************************************)
(* frag_sent says exactly whether the peer has part of the record.         *)
(***************************************************************************)
THEOREM FragSentStaysExact == OutSpec => []FragSentExact
<1>1. OutInv /\ KeptInv => FragSentExact
  <2> SUFFICES ASSUME OutInv, KeptInv, fails = 0, ~strayed PROVE frag_sent = PartSent
    BY DEF FragSentExact
  <2>1. frag_sent <=> PartSent
    BY DEF KeptInv, StreamInv, StreamIsGood
  <2>2. frag_sent \in BOOLEAN
    BY DEF OutInv, OutTypeOK
  <2>3. PartSent \in BOOLEAN
    BY DEF PartSent
  <2> QED BY <2>1, <2>2, <2>3, Zenon
<1> QED BY <1>1, StreamInvariance, PTL

(***************************************************************************)
(* Whatever writeit does, what is not on the wire is in the buffer.        *)
(***************************************************************************)
THEOREM BufferKeepsTail == OutSpec => []BufferHoldsTail
<1>1. OutInv /\ KeptInv => BufferHoldsTail
  <2> SUFFICES ASSUME OutInv, StreamInv, ~strayed PROVE BufferHoldsTail
    BY DEF KeptInv, BufferHoldsTail
  <2>1. Gone = Away
    BY OpenFacts DEF Gone, Away
  <2>2. Whole(ClosedPart) /\ NumberedFrom(ClosedPart, Away) /\ AwayIsSent
    BY DEF StreamInv, BufferKept
  <2>3. OpenIsTail
    BY OpenPayloadIsTail
  <2> QED BY <2>1, <2>2, <2>3 DEF BufferHoldsTail, AwayIsSent
<1> QED BY <1>1, StreamInvariance, PTL

(***************************************************************************)
(* A record the peer has begun to receive is pushed out to its end.        *)
(***************************************************************************)
THEOREM PartlySentAreFlushed == OutSpec => PartlySentIsFlushed
<1>1. OutInv /\ KeptInv /\ [OutNext]_<<wireVars, outVars>>
        => [fails' = 0 /\ ~strayed /\ ends' # ends /\ PartSent => frag_header' = 0]_outVars
  <2> SUFFICES ASSUME OutInv, KeptInv, OutNext, fails' = 0, ~strayed, ends' # ends, PartSent
               PROVE  frag_header' = 0
    BY DEF wireVars, outVars
  <2>1. PICK sendnow \in BOOLEAN : EndOfRecord(sendnow)
    BY Zenon DEF OutNext, PutLong, PutOpaque, PutBytesStep, PutInline, GetPos, SetPos, SetPosTo,
                 Destroy, outVars
  <2>2. CASE FlushSucceeds(out_buf, out_finger, TRUE)
    BY <2>2 DEF FlushSucceeds
  <2>3. CASE ~FlushSucceeds(out_buf, out_finger, TRUE)
    <3>1. ~MustFlush(sendnow)
      BY <2>1, <2>3 DEF EndOfRecord
    <3>2. fails = 0
      BY <2>1, <3>1 DEF EndOfRecord
    <3>3. frag_sent
      BY <3>2 DEF KeptInv, StreamInv, StreamIsGood
    <3> QED BY <3>1, <3>3 DEF MustFlush
  <2> QED BY <2>2, <2>3
<1> QED BY <1>1, StreamInvariance, PTL DEF OutSpec, PartlySentIsFlushed
-----------------------------------------------------------------------------
(***************************************************************************)
(* The inductive invariant.                                                *)
(***************************************************************************)
BufferTypeOK ==
  /\ in_buf \in [InOffsets -> Cell]
  /\ in_finger \in Nat /\ in_boundry \in Nat /\ nread \in Nat

CallTypeOK ==
  /\ rop \in {"idle", "getbytes", "skiprecord", "eof"}
  /\ inside \in {"loop", "data", "header"}
  /\ len \in Nat /\ cnt \in Nat /\ current \in Nat
  /\ word \in Seq(Cell)

RetTypeOK ==
  ret \in [op : {"create", "getbytes", "skiprecord", "eof"}, ok : BOOLEAN, clean : BOOLEAN]

RestTypeOK ==
  /\ fbtbc \in Nat /\ last_frag \in BOOLEAN
  /\ errors \in Nat /\ ncalls \in Nat /\ inmark \in Nat \cup {-1}
  /\ got \in Seq(Cell)

\* Which of the variables of a call are in use, and how they are related.
CallShape ==
  /\ rop = "idle" => inside = "loop"
  /\ inside = "loop" => cnt = 0 /\ current = 0 /\ word = << >>
  /\ inside = "data" =>
       /\ word = << >> /\ cnt <= current /\ current <= fbtbc
       /\ rop = "getbytes" => current <= len
       /\ rop # "getbytes" => current = fbtbc
  /\ inside = "header" => current = Unit /\ cnt + Len(word) = Unit

BufferBounds ==
  /\ in_finger <= in_boundry /\ in_boundry <= RecvSize
  /\ in_boundry - in_finger <= nread /\ nread <= Len(wire)

\* Offsets in the buffer and in the stream differ by whole units.
BoundryAligned == \E k \in Int : in_boundry = nread + k * Unit

UnreadIsStream ==
  \A a \in in_finger..(in_boundry - 1) : in_buf[a] = wire[nread + 1 - (in_boundry - a)]

BufferInv ==
  /\ BufferTypeOK /\ BufferBounds /\ BoundryAligned
  /\ ~SeekableIn => UnreadIsStream

CallInv == CallTypeOK /\ RetTypeOK /\ RestTypeOK /\ CallShape

HistoryTypeOK == rec \in Nat /\ pos \in Int

ReaderInv == BufferInv /\ CallInv /\ HistoryTypeOK
-----------------------------------------------------------------------------
(* The buffer.                                                             *)

LEMMA InFacts ==
  /\ RecvSize \in Nat /\ RecvSize >= Unit /\ Aligned(RecvSize)
  /\ GetSizes \subseteq Nat /\ InlineGets \subseteq Nat
  /\ MaxErrors \in Nat
BY InAssumption DEF InAssumption

\* The next n bytes of the buffer.
LEMMA NextBytes ==
  ASSUME BufferInv, NEW n \in Nat, in_finger + n <= in_boundry
  PROVE  /\ BufferBytes(n) \in Seq(Cell)
         /\ Len(BufferBytes(n)) = n
         /\ \A i \in 1..n : BufferBytes(n)[i] = in_buf[in_finger + i - 1]
<1>1. /\ in_buf \in [InOffsets -> Cell] /\ in_finger \in Nat /\ in_boundry \in Nat
      /\ in_boundry <= RecvSize /\ RecvSize \in Nat
  BY InFacts DEF BufferInv, BufferTypeOK, BufferBounds
<1>2. ASSUME NEW i \in 1..n PROVE in_buf[in_finger + i - 1] \in Cell
  <2>1. in_finger + i - 1 \in InOffsets
    BY <1>1 DEF InOffsets
  <2> QED BY <1>1, <2>1
<1> QED BY <1>2 DEF BufferBytes

\* Taking them.
LEMMA TakeKeepsBuffer ==
  ASSUME BufferInv, wire \in Seq(Cell), NEW n \in Nat, in_finger + n <= in_boundry,
         in_finger' = in_finger + n, UNCHANGED <<in_buf, in_boundry, nread, wire>>
  PROVE  BufferInv'
<1>1. BufferTypeOK'
  BY DEF BufferInv, BufferTypeOK
<1>2. BufferBounds'
  BY DEF BufferInv, BufferTypeOK, BufferBounds
<1>3. BoundryAligned'
  BY DEF BufferInv, BoundryAligned
<1>4. ASSUME ~SeekableIn PROVE UnreadIsStream'
  <2>1. in_finger \in Nat /\ in_boundry \in Nat
    BY DEF BufferInv, BufferTypeOK
  <2>2. \A a \in (in_finger + n)..(in_boundry - 1) : a \in in_finger..(in_boundry - 1)
    BY <2>1
  <2>3. UnreadIsStream
    BY <1>4 DEF BufferInv
  <2> QED BY <2>2, <2>3 DEF UnreadIsStream
<1> QED BY <1>1, <1>2, <1>3, <1>4 DEF BufferInv

LEMMA BufferUntouched ==
  ASSUME BufferInv, UNCHANGED <<in_buf, in_finger, in_boundry, nread, wire>>
  PROVE  BufferInv'
BY DEF BufferInv, BufferTypeOK, BufferBounds, BoundryAligned, UnreadIsStream

\* The connection grows behind what was read.
LEMMA WriterKeepsBuffer ==
  ASSUME BufferInv, wire \in Seq(Cell), wire' \in Seq(Cell), Begins(wire, wire'),
         UNCHANGED <<in_buf, in_finger, in_boundry, nread>>
  PROVE  BufferInv'
<1>0. /\ in_finger \in Nat /\ in_boundry \in Nat /\ nread \in Nat
      /\ in_finger <= in_boundry /\ in_boundry - in_finger <= nread /\ nread <= Len(wire)
      /\ Len(wire) \in Nat /\ Len(wire') \in Nat /\ Len(wire) <= Len(wire')
      /\ \A i \in 1..Len(wire) : wire[i] = wire'[i]
  BY DEF BufferInv, BufferTypeOK, BufferBounds, Begins
<1>1. BufferTypeOK' /\ BoundryAligned'
  BY DEF BufferInv, BufferTypeOK, BoundryAligned
<1>2. BufferBounds'
  BY <1>0 DEF BufferInv, BufferBounds
<1>3. ASSUME ~SeekableIn PROVE UnreadIsStream'
  <2>1. UnreadIsStream
    BY <1>3 DEF BufferInv
  <2>2. ASSUME NEW a \in in_finger..(in_boundry - 1)
        PROVE  in_buf[a] = wire'[nread + 1 - (in_boundry - a)]
    <3>1. nread + 1 - (in_boundry - a) \in 1..Len(wire)
      BY <1>0
    <3> QED BY <1>0, <2>1, <3>1 DEF UnreadIsStream
  <2> QED BY <2>2 DEF UnreadIsStream
<1> QED BY <1>1, <1>2, <1>3 DEF BufferInv

\* Where fill_input_buf starts.
LEMMA WhereFacts ==
  ASSUME BufferInv
  PROVE  /\ Where \in 0..(Unit - 1)
         /\ \E k \in Int : Where = nread + k * Unit
<1>1. in_boundry \in Nat /\ nread \in Nat
  BY DEF BufferInv, BufferTypeOK
<1>2. Where \in 0..(Unit - 1) /\ in_boundry = Unit * (in_boundry \div Unit) + Where
      /\ in_boundry \div Unit \in Int
  BY <1>1 DEF Where
<1>3. PICK k \in Int : in_boundry = nread + k * Unit
  BY DEF BufferInv, BoundryAligned
<1> DEFINE j == k - (in_boundry \div Unit)
<1>4. j \in Int /\ j * Unit = k * Unit - (in_boundry \div Unit) * Unit
  BY <1>2
<1>5. Where = nread + j * Unit
  BY <1>1, <1>2, <1>3, <1>4
<1> HIDE DEF j
<1> QED BY <1>2, <1>4, <1>5

LEMMA FillKeepsBuffer ==
  ASSUME BufferInv, wire \in Seq(Cell), Fill, in_finger = in_boundry PROVE BufferInv'
<1>1. PICK n \in 1..MinOf(RecvSize - Where, Len(wire) - nread) :
        /\ in_buf' = [a \in InOffsets |->
                        IF a \in Where..(Where + n - 1)
                          THEN wire[nread + 1 + (a - Where)] ELSE in_buf[a]]
        /\ in_finger' = Where
        /\ in_boundry' = Where + n
        /\ nread' = nread + n
  BY DEF Fill
<1>2. /\ in_buf \in [InOffsets -> Cell] /\ nread \in Nat /\ nread <= Len(wire)
      /\ Len(wire) \in Nat /\ RecvSize \in Nat /\ RecvSize >= Unit
  BY InFacts DEF BufferInv, BufferTypeOK, BufferBounds
<1>3. Where \in 0..(Unit - 1) /\ Where \in Nat
  BY WhereFacts
<1>w. wire' = wire
  BY DEF Fill, wireVars
<1> DEFINE w == Where
<1>4. PICK k \in Int : w = nread + k * Unit
  BY WhereFacts
<1> HIDE DEF w
<1>5. /\ n \in Nat /\ n >= 1 /\ w + n <= RecvSize /\ nread + n <= Len(wire)
      /\ w \in Nat
  BY <1>1, <1>2, <1>3 DEF MinOf, w
<1>6. /\ in_buf' = [a \in InOffsets |->
                      IF a \in w..(w + n - 1)
                        THEN wire[nread + 1 + (a - w)] ELSE in_buf[a]]
      /\ in_finger' = w /\ in_boundry' = w + n /\ nread' = nread + n
  BY <1>1 DEF w
<1>7. BufferTypeOK'
  <2>1. ASSUME NEW a \in InOffsets, a \in w..(w + n - 1)
        PROVE  wire[nread + 1 + (a - w)] \in Cell
    <3>1. nread + 1 + (a - w) \in 1..Len(wire)
      BY <1>2, <1>5, <2>1
    <3> QED BY <3>1
  <2>2. in_buf' \in [InOffsets -> Cell]
    BY <1>2, <1>6, <2>1
  <2> QED BY <1>2, <1>5, <1>6, <2>2 DEF BufferTypeOK
<1>8. BufferBounds'
  BY <1>2, <1>5, <1>6, <1>w DEF BufferBounds
<1>9. BoundryAligned'
  <2>1. in_boundry' = nread' + k * Unit
    BY <1>2, <1>4, <1>5, <1>6
  <2> QED BY <2>1 DEF BoundryAligned
<1>10. UnreadIsStream'
  <2> SUFFICES ASSUME NEW a \in w..(w + n - 1)
               PROVE  in_buf'[a] = wire[nread + n + 1 - (w + n - a)]
    BY <1>5, <1>6, <1>w DEF UnreadIsStream
  <2>1. a \in InOffsets
    BY <1>2, <1>5 DEF InOffsets
  <2>2. nread + n + 1 - (w + n - a) = nread + 1 + (a - w)
    BY <1>2, <1>5
  <2> QED BY <1>6, <2>1, <2>2
<1> QED BY <1>7, <1>8, <1>9, <1>10 DEF BufferInv

\* An end of the stream that is taken for an empty read.
LEMMA EmptyReadKeepsBuffer ==
  ASSUME BufferInv, in_finger' = Where, in_boundry' = Where,
         UNCHANGED <<in_buf, nread, wire>>
  PROVE  BufferInv'
<1>1. Where \in 0..(Unit - 1) /\ Where \in Nat /\ \E k \in Int : Where = nread + k * Unit
  BY WhereFacts
<1>2. nread \in Nat /\ nread <= Len(wire) /\ RecvSize \in Nat /\ RecvSize >= Unit
      /\ in_buf \in [InOffsets -> Cell]
  BY InFacts DEF BufferInv, BufferTypeOK, BufferBounds
<1>3. BufferTypeOK'
  BY <1>1, <1>2 DEF BufferTypeOK
<1>4. BufferBounds'
  <2>1. in_finger' <= in_boundry' /\ in_boundry' <= RecvSize /\ in_boundry' - in_finger' <= nread'
    BY <1>1, <1>2
  <2> QED BY <1>2, <2>1 DEF BufferBounds
<1>5. BoundryAligned'
  BY <1>1 DEF BoundryAligned
<1>6. UnreadIsStream'
  <2>1. in_finger'..(in_boundry' - 1) = {}
    BY <1>1
  <2> QED BY <2>1 DEF UnreadIsStream
<1> QED BY <1>3, <1>4, <1>5, <1>6 DEF BufferInv

\* x_setpostn moves the finger within the buffer.
LEMMA MoveKeepsBuffer ==
  ASSUME BufferInv, SeekableIn, NEW newpos \in Nat, newpos <= in_boundry,
         in_boundry - newpos <= nread,
         in_finger' = newpos, UNCHANGED <<in_buf, in_boundry, nread, wire>>
  PROVE  BufferInv'
BY DEF BufferInv, BufferTypeOK, BufferBounds, BoundryAligned
-----------------------------------------------------------------------------
(* The call in progress.                                                   *)

LEMMA ReturnKeepsCall ==
  ASSUME CallInv, NEW op, op \in {"getbytes", "skiprecord", "eof"},
         NEW ok, ok \in BOOLEAN, NEW clean, clean \in BOOLEAN,
         Return(op, ok, clean), RestTypeOK'
  PROVE  CallInv'
<1>1. /\ rop' = "idle" /\ inside' = "loop" /\ len' = 0 /\ cnt' = 0 /\ current' = 0
      /\ word' = << >> /\ ret' = [op |-> op, ok |-> ok, clean |-> clean]
  BY DEF Return
<1>2. RetTypeOK'
  BY <1>1, Zenon DEF RetTypeOK
<1>3. CallTypeOK' /\ CallShape'
  BY <1>1 DEF CallTypeOK, CallShape
<1> QED BY <1>2, <1>3 DEF CallInv

\* Between calls, only what the caller was given changes.
LEMMA IdleKeepsCall ==
  ASSUME CallInv, rop = "idle", UNCHANGED callVars, RetTypeOK', RestTypeOK'
  PROVE  CallInv'
BY DEF CallInv, CallTypeOK, CallShape, callVars

\* A failed input routine.
LEMMA AbandonKeepsCall ==
  ASSUME CallInv, rop # "idle", NEW clean, clean \in BOOLEAN, Abandon(clean), RestTypeOK'
  PROVE  CallInv'
<1>1. rop \in {"getbytes", "skiprecord", "eof"}
  BY DEF CallInv, CallTypeOK
<1>2. (rop = "eof") \in BOOLEAN
  OBVIOUS
<1>3. Return(rop, rop = "eof", clean)
  BY DEF Abandon
<1> QED BY <1>1, <1>2, <1>3, ReturnKeepsCall

LEMMA BeginKeeps ==
  ASSUME CallInv, NEW op, op \in {"getbytes", "skiprecord", "eof"}, NEW n \in Nat, Begin(op, n)
  PROVE  CallInv'
<1>1. /\ rop = "idle" /\ rop' = op /\ len' = n /\ ncalls' = ncalls + 1
      /\ UNCHANGED <<inside, cnt, current, word, ret, fbtbc, last_frag, errors, inmark, got>>
  BY DEF Begin
<1>2. CallTypeOK' /\ RetTypeOK'
  BY <1>1 DEF CallInv, CallTypeOK, RetTypeOK
<1>3. RestTypeOK'
  BY <1>1 DEF CallInv, RestTypeOK
<1>4. inside' = "loop" /\ cnt' = 0 /\ current' = 0 /\ word' = << >>
  BY <1>1 DEF CallInv, CallShape
<1>5. CallShape'
  BY <1>1, <1>4 DEF CallShape
<1> QED BY <1>2, <1>3, <1>5 DEF CallInv

\* The heads of the two loops: return, or call an input routine.
LEMMA GetBytesLoopKeeps == ASSUME CallInv, GetBytesLoop PROVE CallInv'
<1>0. /\ rop = "getbytes" /\ inside = "loop"
      /\ UNCHANGED <<fbtbc, last_frag, errors, ncalls, inmark, got>>
  BY DEF GetBytesLoop
<1>1. RestTypeOK'
  BY <1>0 DEF CallInv, RestTypeOK
<1>2. CASE Return("getbytes", TRUE, TRUE) \/ Return("getbytes", FALSE, TRUE)
  <2>1. TRUE \in BOOLEAN /\ FALSE \in BOOLEAN
    OBVIOUS
  <2> QED BY <1>1, <1>2, <2>1, ReturnKeepsCall
<1>3. CASE /\ inside' = "header" /\ cnt' = Unit /\ current' = Unit
           /\ UNCHANGED <<rop, len, word, ret>>
  BY <1>0, <1>1, <1>3 DEF CallInv, CallTypeOK, RetTypeOK, CallShape
<1>4. CASE /\ len > 0 /\ fbtbc > 0
           /\ inside' = "data" /\ cnt' = MinOf(len, fbtbc) /\ current' = cnt'
           /\ UNCHANGED <<rop, len, word, ret>>
  <2>1. fbtbc \in Nat /\ len \in Nat
    BY DEF CallInv, CallTypeOK, RestTypeOK
  <2>2. cnt' \in Nat /\ cnt' <= len /\ cnt' <= fbtbc
    BY <1>4, <2>1 DEF MinOf
  <2> QED BY <1>0, <1>1, <1>4, <2>2 DEF CallInv, CallTypeOK, RetTypeOK, CallShape
<1> QED BY <1>2, <1>3, <1>4 DEF GetBytesLoop

LEMMA SkipLoopKeeps == ASSUME CallInv, SkipLoop PROVE CallInv'
<1>0. /\ rop \in {"skiprecord", "eof"} /\ inside = "loop"
      /\ UNCHANGED <<fbtbc, errors, ncalls, inmark, got>>
  BY DEF SkipLoop
<1>1. CASE /\ inside' = "data" /\ cnt' = fbtbc /\ current' = fbtbc
           /\ UNCHANGED <<rop, len, word, ret, last_frag>>
  <2>1. fbtbc \in Nat
    BY DEF CallInv, RestTypeOK
  <2> QED BY <1>0, <1>1, <2>1 DEF CallInv, CallTypeOK, RetTypeOK, RestTypeOK, CallShape
<1>2. CASE last_frag' = FALSE /\ Return("skiprecord", TRUE, TRUE)
  <2>1. RestTypeOK'
    BY <1>0, <1>2 DEF CallInv, RestTypeOK
  <2>2. TRUE \in BOOLEAN
    OBVIOUS
  <2> QED BY <1>2, <2>1, <2>2, ReturnKeepsCall
<1>3. CASE Return("eof", in_finger = in_boundry, TRUE) /\ UNCHANGED last_frag
  <2>1. RestTypeOK'
    BY <1>0, <1>3 DEF CallInv, RestTypeOK
  <2>2. TRUE \in BOOLEAN /\ (in_finger = in_boundry) \in BOOLEAN
    OBVIOUS
  <2> QED BY <1>3, <2>1, <2>2, ReturnKeepsCall
<1> QED BY <1>1, <1>2, <1>3 DEF SkipLoop

LEMMA FillKeepsCall == ASSUME CallInv, Fill \/ FillFails \/ FillAtEnd PROVE CallInv'
<1>0. inside # "loop" /\ UNCHANGED <<fbtbc, last_frag, ncalls, inmark, got>>
  BY DEF Fill, FillFails, FillAtEnd
<1>1. errors' \in Nat
  <2>1. errors \in Nat
    BY DEF CallInv, RestTypeOK
  <2>2. errors' = errors \/ errors' = errors + 1
    BY DEF Fill, FillFails, FillAtEnd
  <2> QED BY <2>1, <2>2
<1>2. RestTypeOK'
  BY <1>0, <1>1 DEF CallInv, RestTypeOK
<1>3. rop # "idle"
  BY <1>0 DEF CallInv, CallShape
<1>4. CASE Abandon(FALSE)
  <2>1. FALSE \in BOOLEAN
    OBVIOUS
  <2> QED BY <1>2, <1>3, <1>4, <2>1, AbandonKeepsCall
<1>5. CASE UNCHANGED <<callVars, ret, fbtbc>>
  BY <1>2, <1>5 DEF CallInv, CallTypeOK, RetTypeOK, CallShape, callVars
<1> QED BY <1>0, <1>4, <1>5 DEF Fill, FillFails, FillAtEnd

\* What one iteration of an input routine takes.
Taken == MinOf(cnt, in_boundry - in_finger)

LEMMA TakenFacts ==
  ASSUME CallTypeOK, BufferInv, in_finger < in_boundry, cnt > 0
  PROVE  /\ Taken \in Nat /\ Taken >= 1 /\ Taken <= cnt /\ in_finger + Taken <= in_boundry
         /\ BufferBytes(Taken) \in Seq(Cell) /\ Len(BufferBytes(Taken)) = Taken
<1>1. Taken \in Nat /\ Taken >= 1 /\ Taken <= cnt /\ in_finger + Taken <= in_boundry
  BY DEF CallTypeOK, BufferInv, BufferTypeOK, MinOf, Taken
<1> QED BY <1>1, NextBytes

LEMMA TakeKeeps ==
  ASSUME CallInv, BufferInv, wire \in Seq(Cell), Take PROVE CallInv' /\ BufferInv'
<1> DEFINE n == Taken
<1>1. /\ inside # "loop" /\ cnt > 0 /\ in_finger < in_boundry
      /\ in_finger' = in_finger + n
      /\ cnt' = cnt - n
      /\ word' = IF inside = "header" THEN word \o BufferBytes(n) ELSE word
      /\ got' = IF inside = "data" /\ rop = "getbytes"
                  THEN got \o BufferBytes(n) ELSE got
      /\ UNCHANGED <<wire, in_buf, in_boundry, fbtbc, last_frag, nread, rop, inside,
                     len, current, ret, errors, ncalls, inmark>>
  BY DEF Take, wireVars, Taken
<1>2. /\ n \in Nat /\ n <= cnt /\ in_finger + n <= in_boundry
      /\ BufferBytes(n) \in Seq(Cell) /\ Len(BufferBytes(n)) = n
  BY <1>1, TakenFacts DEF CallInv
<1> HIDE DEF n
<1>3. BufferInv'
  BY <1>1, <1>2, TakeKeepsBuffer
<1>4. word \in Seq(Cell) /\ got \in Seq(Cell) /\ cnt \in Nat /\ Len(word) \in Nat
  BY DEF CallInv, CallTypeOK, RestTypeOK
<1>5. /\ word \o BufferBytes(n) \in Seq(Cell) /\ got \o BufferBytes(n) \in Seq(Cell)
      /\ Len(word \o BufferBytes(n)) = Len(word) + n
  BY <1>2, <1>4, ConcatProperties
<1>6. CallTypeOK' /\ RetTypeOK' /\ RestTypeOK'
  <2>1. word' \in Seq(Cell) /\ got' \in Seq(Cell)
    BY <1>1, <1>4, <1>5
  <2>2. cnt' \in Nat
    BY <1>1, <1>2, <1>4
  <2> QED BY <1>1, <2>1, <2>2 DEF CallInv, CallTypeOK, RetTypeOK, RestTypeOK
<1>7. CASE inside = "header"
  <2>1. current = Unit /\ cnt + Len(word) = Unit
    BY <1>7 DEF CallInv, CallShape
  <2>2. word' = word \o BufferBytes(n) /\ inside' = "header" /\ current' = Unit
    BY <1>1, <1>7, <2>1
  <2>3. cnt' + Len(word') = Unit
    <3>1. cnt' = cnt - n /\ Len(word') = Len(word) + n
      BY <1>1, <1>5, <2>2
    <3>2. PICK l \in Nat : l = Len(word)
      BY <1>4
    <3>3. n \in Nat /\ cnt \in Nat /\ cnt + l = Unit
      BY <1>2, <1>4, <2>1, <3>2
    <3>4. (cnt - n) + (l + n) = cnt + l
      BY <3>2, <3>3
    <3> QED BY <3>1, <3>2, <3>3, <3>4
  <2>4. rop' # "idle"
    BY <1>1 DEF CallInv, CallShape
  <2>5. CallShape'
    BY <2>2, <2>3, <2>4 DEF CallShape
  <2> QED BY <1>3, <1>6, <2>5 DEF CallInv
<1>8. CASE inside = "data"
  <2>1. word' = << >> /\ cnt' <= cnt /\ rop # "idle"
    BY <1>1, <1>2, <1>4, <1>8 DEF CallInv, CallShape
  <2>2. /\ cnt <= current /\ current <= fbtbc
        /\ rop = "getbytes" => current <= len
        /\ rop # "getbytes" => current = fbtbc
    BY <1>8 DEF CallInv, CallShape
  <2>3. current \in Nat /\ cnt' \in Nat
    BY <1>6 DEF CallInv, CallTypeOK
  <2>4. CallShape'
    BY <1>1, <1>4, <1>8, <2>1, <2>2, <2>3 DEF CallShape
  <2> QED BY <1>3, <1>6, <2>4 DEF CallInv
<1> QED BY <1>1, <1>7, <1>8 DEF CallInv, CallTypeOK

LEMMA DataDoneKeeps == ASSUME CallInv, DataDone PROVE CallInv'
<1>1. /\ inside = "data" /\ cnt = 0 /\ fbtbc' = AfterData
      /\ UNCHANGED <<last_frag, rop, word, ret, errors, ncalls, inmark, got>>
  BY DEF DataDone
<1>2. /\ fbtbc \in Nat /\ current \in Nat /\ len \in Nat /\ word = << >> /\ rop # "idle"
      /\ current <= fbtbc /\ (rop = "getbytes" => current <= len)
  BY <1>1 DEF CallInv, CallTypeOK, RestTypeOK, CallShape
<1>3. RestTypeOK'
  <2>1. fbtbc' \in Nat
    BY <1>1, <1>2 DEF AfterData
  <2> QED BY <1>1, <2>1 DEF CallInv, RestTypeOK
<1>4. \/ inside' = "loop" /\ current' = 0 /\ cnt' = 0
      \/ inside' = "header" /\ current' = Unit /\ cnt' = Unit
  BY DEF DataDone
<1>5. len' \in Nat
  BY <1>2 DEF DataDone
<1>6. CallTypeOK' /\ RetTypeOK'
  BY <1>1, <1>4, <1>5 DEF CallInv, CallTypeOK, RetTypeOK
<1>7. CallShape'
  BY <1>1, <1>2, <1>4 DEF CallShape
<1> QED BY <1>3, <1>6, <1>7 DEF CallInv

\* A word decodes to a flag and a length.
LEMMA DecodedType ==
  ASSUME NEW s \in Seq(Cell), Len(s) = Unit, NEW h \in Decoded(s)
  PROVE  h.last \in BOOLEAN /\ h.len \in Nat
<1>1. CASE IsHeader(s)
  <2>1. s[1] \in Cell /\ s[1].kind = "header"
    BY <1>1 DEF IsHeader
  <2>2. s[1].last \in BOOLEAN /\ s[1].len \in Nat
    BY <2>1 DEF Cell
  <2>3. h = [last |-> s[1].last, len |-> s[1].len]
    BY <1>1 DEF Decoded
  <2> QED BY <2>2, <2>3
<1>2. CASE ~IsHeader(s)
  <2>1. h \in [last : BOOLEAN, len : AnyLength]
    BY <1>2 DEF Decoded
  <2> QED BY <2>1, InAssumption DEF InAssumption
<1> QED BY <1>1, <1>2

LEMMA HeaderDoneKeeps == ASSUME CallInv, HeaderDone PROVE CallInv'
<1>1. /\ inside = "header" /\ cnt = 0
      /\ UNCHANGED <<errors, ncalls, inmark, got>>
  BY DEF HeaderDone
<1>2. PICK h \in Decoded(word) :
        /\ last_frag' = h.last
        /\ IF h.len = 0 /\ ~h.last
             THEN /\ Abandon(FALSE)
                  /\ UNCHANGED fbtbc
             ELSE /\ fbtbc' = h.len
                  /\ inside' = "loop" /\ current' = 0 /\ word' = << >>
                  /\ UNCHANGED <<rop, len, cnt, ret>>
  BY DEF HeaderDone
<1>3. word \in Seq(Cell) /\ Len(word) = Unit /\ rop # "idle" /\ fbtbc \in Nat
  BY <1>1 DEF CallInv, CallTypeOK, RestTypeOK, CallShape
<1>4. h.last \in BOOLEAN /\ h.len \in Nat
  BY <1>3, DecodedType
<1>5. RestTypeOK'
  <2>1. fbtbc' \in Nat
    BY <1>2, <1>3, <1>4
  <2>2. last_frag' \in BOOLEAN
    BY <1>2, <1>4
  <2> QED BY <1>1, <2>1, <2>2 DEF CallInv, RestTypeOK
<1>6. CASE Abandon(FALSE)
  <2>1. FALSE \in BOOLEAN
    OBVIOUS
  <2> QED BY <1>3, <1>5, <1>6, <2>1, AbandonKeepsCall
<1>7. CASE /\ inside' = "loop" /\ current' = 0 /\ word' = << >>
           /\ UNCHANGED <<rop, len, cnt, ret>>
  BY <1>1, <1>5, <1>7 DEF CallInv, CallTypeOK, RetTypeOK, CallShape
<1> QED BY <1>2, <1>6, <1>7

\* What is delivered between calls: the fast case of a word, and inline bytes.
LEMMA DeliverKeeps ==
  ASSUME CallInv, BufferInv, wire \in Seq(Cell), rop = "idle",
         NEW n \in Nat, n <= fbtbc, in_finger + n <= in_boundry,
         got' = got \o BufferBytes(n), fbtbc' = fbtbc - n, in_finger' = in_finger + n,
         ncalls' = ncalls + 1, RetTypeOK',
         UNCHANGED <<wireVars, in_buf, in_boundry, last_frag, nread, callVars, errors, inmark>>
  PROVE  CallInv' /\ BufferInv'
<1>1. BufferInv'
  BY TakeKeepsBuffer DEF wireVars
<1>2. BufferBytes(n) \in Seq(Cell) /\ got \in Seq(Cell) /\ fbtbc \in Nat /\ ncalls \in Nat
  BY NextBytes DEF CallInv, RestTypeOK
<1>3. got' \in Seq(Cell)
  BY <1>2, ConcatProperties
<1>4. fbtbc' \in Nat /\ ncalls' \in Nat
  BY <1>2
<1>5. RestTypeOK'
  BY <1>3, <1>4 DEF CallInv, RestTypeOK
<1> QED BY <1>1, <1>5, IdleKeepsCall

LEMMA GetLongKeeps ==
  ASSUME CallInv, BufferInv, wire \in Seq(Cell), GetLong PROVE CallInv' /\ BufferInv'
<1>1. CASE Begin("getbytes", Unit)
  <2>1. BufferInv'
    BY <1>1, BufferUntouched DEF Begin, wireVars
  <2> QED BY <1>1, <2>1, BeginKeeps
<1>2. CASE ~Begin("getbytes", Unit)
  <2>1. /\ WordReady
        /\ rop = "idle"
        /\ got' = got \o BufferBytes(Unit)
        /\ fbtbc' = fbtbc - Unit
        /\ in_finger' = in_finger + Unit
        /\ ncalls' = ncalls + 1
        /\ ret' = [op |-> "getbytes", ok |-> TRUE, clean |-> TRUE]
        /\ UNCHANGED <<wireVars, in_buf, in_boundry, last_frag, nread, callVars,
                       errors, inmark>>
    BY <1>2 DEF GetLong
  <2>2. Unit <= fbtbc /\ in_finger + Unit <= in_boundry
    BY <2>1 DEF WordReady, BufferInv, BufferTypeOK, CallInv, RestTypeOK
  <2>3. RetTypeOK'
    BY <2>1 DEF RetTypeOK
  <2> QED BY <2>1, <2>2, <2>3, Unit \in Nat, DeliverKeeps
<1> QED BY <1>1, <1>2

LEMMA GetInlineKeeps ==
  ASSUME CallInv, BufferInv, wire \in Seq(Cell), NEW n \in InlineGets, GetInline(n)
  PROVE  CallInv' /\ BufferInv'
<1>1. n \in Nat
  BY InFacts
<1>2. /\ rop = "idle" /\ n <= fbtbc /\ in_finger + n <= in_boundry
      /\ got' = got \o BufferBytes(n)
      /\ fbtbc' = fbtbc - n
      /\ in_finger' = in_finger + n
      /\ ncalls' = ncalls + 1 /\ ret' = ret
      /\ UNCHANGED <<wireVars, in_buf, in_boundry, last_frag, nread, callVars, errors, inmark>>
  BY DEF GetInline, InlineFits
<1>3. RetTypeOK'
  BY <1>2 DEF CallInv, RetTypeOK
<1> QED BY <1>1, <1>2, <1>3, DeliverKeeps

LEMMA InGetPosKeeps ==
  ASSUME CallInv, BufferInv, InGetPos PROVE CallInv' /\ BufferInv'
<1>1. /\ rop = "idle" /\ inmark' = StreamPos
      /\ UNCHANGED <<wireVars, in_buf, in_finger, in_boundry, fbtbc, last_frag, nread,
                     callVars, ret, errors, ncalls, got>>
  BY DEF InGetPos
<1>2. BufferInv'
  BY <1>1, BufferUntouched DEF wireVars
<1>3. StreamPos \in Nat
  BY DEF StreamPos, BufferInv, BufferTypeOK, BufferBounds
<1>4. RestTypeOK' /\ RetTypeOK'
  BY <1>1, <1>3 DEF CallInv, RestTypeOK, RetTypeOK
<1> QED BY <1>1, <1>2, <1>4, IdleKeepsCall

\* Moving back is moving to a kept position, which is not before the stream.
LEMMA InSetPosKeeps ==
  ASSUME CallInv, BufferInv, InSetPos PROVE CallInv' /\ BufferInv'
<1> DEFINE delta == StreamPos - inmark
           newpos == in_finger - delta
<1>1. /\ rop = "idle" /\ SeekableIn /\ inmark # -1
      /\ delta < fbtbc /\ newpos <= in_boundry /\ newpos >= 0
      /\ in_finger' = newpos
      /\ fbtbc' = fbtbc - delta
      /\ UNCHANGED <<wireVars, in_buf, in_boundry, last_frag, nread, callVars, ret,
                     errors, ncalls, inmark, got>>
  BY DEF InSetPos
<1>2. /\ in_finger \in Nat /\ in_boundry \in Nat /\ nread \in Nat /\ fbtbc \in Nat
      /\ inmark \in Nat
  BY <1>1 DEF BufferInv, BufferTypeOK, CallInv, RestTypeOK
<1>3. /\ delta \in Int /\ delta = nread - (in_boundry - in_finger) - inmark
      /\ newpos \in Int /\ newpos = in_finger - delta
  BY <1>2 DEF StreamPos
<1> HIDE DEF delta, newpos
<1>4. newpos \in Nat /\ in_boundry - newpos <= nread
  BY <1>1, <1>2, <1>3
<1>5. BufferInv'
  BY <1>1, <1>4, MoveKeepsBuffer DEF wireVars
<1>6. fbtbc' \in Nat
  BY <1>1, <1>2, <1>3
<1>7. RestTypeOK' /\ RetTypeOK'
  BY <1>1, <1>6 DEF CallInv, RestTypeOK, RetTypeOK
<1> QED BY <1>1, <1>5, <1>7, IdleKeepsCall

\* One step of the reader.
LEMMA InNextKeeps ==
  ASSUME CallInv, BufferInv, wire \in Seq(Cell), InNext
  PROVE  CallInv' /\ BufferInv' /\ wire' = wire
<1>w. wire' = wire
  BY DEF InNext, CallerNext, CallNext, GetBytes, GetLong, GetInline, SkipRecord, Eof, InGetPos,
         InSetPos, GetBytesLoop, SkipLoop, Fill, FillAtEnd, FillFails, Take, DataDone, HeaderDone,
         Begin, wireVars
<1> SUFFICES CallInv' /\ BufferInv'
  BY <1>w
<1>1. ASSUME NEW op, op \in {"getbytes", "skiprecord", "eof"}, NEW n \in Nat, Begin(op, n)
      PROVE  CallInv' /\ BufferInv'
  <2>1. UNCHANGED <<in_buf, in_finger, in_boundry, nread, wire>>
    BY <1>1 DEF Begin, wireVars
  <2> QED BY <1>1, <2>1, BeginKeeps, BufferUntouched
<1>2. CASE \E n \in GetSizes : GetBytes(n)
  <2>1. PICK n \in GetSizes : Begin("getbytes", n)
    BY <1>2 DEF GetBytes
  <2>2. n \in Nat
    BY InFacts
  <2> QED BY <1>1, <2>1, <2>2
<1>3. CASE GetLong BY <1>3, GetLongKeeps
<1>4. CASE \E n \in InlineGets : GetInline(n) BY <1>4, GetInlineKeeps
<1>5. CASE SkipRecord BY <1>1, <1>5 DEF SkipRecord
<1>6. CASE Eof BY <1>1, <1>6 DEF Eof
<1>7. CASE InGetPos BY <1>7, InGetPosKeeps
<1>8. CASE InSetPos BY <1>8, InSetPosKeeps
<1>9. CASE GetBytesLoop
  <2>1. UNCHANGED <<in_buf, in_finger, in_boundry, nread, wire>>
    BY <1>9 DEF GetBytesLoop, wireVars
  <2> QED BY <1>9, <2>1, GetBytesLoopKeeps, BufferUntouched
<1>10. CASE SkipLoop
  <2>1. UNCHANGED <<in_buf, in_finger, in_boundry, nread, wire>>
    BY <1>10 DEF SkipLoop, wireVars
  <2> QED BY <1>10, <2>1, SkipLoopKeeps, BufferUntouched
<1>11. CASE Fill
  <2>1. in_finger = in_boundry
    BY <1>11 DEF Fill
  <2> QED BY <1>11, <2>1, FillKeepsCall, FillKeepsBuffer
<1>12. CASE FillAtEnd
  <2>1. CASE UNCHANGED <<in_finger, in_boundry>>
    <3>1. UNCHANGED <<in_buf, in_finger, in_boundry, nread, wire>>
      BY <1>12, <2>1 DEF FillAtEnd, wireVars
    <3> QED BY <1>12, <3>1, FillKeepsCall, BufferUntouched
  <2>2. CASE in_finger' = Where /\ in_boundry' = Where
    <3>1. UNCHANGED <<in_buf, nread, wire>>
      BY <1>12 DEF FillAtEnd, wireVars
    <3> QED BY <1>12, <2>2, <3>1, FillKeepsCall, EmptyReadKeepsBuffer
  <2> QED BY <1>12, <2>1, <2>2 DEF FillAtEnd
<1>13. CASE FillFails
  <2>1. UNCHANGED <<in_buf, in_finger, in_boundry, nread, wire>>
    BY <1>13 DEF FillFails, wireVars
  <2> QED BY <1>13, <2>1, FillKeepsCall, BufferUntouched
<1>14. CASE Take BY <1>14, TakeKeeps
<1>15. CASE DataDone
  <2>1. UNCHANGED <<in_buf, in_finger, in_boundry, nread, wire>>
    BY <1>15 DEF DataDone, wireVars
  <2> QED BY <1>15, <2>1, DataDoneKeeps, BufferUntouched
<1>16. CASE HeaderDone
  <2>1. UNCHANGED <<in_buf, in_finger, in_boundry, nread, wire>>
    BY <1>16 DEF HeaderDone, wireVars
  <2> QED BY <1>16, <2>1, HeaderDoneKeeps, BufferUntouched
<1> QED BY <1>w, <1>2, <1>3, <1>4, <1>5, <1>6, <1>7, <1>8, <1>9, <1>10, <1>11, <1>12, <1>13,
           <1>14, <1>15, <1>16 DEF InNext, CallerNext, CallNext
-----------------------------------------------------------------------------
(* The two ends together.                                                  *)

LEMMA SendingGrows ==
  ASSUME NEW s \in Seq(Cell), NEW h, NEW n \in Nat
  PROVE  Begins(s, s \o Bytes(h, n))
<1> DEFINE S == Cell \cup {h[i - 1] : i \in 1..n}
<1>1. Bytes(h, n) \in Seq(S)
  <2>1. \A i \in 1..n : h[i - 1] \in S
    OBVIOUS
  <2> HIDE DEF S
  <2>2. [i \in 1..n |-> h[i - 1]] \in Seq(S)
    BY <2>1
  <2> QED BY <2>2 DEF Bytes
<1>2. s \in Seq(S)
  <2>1. \A i \in 1..Len(s) : s[i] \in S
    OBVIOUS
  <2> QED BY <2>1
<1> HIDE DEF S
<1> DEFINE t == Bytes(h, n)
<1> HIDE DEF t
<1>3. t \in Seq(S)
  BY <1>1 DEF t
<1>4. Len(s \o t) = Len(s) + Len(t) /\ \A i \in 1..Len(s) : (s \o t)[i] = s[i]
  BY <1>2, <1>3, ConcatProperties
<1>5. Len(s) \in Nat /\ Len(t) \in Nat
  BY <1>2, <1>3
<1>6. Begins(s, s \o t)
  BY <1>4, <1>5 DEF Begins
<1> QED BY <1>6 DEF t

\* The writer takes nothing back that the connection has accepted.
LEMMA WireGrows ==
  ASSUME OutInv, OutNext PROVE Begins(wire, wire')
<1>1. wire \in Seq(Cell) /\ out_finger \in Nat
  BY OutFacts
<1>2. CASE wire' = wire
  BY <1>1, <1>2 DEF Begins
<1>3. ASSUME NEW buf, NEW finger \in Nat, NEW eor,
             FlushSucceeds(buf, finger, eor) \/ FlushFails(buf, finger, eor)
      PROVE  Begins(wire, wire')
  <2>1. PICK m \in Nat : wire' = wire \o Bytes(Headed(buf, finger, eor), m)
    <3>1. CASE FlushSucceeds(buf, finger, eor)
      BY <3>1 DEF FlushSucceeds
    <3>2. CASE FlushFails(buf, finger, eor)
      <4>1. PICK accepted \in 0..(finger - 1) : wire' = wire \o Bytes(Headed(buf, finger, eor), accepted)
        BY <3>2 DEF FlushFails
      <4>2. accepted \in Nat
        OBVIOUS
      <4> QED BY <4>1, <4>2
    <3> QED BY <1>3, <3>1, <3>2
  <2> QED BY <1>1, <2>1, SendingGrows
<1>4. CASE PutLong
  BY <1>1, <1>2, <1>3, <1>4 DEF PutLong
<1>5. CASE PutBytesStep
  <2> DEFINE n == MinOf(calls.bytes, SendSize - out_finger)
             buf == Store(out_buf, out_finger, n)
             finger == out_finger + n
  <2>1. \/ wire' = wire
        \/ FlushSucceeds(buf, finger, FALSE) \/ FlushFails(buf, finger, FALSE)
    BY <1>5 DEF PutBytesStep
  <2>2. finger \in Nat
    <3>1. calls.bytes \in Nat
      BY DEF OutInv, OutTypeOK
    <3>2. SendSize - out_finger \in Nat
      BY OutFacts
    <3>3. n \in Nat
      BY <3>1, <3>2 DEF MinOf
    <3> QED BY <1>1, <3>3
  <2> QED BY <1>2, <1>3, <2>1, <2>2
<1>6. CASE \E sendnow \in BOOLEAN : EndOfRecord(sendnow)
  <2>1. \/ wire' = wire
        \/ FlushSucceeds(out_buf, out_finger, TRUE) \/ FlushFails(out_buf, out_finger, TRUE)
    BY <1>6 DEF EndOfRecord
  <2> QED BY <1>1, <1>2, <1>3, <2>1
<1>7. CASE wire' = wire \/ Destroy
  BY <1>2, <1>7 DEF Destroy
<1> QED BY <1>4, <1>5, <1>6, <1>7
        DEF OutNext, PutOpaque, PutInline, GetPos, SetPos, SetPosTo

LEMMA HistoryKeeps ==
  ASSUME HistoryTypeOK, wire' = wire, ReaderHistory,
         got \in Seq(Cell), got' \in Seq(Cell), StreamPos' \in Nat
  PROVE  HistoryTypeOK'
<1>1. PayloadCount(wire, StreamPos') \in Nat
  BY PayloadCountType
<1>2. Len(got) \in Nat /\ Len(got') \in Nat
  OBVIOUS
<1>3. rec' \in Nat
  BY DEF ReaderHistory, HistoryTypeOK
<1>4. pos' = PayloadCount(wire, StreamPos') \/ pos' = pos + (Len(got') - Len(got))
  BY DEF ReaderHistory
<1>5. pos' \in Int
  BY <1>1, <1>2, <1>4 DEF HistoryTypeOK
<1> QED BY <1>3, <1>5 DEF HistoryTypeOK

LEMMA StreamPosType == ASSUME BufferInv PROVE StreamPos \in Nat
BY DEF BufferInv, BufferTypeOK, BufferBounds, StreamPos

LEMMA StreamPosTypeNext == BufferInv' => StreamPos' \in Nat
<1> SUFFICES ASSUME BufferInv' PROVE StreamPos' \in Nat
  OBVIOUS
<1>1. /\ in_finger' \in Nat /\ in_boundry' \in Nat /\ nread' \in Nat
      /\ in_finger' <= in_boundry' /\ in_boundry' - in_finger' <= nread'
  BY DEF BufferInv, BufferTypeOK, BufferBounds
<1>2. PICK f \in Nat, b \in Nat, n \in Nat : f = in_finger' /\ b = in_boundry' /\ n = nread'
  BY <1>1
<1>3. f <= b /\ b - f <= n
  BY <1>1, <1>2
<1>4. n - (b - f) \in Nat
  BY <1>3
<1>5. StreamPos' = n - (b - f)
  BY <1>2 DEF StreamPos
<1> QED BY <1>4, <1>5

LEMMA InInitIsReader ==
  ASSUME wire = << >>, InInit, rec = 0, pos = 0 PROVE ReaderInv
<1>0. RecvSize \in Nat /\ \E k \in Nat : RecvSize = k * Unit
  BY InFacts, AlignedIsMultiple
<1>1. Junk \in Cell
  BY DEF Junk, Payload, Cell
<1>2. BufferTypeOK
  BY <1>0, <1>1 DEF InInit, BufferTypeOK
<1>3. BufferBounds /\ UnreadIsStream
  BY <1>0 DEF InInit, BufferBounds, UnreadIsStream
<1>4. BoundryAligned
  BY <1>0 DEF InInit, BoundryAligned
<1>5. TRUE \in BOOLEAN
  OBVIOUS
<1>6. CallTypeOK /\ RestTypeOK /\ CallShape
  BY <1>5 DEF InInit, CallTypeOK, RestTypeOK, CallShape
<1>7. RetTypeOK
  BY <1>5 DEF InInit, RetTypeOK
<1>8. HistoryTypeOK
  BY DEF HistoryTypeOK
<1> QED BY <1>2, <1>3, <1>4, <1>6, <1>7, <1>8 DEF ReaderInv, BufferInv, CallInv

\* One step of the reader's caller, of a call in progress, or a timeout.
LEMMA ReaderStep ==
  (ReaderCall \/ ReaderReturn \/ Timeout) <=> (InNext /\ UNCHANGED outVars /\ ReaderHistory)
BY DEF ReaderCall, ReaderReturn, Timeout, InNext

LEMMA OpenStays == ASSUME InNext PROVE UNCHANGED wireVars
BY DEF InNext, CallerNext, CallNext, GetBytes, GetLong, GetInline, SkipRecord, Eof, InGetPos,
       InSetPos, GetBytesLoop, SkipLoop, Fill, FillAtEnd, FillFails, Take, DataDone, HeaderDone,
       Begin

BothInv == OutInv /\ KeptInv /\ ReaderInv

LEMMA InIdleKeeps == ASSUME ReaderInv, UNCHANGED <<inVars, rec, pos>>, BufferInv' PROVE ReaderInv'
BY DEF ReaderInv, CallInv, CallTypeOK, RetTypeOK, RestTypeOK, CallShape, HistoryTypeOK, inVars

LEMMA NextKeepsBoth == ASSUME BothInv, Next PROVE BothInv'
<1>1. CASE Writer
  <2>1. OutInv' /\ KeptInv'
    BY <1>1, OutNextKeepsKept DEF BothInv, Writer
  <2>2. Begins(wire, wire') /\ wire \in Seq(Cell) /\ wire' \in Seq(Cell)
    BY <1>1, <2>1, WireGrows DEF BothInv, Writer, OutInv, OutTypeOK
  <2>3. BufferInv'
    BY <1>1, <2>2, WriterKeepsBuffer DEF BothInv, ReaderInv, Writer, inVars
  <2> QED BY <1>1, <2>1, <2>3, InIdleKeeps DEF BothInv, Writer
<1>2. CASE ReaderCall \/ ReaderReturn \/ Timeout
  <2>1. InNext /\ UNCHANGED outVars /\ ReaderHistory
    BY <1>2, ReaderStep
  <2>2. UNCHANGED wireVars
    BY <2>1, OpenStays
  <2>3. OutInv'
    BY <2>1, <2>2, OutStutterKeeps DEF BothInv, OutInv, OutTypeOK, wireVars
  <2>4. KeptInv'
    BY <2>1, <2>2, <2>3, OutStutterKeepsKept DEF BothInv, wireVars
  <2>5. CallInv' /\ BufferInv' /\ wire' = wire
    BY <2>1, InNextKeeps DEF BothInv, ReaderInv, OutInv, OutTypeOK
  <2>6. HistoryTypeOK'
    <3>1. got \in Seq(Cell) /\ got' \in Seq(Cell)
      BY <2>5 DEF BothInv, ReaderInv, CallInv, RestTypeOK
    <3> QED BY <2>1, <2>5, <3>1, HistoryKeeps, StreamPosTypeNext DEF BothInv, ReaderInv
  <2> QED BY <2>3, <2>4, <2>5, <2>6 DEF BothInv, ReaderInv
<1> QED BY <1>1, <1>2 DEF Next

(***************************************************************************)
(* The writer's invariants hold while a reader runs beside it, and the     *)
(* reader's whatever the writer does.                                      *)
(***************************************************************************)
THEOREM ReaderInvariance == Spec => []BothInv
<1>1. Init => BothInv
  BY OutInitEstablishes, OutInitIsKept, InInitIsReader DEF Init, BothInv
<1>2. BothInv /\ [Next]_vars => BothInv'
  <2> SUFFICES ASSUME BothInv, [Next]_vars PROVE BothInv'
    OBVIOUS
  <2>1. CASE UNCHANGED vars
    <3>1. OutInv'
      BY <2>1, OutStutterKeeps DEF vars, wireVars, BothInv, OutInv, OutTypeOK
    <3>2. KeptInv'
      BY <2>1, <3>1, OutStutterKeepsKept DEF vars, wireVars, BothInv
    <3>3. BufferInv'
      BY <2>1, BufferUntouched DEF vars, wireVars, inVars, BothInv, ReaderInv
    <3> QED BY <2>1, <3>1, <3>2, <3>3, InIdleKeeps DEF vars, BothInv
  <2> QED BY <2>1, NextKeepsBoth
<1> QED BY <1>1, <1>2, PTL DEF Spec

(***************************************************************************)
(* The reader's variables keep their types: none of the subtractions of    *)
(* xdr_rec.c wraps, not the fbtbc and len of xdrrec_getbytes, not the      *)
(* delta xdrrec_setpos takes off fbtbc.                                    *)
(***************************************************************************)
THEOREM InTypeCorrect == Spec => []InTypeOK
<1>1. BothInv => InTypeOK
  BY DEF BothInv, ReaderInv, BufferInv, BufferTypeOK, CallInv, CallTypeOK, RetTypeOK, RestTypeOK,
         HistoryTypeOK, InTypeOK
<1> QED BY <1>1, ReaderInvariance, PTL

LEMMA SameRemainder ==
  ASSUME NEW a \in Nat, NEW b \in Nat, NEW k \in Int, a = b + k * Unit
  PROVE  a % Unit = b % Unit
<1>1. PICK p \in Int, x \in 0..(Unit - 1) : a = Unit * p + x /\ x = a % Unit
  <2>1. /\ a = Unit * (a \div Unit) + (a % Unit)
        /\ a \div Unit \in Int /\ a % Unit \in 0..(Unit - 1)
    OBVIOUS
  <2> QED BY <2>1
<1>2. PICK q \in Int, y \in 0..(Unit - 1) : b = Unit * q + y /\ y = b % Unit
  <2>1. /\ b = Unit * (b \div Unit) + (b % Unit)
        /\ b \div Unit \in Int /\ b % Unit \in 0..(Unit - 1)
    OBVIOUS
  <2> QED BY <2>1
<1>3. PICK d \in Int : d = k + q - p
  <2>1. k + q - p \in Int
    OBVIOUS
  <2> QED BY <2>1
<1>4. x - y = d * Unit
  BY <1>1, <1>2, <1>3
<1>5. d < 1
  <2>1. SUFFICES ASSUME d >= 1 PROVE FALSE
    OBVIOUS
  <2>2. d * Unit >= Unit
    BY <2>1
  <2> QED BY <1>4, <2>2
<1>6. d > -1
  <2>1. SUFFICES ASSUME d <= -1 PROVE FALSE
    OBVIOUS
  <2>2. d * Unit <= -Unit
    BY <2>1
  <2> QED BY <1>4, <2>2
<1>7. d = 0
  BY <1>5, <1>6
<1>8. x = y
  BY <1>4, <1>7
<1> QED BY <1>1, <1>2, <1>8

(***************************************************************************)
(* The word load of xdrrec_getlong's fast case is aligned whenever the     *)
(* word is aligned in the stream, however readit cut the stream up and     *)
(* wherever the caller moved.                                              *)
(***************************************************************************)
THEOREM FingerStaysAligned == Spec => []FingerAligned
<1>1. BothInv => FingerAligned
  <2> SUFFICES ASSUME BothInv PROVE FingerAligned
    OBVIOUS
  <2>1. in_finger \in Nat /\ in_boundry \in Nat /\ nread \in Nat
    BY DEF BothInv, ReaderInv, BufferInv, BufferTypeOK
  <2>2. PICK k \in Int : in_boundry = nread + k * Unit
    BY DEF BothInv, ReaderInv, BufferInv, BoundryAligned
  <2>3. StreamPos \in Nat
    BY StreamPosType DEF BothInv, ReaderInv
  <2>4. in_finger = StreamPos + k * Unit
    BY <2>1, <2>2 DEF StreamPos
  <2> QED BY <2>1, <2>3, <2>4, SameRemainder DEF FingerAligned
<1> QED BY <1>1, ReaderInvariance, PTL

(***************************************************************************)
(* What the reader has in its buffer is the next part of the stream.  A    *)
(* caller that may move back is left out: below the last refill the        *)
(* buffer holds what fill_input_buf has overwritten or never written, and  *)
(* xdrrec_setpos does not know (xdr_rec.c:367).                            *)
(***************************************************************************)
THEOREM BufferStaysStream ==
  ASSUME ~SeekableIn PROVE Spec => []BufferIsStream
<1>1. BothInv => BufferIsStream
  <2> SUFFICES ASSUME BothInv PROVE BufferIsStream
    OBVIOUS
  <2>1. /\ in_finger \in Nat /\ in_boundry \in Nat /\ nread \in Nat
        /\ in_finger <= in_boundry /\ in_boundry <= RecvSize
        /\ in_boundry - in_finger <= nread /\ nread <= Len(wire)
    BY DEF BothInv, ReaderInv, BufferInv, BufferTypeOK, BufferBounds
  <2>2. UnreadIsStream
    BY DEF BothInv, ReaderInv, BufferInv
  <2>3. StreamPos \in Nat
    BY StreamPosType DEF BothInv, ReaderInv
  <2>4. ASSUME NEW a \in in_finger..(in_boundry - 1)
        PROVE  in_buf[a] = wire[StreamPos + 1 + (a - in_finger)]
    <3>1. nread + 1 - (in_boundry - a) = StreamPos + 1 + (a - in_finger)
      BY <2>1 DEF StreamPos
    <3> QED BY <2>2, <3>1 DEF UnreadIsStream
  <2>5. StreamPos >= 0
    BY <2>3
  <2> QED BY <2>1, <2>4, <2>5 DEF BufferIsStream
<1> QED BY <1>1, ReaderInvariance, PTL

-----------------------------------------------------------------------------
(***************************************************************************)
(* A reader that has passed over `start' bytes of w, and expects `left'    *)
(* more of a fragment that is, or is not, the last of its record: that is  *)
(* where w has it, in its records-th record.                               *)
(***************************************************************************)
InPlace(w, start, left, last, records) ==
  /\ start \in 0..Len(w) /\ left \in Nat /\ last \in BOOLEAN /\ records \in Nat
  /\ start + left \in FragmentEnds(w)
  /\ left > 0 => \E i \in Heads(w) : /\ FragmentEnd(w, i) = start + left
                                     /\ i + Unit - 1 <= start
                                     /\ last = w[i].last
  /\ left = 0 /\ last => start \in RecordStarts(w)
  /\ Records(w, start) = IF left = 0 /\ last THEN records ELSE records - 1

\* What the connection carries, complete or cut off by a failed writeit.
WireReads ==
  /\ Framed(wire)
  /\ NumberedFrom(wire, 0)
  /\ RecordsFit(wire, ends)
  /\ PayloadCount(wire, Len(wire)) <= nput
  /\ ~open => Whole(wire)

\* Bytes passed over but for the header being read; bytes left of the fragment.
Start == StreamPos - Len(word)
Left == IF inside = "data" THEN fbtbc - (current - cnt) ELSE fbtbc

\* The connection is closed and the reader waits for the next fragment.
AtEnd == ~open /\ Start = Len(wire) /\ Left = 0 /\ ~last_frag

(***************************************************************************)
(* The inductive invariant, on top of BothInv.                             *)
(***************************************************************************)
Located ==
  /\ InPlace(wire, Start, Left, last_frag, rec)
  /\ inside = "header" => /\ fbtbc = 0 /\ ~last_frag
                          /\ \A i \in 1..Len(word) : word[i] = wire[Start + i]
  /\ pos \in Nat /\ pos <= PayloadCount(wire, Start)
  /\ pos < PayloadCount(wire, Start) => rop \in {"skiprecord", "eof"} \/ AtEnd

PipeInv == WireReads /\ Located
-----------------------------------------------------------------------------
(* Where a reader is, and how it moves on.                                 *)

LEMMA InPlaceType ==
  ASSUME NEW w \in Seq(Cell), NEW s, NEW l, NEW last, NEW r, InPlace(w, s, l, last, r)
  PROVE  /\ s \in Nat /\ l \in Nat /\ last \in BOOLEAN /\ r \in Nat
         /\ Len(w) \in Nat /\ s <= Len(w)
         /\ Records(w, s) \in Nat /\ PayloadCount(w, s) \in Nat
<1>1. /\ s \in Nat /\ l \in Nat /\ last \in BOOLEAN /\ r \in Nat
      /\ Len(w) \in Nat /\ s <= Len(w)
  BY DEF InPlace
<1> QED BY <1>1, RecordsType, PayloadCountType

\* The stream grows.
LEMMA InPlaceGrows ==
  ASSUME NEW w \in Seq(Cell), NEW v \in Seq(Cell), Begins(w, v),
         NEW s, NEW l, NEW last, NEW r, InPlace(w, s, l, last, r)
  PROVE  InPlace(v, s, l, last, r) /\ PayloadCount(v, s) = PayloadCount(w, s)
<1>1. /\ s \in Nat /\ l \in Nat /\ last \in BOOLEAN /\ r \in Nat
      /\ Len(w) \in Nat /\ s <= Len(w)
  BY InPlaceType
<1>2. Len(v) \in Nat /\ Len(w) <= Len(v) /\ \A j \in 1..Len(w) : w[j] = v[j]
  BY DEF Begins
<1>3. \A i \in Heads(w) : i \in Heads(v) /\ w[i] = v[i] /\ FragmentEnd(w, i) = FragmentEnd(v, i)
  BY PrefixHeads
<1>4. s \in 0..Len(v)
  BY <1>1, <1>2
<1>5. s + l \in FragmentEnds(v)
  BY <1>3 DEF InPlace, FragmentEnds
<1>6. ASSUME l > 0
      PROVE \E i \in Heads(v) : /\ FragmentEnd(v, i) = s + l
                                /\ i + Unit - 1 <= s
                                /\ last = v[i].last
  <2>1. PICK i \in Heads(w) : FragmentEnd(w, i) = s + l /\ i + Unit - 1 <= s /\ last = w[i].last
    BY <1>6 DEF InPlace
  <2> QED BY <1>3, <2>1
<1>7. ASSUME l = 0, last PROVE s \in RecordStarts(v)
  <2>1. s \in RecordStarts(w)
    BY <1>7 DEF InPlace
  <2> QED BY <1>3, <2>1 DEF RecordStarts
<1>8. Records(v, s) = Records(w, s)
  BY <1>1, PrefixRecords
<1>9. PayloadCount(v, s) = PayloadCount(w, s)
  <2>1. \A j \in 1..s : v[j] = w[j]
    BY <1>1, <1>2
  <2> QED BY <1>1, <2>1, PayloadCountSame
<1> QED BY <1>1, <1>4, <1>5, <1>6, <1>7, <1>8, <1>9 DEF InPlace

\* Within a fragment no record ends, but for its own at its last byte.
LEMMA RecordsWithin ==
  ASSUME NEW w \in Seq(Cell), Framed(w), NEW h \in Heads(w),
         NEW p \in Nat, NEW q \in Nat, p <= q, h <= p + 1,
         p < FragmentEnd(w, h), q <= FragmentEnd(w, h)
  PROVE  Records(w, q) = IF q = FragmentEnd(w, h) /\ w[h].last
                           THEN Records(w, p) + 1 ELSE Records(w, p)
<1>1. h \in Nat /\ FragmentEnd(w, h) \in Nat
  BY HeadFacts
<1>2. ASSUME NEW i \in Heads(w), i # h
      PROVE  FragmentEnd(w, i) <= p \/ FragmentEnd(w, i) > q
  <2>1. i \in Nat /\ FragmentEnd(w, i) \in Nat /\ i <= FragmentEnd(w, i)
    BY HeadFacts
  <2>2. CASE i < h
    <3>1. FragmentEnd(w, i) < h
      BY <2>2, HeadsAreApart
    <3> QED BY <1>1, <2>1, <3>1
  <2>3. CASE h < i
    <3>1. FragmentEnd(w, h) < i
      BY <2>3, HeadsAreApart
    <3> QED BY <1>1, <2>1, <3>1
  <2> QED BY <1>1, <1>2, <2>1, <2>2, <2>3
<1>3. CASE q = FragmentEnd(w, h) /\ w[h].last
  <2>1. FragmentEnd(w, h) <= q
    BY <1>1, <1>3
  <2>2. \A i \in Heads(w) \ {h} :
          w[i].last => FragmentEnd(w, i) <= p \/ FragmentEnd(w, i) > q
    BY <1>2
  <2>3. Records(w, q) = Records(w, p) + 1
    BY <1>3, <2>1, <2>2, RecordsOne
  <2> QED BY <1>3, <2>3
<1>4. CASE ~(q = FragmentEnd(w, h) /\ w[h].last)
  <2>1. \A i \in Heads(w) : w[i].last => FragmentEnd(w, i) <= p \/ FragmentEnd(w, i) > q
    <3>1. w[h].last => FragmentEnd(w, h) > q
      BY <1>1, <1>4
    <3> QED BY <1>2, <3>1
  <2>2. Records(w, q) = Records(w, p)
    BY <2>1, RecordsSkip
  <2> QED BY <1>4, <2>2
<1> QED BY <1>3, <1>4

\* The reader passes over some bytes of a fragment: they are payload.
LEMMA InPlaceTakes ==
  ASSUME NEW w \in Seq(Cell), Framed(w),
         NEW s, NEW l, NEW last, NEW r, InPlace(w, s, l, last, r),
         NEW n \in Nat, n <= l, s + n <= Len(w)
  PROVE  /\ InPlace(w, s + n, l - n, last, r)
         /\ PayloadCount(w, s + n) = PayloadCount(w, s) + n
         /\ \A j \in 1..n : IsPayload(w[s + j])
<1>1. /\ s \in Nat /\ l \in Nat /\ last \in BOOLEAN /\ r \in Nat
      /\ Len(w) \in Nat /\ s <= Len(w) /\ PayloadCount(w, s) \in Nat
  BY InPlaceType
<1>2. CASE n = 0
  <2>1. s + n = s /\ l - n = l /\ PayloadCount(w, s) + n = PayloadCount(w, s)
    BY <1>1, <1>2
  <2> QED BY <1>2, <2>1
<1>3. CASE n > 0
  <2>1. PICK h \in Heads(w) : FragmentEnd(w, h) = s + l /\ h + Unit - 1 <= s /\ last = w[h].last
    BY <1>1, <1>3 DEF InPlace
  <2>2. h \in Nat /\ h <= s
    BY <1>1, <2>1, HeadFacts
  <2>3. ASSUME NEW q \in (s + 1)..(s + n) PROVE IsPayload(w[q])
    <3>1. q \in 1..Len(w)
      BY <1>1
    <3>2. PICK e \in Nat : e = FragmentEnd(w, h) /\ e = s + l
      BY <1>1, <2>1
    <3>3. q \in Nat /\ q <= e
      BY <1>1, <3>2
    <3>4. h + Unit <= q
      BY <1>1, <2>1, <2>2, <3>3
    <3>5. q \in (h + Unit)..e
      BY <2>2, <3>2, <3>3, <3>4
    <3> QED BY <3>1, <3>2, <3>5 DEF Framed
  <2>4. PayloadCount(w, s + n) = PayloadCount(w, s) + n
    BY <1>1, <2>3, PayloadCountRun
  <2>5. \A j \in 1..n : IsPayload(w[s + j])
    <3>1. \A j \in 1..n : s + j \in (s + 1)..(s + n)
      BY <1>1
    <3> QED BY <2>3, <3>1
  <2>6. Records(w, s) = r - 1
    BY <1>1, <1>3 DEF InPlace
  <2>7. Records(w, s + n) = IF l - n = 0 /\ last THEN r ELSE r - 1
    <3>1. /\ s <= s + n /\ h <= s + 1 /\ s < FragmentEnd(w, h) /\ s + n <= FragmentEnd(w, h)
          /\ s + n \in Nat
      BY <1>1, <1>3, <2>1, <2>2
    <3>2. Records(w, s + n) = IF s + n = FragmentEnd(w, h) /\ w[h].last
                                THEN Records(w, s) + 1 ELSE Records(w, s)
      BY <1>1, <3>1, RecordsWithin
    <3>3. s + n = FragmentEnd(w, h) <=> l - n = 0
      BY <1>1, <2>1
    <3>4. r - 1 + 1 = r
      BY <1>1
    <3> QED BY <2>1, <2>6, <3>2, <3>3, <3>4
  <2>8. (s + n) + (l - n) = s + l /\ s + n \in 0..Len(w) /\ l - n \in Nat
        /\ h + Unit - 1 <= s + n
    <3>1. (s + n) + (l - n) = s + l /\ l - n \in Nat
      BY <1>1
    <3>2. s + n \in 0..Len(w)
      BY <1>1
    <3>3. h + Unit - 1 <= s + n
      BY <1>1, <2>1, <2>2
    <3> QED BY <3>1, <3>2, <3>3
  <2>9. s + n + (l - n) \in FragmentEnds(w)
    BY <2>1, <2>8 DEF FragmentEnds
  <2>10. l - n = 0 /\ last => s + n \in RecordStarts(w)
    <3>1. ASSUME l - n = 0, last PROVE s + n = FragmentEnd(w, h)
      BY <1>1, <2>1, <3>1
    <3> QED BY <2>1, <3>1 DEF RecordStarts
  <2>11. \E i \in Heads(w) : /\ FragmentEnd(w, i) = s + n + (l - n)
                             /\ i + Unit - 1 <= s + n
                             /\ last = w[i].last
    BY <2>1, <2>8
  <2>12. InPlace(w, s + n, l - n, last, r)
    BY <1>1, <2>7, <2>8, <2>9, <2>10, <2>11 DEF InPlace
  <2> QED BY <2>4, <2>5, <2>12
<1> QED BY <1>2, <1>3

\* Behind a fragment that is not the last of its record the next one begins.
LEMMA HeaderFollows ==
  ASSUME NEW w \in Seq(Cell), Framed(w),
         NEW s, NEW r, InPlace(w, s, 0, FALSE, r), s < Len(w)
  PROVE  /\ s + 1 \in Heads(w)
         /\ \A j \in 1..Unit : s + j <= Len(w) =>
              w[s + j] = HeaderByte(w[s + 1].last, w[s + 1].len, j)
<1>1. s \in Nat /\ Len(w) \in Nat
  BY InPlaceType
<1>2. s \in FragmentEnds(w)
  <2>1. s + 0 = s
    BY <1>1
  <2> QED BY <2>1 DEF InPlace
<1>3. s + 1 \in Heads(w)
  <2>1. CASE s = 0
    <3>1. w # << >>
      BY <1>1
    <3> QED BY <2>1, <3>1 DEF Framed
  <2>2. CASE s # 0
    <3>1. PICK i \in Heads(w) : s = FragmentEnd(w, i)
      BY <1>2, <2>2 DEF FragmentEnds
    <3>2. s + 1 \in 1..Len(w) /\ s + 1 = FragmentEnd(w, i) + 1
      BY <1>1, <3>1
    <3> QED BY <3>2 DEF Framed
  <2> QED BY <2>1, <2>2
<1>4. ASSUME NEW j \in 1..Unit, s + j <= Len(w)
      PROVE  w[s + j] = HeaderByte(w[s + 1].last, w[s + 1].len, j)
  <2>1. PICK q \in Nat : q = s + j
    BY <1>1
  <2>2. /\ q \in 1..Len(w) /\ q \in (s + 1)..((s + 1) + Unit - 1)
        /\ q - (s + 1) + 1 = j
    BY <1>1, <1>4, <2>1
  <2> QED BY <1>3, <2>1, <2>2 DEF Framed
<1> QED BY <1>3, <1>4

\* The reader passes over the header of a fragment.
LEMMA InPlaceEnters ==
  ASSUME NEW w \in Seq(Cell), Framed(w),
         NEW s, NEW r, InPlace(w, s, 0, FALSE, r), s + Unit <= Len(w)
  PROVE  /\ InPlace(w, s + Unit, w[s + 1].len, w[s + 1].last, r)
         /\ PayloadCount(w, s + Unit) = PayloadCount(w, s)
<1>1. s \in Nat /\ Len(w) \in Nat /\ r \in Nat
  BY InPlaceType
<1>2. /\ s + 1 \in Heads(w)
      /\ \A j \in 1..Unit : w[s + j] = HeaderByte(w[s + 1].last, w[s + 1].len, j)
  <2>1. s < Len(w) /\ \A j \in 1..Unit : s + j <= Len(w)
    BY <1>1
  <2> QED BY <2>1, HeaderFollows
<1>3. PICK h \in Nat : h = s + 1
  BY <1>1
<1>4. /\ h \in Heads(w) /\ w[h].last \in BOOLEAN /\ w[h].len \in Nat
      /\ FragmentEnd(w, h) = s + Unit + w[h].len
  <2>1. /\ h \in Heads(w) /\ w[h].last \in BOOLEAN /\ w[h].len \in Nat
        /\ FragmentEnd(w, h) = h + Unit - 1 + w[h].len
    BY <1>2, <1>3, HeadFacts
  <2> QED BY <1>1, <1>3, <2>1
<1>5. PayloadCount(w, s + Unit) = PayloadCount(w, s)
  <2>1. ASSUME NEW q \in (s + 1)..(s + Unit) PROVE ~IsPayload(w[q])
    <3>1. PICK j \in 1..Unit : q = s + j
      <4>1. q - s \in 1..Unit /\ q = s + (q - s)
        BY <1>1
      <4> QED BY <4>1
    <3>2. w[q] = HeaderByte(w[s + 1].last, w[s + 1].len, j)
      BY <1>2, <3>1
    <3>3. \A a, b, c : HeaderByte(a, b, c).kind = "header"
      BY DEF HeaderByte
    <3>4. w[q].kind = "header"
      BY <3>2, <3>3
    <3> QED BY <3>4 DEF IsPayload
  <2> QED BY <1>1, <2>1, PayloadCountSkip
<1>6. Records(w, s) = r - 1
  BY <1>1 DEF InPlace
<1>7. Records(w, s + Unit) = IF w[h].len = 0 /\ w[h].last THEN r ELSE r - 1
  <2>1. /\ s + Unit \in Nat /\ s <= s + Unit /\ h <= s + 1
        /\ s < FragmentEnd(w, h) /\ s + Unit <= FragmentEnd(w, h)
    BY <1>1, <1>3, <1>4
  <2>2. Records(w, s + Unit) = IF s + Unit = FragmentEnd(w, h) /\ w[h].last
                                 THEN Records(w, s) + 1 ELSE Records(w, s)
    BY <1>1, <1>4, <2>1, RecordsWithin
  <2>3. s + Unit = FragmentEnd(w, h) <=> w[h].len = 0
    BY <1>1, <1>4
  <2>4. r - 1 + 1 = r
    BY <1>1
  <2> QED BY <1>6, <2>2, <2>3, <2>4
<1>8. s + Unit \in 0..Len(w) /\ h + Unit - 1 <= s + Unit
  BY <1>1, <1>3
<1>9. s + Unit + w[h].len \in FragmentEnds(w)
  BY <1>4 DEF FragmentEnds
<1>10. w[h].len = 0 /\ w[h].last => s + Unit \in RecordStarts(w)
  <2>1. ASSUME w[h].len = 0 PROVE s + Unit = FragmentEnd(w, h)
    BY <1>1, <1>4, <2>1
  <2> QED BY <1>4, <2>1 DEF RecordStarts
<1>11. InPlace(w, s + Unit, w[h].len, w[h].last, r)
  BY <1>1, <1>4, <1>7, <1>8, <1>9, <1>10 DEF InPlace
<1> QED BY <1>3, <1>5, <1>11

\* The end of a record is the beginning of the next.
LEMMA InPlaceSkips ==
  ASSUME NEW w \in Seq(Cell), NEW s, NEW r, InPlace(w, s, 0, TRUE, r)
  PROVE  InPlace(w, s, 0, FALSE, r + 1) /\ s \in RecordStarts(w)
<1>0. r \in Nat
  BY DEF InPlace
<1>1. r + 1 \in Nat /\ r + 1 - 1 = r /\ FALSE \in BOOLEAN /\ 0 \in Nat
  BY <1>0
<1>2. s \in 0..Len(w) /\ s + 0 \in FragmentEnds(w) /\ s \in RecordStarts(w) /\ Records(w, s) = r
  BY DEF InPlace
<1> QED BY <1>1, <1>2 DEF InPlace

\* Where the r-th record ends.
LEMMA InPlaceAtRecordEnd ==
  ASSUME NEW w \in Seq(Cell), NEW es \in Seq(Nat), RecordsFit(w, es),
         NEW s, NEW r, InPlace(w, s, 0, TRUE, r)
  PROVE  /\ r <= Len(es)
         /\ PayloadCount(w, s) = IF r = 0 THEN 0 ELSE es[r]
<1>1. s \in Nat /\ Len(w) \in Nat /\ s <= Len(w) /\ r \in Nat /\ Len(es) \in Nat
  BY DEF InPlace
<1>2. s \in RecordStarts(w) /\ Records(w, s) = r
  BY DEF InPlace
<1>3. CASE s = 0
  <2>1. {i \in Heads(w) : w[i].last /\ FragmentEnd(w, i) <= 0} = {}
    <3>1. ASSUME NEW i \in Heads(w) PROVE ~(FragmentEnd(w, i) <= 0)
      BY HeadFacts
    <3> QED BY <3>1
  <2>2. Records(w, 0) = 0
    BY <2>1, FS_EmptySet DEF Records
  <2> QED BY <1>1, <1>2, <1>3, <2>2, PayloadCountZero
<1>4. CASE s # 0
  <2>1. PICK i \in Heads(w) : w[i].last /\ s = FragmentEnd(w, i)
    BY <1>2, <1>4 DEF RecordStarts
  <2>2. r <= Len(es) /\ es[r] = PayloadCount(w, s)
    BY <1>1, <1>2, <2>1 DEF RecordsFit
  <2>3. r >= 1
    <3>1. FragmentEnd(w, i) <= s
      BY <1>1, <2>1
    <3> QED BY <1>1, <1>2, <2>1, <3>1, RecordsPositive
  <2> QED BY <1>1, <2>2, <2>3
<1> QED BY <1>3, <1>4

\* And how far it reaches at least, for a reader inside it.
LEMMA InPlaceInRecord ==
  ASSUME NEW w \in Seq(Cell), NEW es \in Seq(Nat), RecordsFit(w, es),
         NEW s, NEW l, NEW last, NEW r, InPlace(w, s, l, last, r), r > 0, r <= Len(es)
  PROVE  PayloadCount(w, s) <= es[r]
<1>1. /\ s \in Nat /\ l \in Nat /\ last \in BOOLEAN /\ Len(w) \in Nat /\ s <= Len(w) /\ r \in Nat
      /\ Len(es) \in Nat /\ PayloadCount(w, s) \in Nat
  BY InPlaceType
<1>2. CASE l = 0 /\ last
  <2>1. InPlace(w, s, 0, TRUE, r)
    <3>1. l = 0 /\ last = TRUE
      BY <1>1, <1>2
    <3> QED BY <3>1
  <2>2. /\ r <= Len(es)
        /\ PayloadCount(w, s) = IF r = 0 THEN 0 ELSE es[r]
    BY <2>1, InPlaceAtRecordEnd, Zenon
  <2>4. PayloadCount(w, s) = es[r]
    BY <1>1, <2>2
  <2>3. es[r] \in Nat
    BY <1>1
  <2> QED BY <1>1, <2>4, <2>3
<1>3. CASE ~(l = 0 /\ last)
  <2>1. Records(w, s) = r - 1
    BY <1>1, <1>3 DEF InPlace
  <2>2. Records(w, s) < Len(es) /\ Records(w, s) + 1 = r
    BY <1>1, <2>1
  <2>3. s \in 0..Len(w)
    BY <1>1
  <2> QED BY <2>2, <2>3 DEF RecordsFit
<1> QED BY <1>2, <1>3
-----------------------------------------------------------------------------
(* What the connection carries.                                            *)

Readable(w, es, put) ==
  /\ Framed(w)
  /\ NumberedFrom(w, 0)
  /\ RecordsFit(w, es)
  /\ PayloadCount(w, Len(w)) <= put

LEMMA PrefixReadable ==
  ASSUME NEW v \in Seq(Cell), NEW w \in Seq(Cell), Begins(v, w),
         NEW es \in Seq(Nat), NEW put \in Nat,
         Framed(w), NumberedFrom(w, 0), PayloadCount(w, Len(w)) <= put,
         RecordsFit(v, es)
  PROVE  Readable(v, es, put)
<1>1. Framed(v)
  BY PrefixFramed
<1>2. NumberedFrom(v, 0)
  BY PrefixNumbered
<1>3. PayloadCount(v, Len(v)) <= put
  <2>1. Len(v) \in Nat /\ Len(w) \in Nat /\ Len(v) <= Len(w)
    BY DEF Begins
  <2>2. PayloadCount(v, Len(v)) = PayloadCount(w, Len(v))
    <3>1. \A j \in 1..Len(v) : v[j] = w[j]
      BY DEF Begins
    <3> QED BY <2>1, <3>1, PayloadCountSame
  <2>3. /\ PayloadCount(w, Len(v)) \in Nat /\ PayloadCount(w, Len(w)) \in Nat
        /\ PayloadCount(w, Len(v)) <= PayloadCount(w, Len(w))
    BY <2>1, PayloadCountType, PayloadCountMonotone
  <2> QED BY <2>2, <2>3
<1> QED BY <1>1, <1>2, <1>3 DEF Readable

\* While writeit has not failed.
LEMMA GoodWireReads == ASSUME OutInv, StreamInv, fails = 0 PROVE WireReads
<1>1. /\ wire \in Seq(Cell) /\ ClosedStream \in Seq(Cell) /\ Begins(wire, ClosedStream)
      /\ ends \in Seq(Nat) /\ nput \in Nat /\ OpenSize \in Nat
      /\ PayloadCount(ClosedStream, Len(ClosedStream)) \in Nat
  BY ClosedFacts, OutFacts
<1>2. /\ Whole(wire) /\ Whole(ClosedStream) /\ NumberedFrom(ClosedStream, 0)
      /\ RecordsFit(ClosedStream, ends)
      /\ PayloadCount(ClosedStream, Len(ClosedStream)) + OpenSize = nput
  BY DEF StreamInv, StreamIsGood
<1>3. Framed(ClosedStream)
  BY <1>2 DEF Whole
<1>4. PayloadCount(ClosedStream, Len(ClosedStream)) <= nput
  BY <1>1, <1>2
<1>5. RecordsFit(wire, ends)
  BY <1>1, <1>2, PrefixFits
<1>6. Readable(wire, ends, nput)
  BY <1>1, <1>2, <1>3, <1>4, <1>5, PrefixReadable
<1> QED BY <1>2, <1>6 DEF Readable, WireReads

LEMMA ConcatFacts ==
  ASSUME NEW s \in Seq(Cell), NEW t \in Seq(Cell), NEW n, Len(t) = n
  PROVE  /\ s \o t \in Seq(Cell) /\ Len(s \o t) = Len(s) + n
         /\ \A i \in 1..Len(s) : (s \o t)[i] = s[i]
         /\ \A i \in 1..n : (s \o t)[Len(s) + i] = t[i]
<1>1. Len(s) \in Nat /\ n \in Nat
  OBVIOUS
<1>2. s \o t \in Seq(Cell) /\ Len(s \o t) = Len(s) + n
  BY ConcatProperties
<1>3. \A i \in 1..Len(s) : (s \o t)[i] = s[i]
  BY <1>1, ConcatProperties
<1>4. ASSUME NEW i \in 1..n PROVE (s \o t)[Len(s) + i] = t[i]
  <2>1. PICK q \in Nat : q = Len(s) + i
    BY <1>1
  <2>2. q \in 1..(Len(s) + Len(t)) /\ q > Len(s) /\ q - Len(s) = i
    BY <1>1, <2>1
  <2>3. (s \o t)[q] = t[q - Len(s)]
    BY <1>1, <2>2, ConcatProperties
  <2> QED BY <2>1, <2>2, <2>3
<1> QED BY <1>2, <1>3, <1>4

\* When it fails, the connection has a part of the fragment.
LEMMA CutOffReads ==
  ASSUME OutInv, StreamInv, fails = 0, NEW buf, NEW finger, NEW put, NEW last,
         Continues(buf, finger, put), CanClose(finger, last),
         NEW m \in 0..(finger - 1)
  PROVE  Readable(wire \o Bytes(Headed(buf, finger, last), m), ends, put)
<1> DEFINE h == Headed(buf, finger, last)
           t == Bytes(h, finger)
           u == Bytes(h, m)
           n == finger - frag_header - Unit
<1>1. /\ t \in Seq(Cell) /\ Len(t) = finger /\ n \in Nat
      /\ AppendsFragment(ClosedPart, t, last, n)
      /\ \A j \in 1..n : t[frag_header + Unit + j] = Payload(put - n + j)
  BY ClosedBuffer DEF EndsWith
<1>2. put \in Nat /\ finger \in Nat /\ put - n = nput - OpenSize
  <2>1. /\ frag_header \in Nat /\ out_finger \in Nat /\ nput \in Nat
        /\ OpenSize = out_finger - frag_header - Unit
    BY OutFacts
  <2>2. finger \in Nat /\ put \in Nat /\ put = nput + (finger - out_finger)
    BY DEF Continues
  <2> QED BY <2>1, <2>2
<1>3. u \in Seq(Cell) /\ Len(u) = m /\ \A i \in 1..m : u[i] = t[i]
  <2>1. m \in Nat /\ m < finger
    BY <1>2
  <2>2. \A i \in 1..m : i \in 1..finger
    BY <1>2, <2>1
  <2>3. \A i \in 1..finger : t[i] \in Cell
    BY <1>1
  <2>4. \A i \in 1..m : h[i - 1] = t[i]
    BY <2>2 DEF Bytes
  <2>5. \A i \in 1..m : h[i - 1] \in Cell
    BY <2>2, <2>3, <2>4
  <2> HIDE DEF h, t
  <2>6. u \in Seq(Cell) /\ Len(u) = m /\ \A i \in 1..m : u[i] = h[i - 1]
    BY <2>1, <2>5 DEF Bytes
  <2> QED BY <2>4, <2>6
<1> HIDE DEF n, t, u
<1>4. LET w == wire \o t
      IN  /\ w \in Seq(Cell)
          /\ AppendsFragment(ClosedStream, w, last, n)
          /\ fails = 0 =>
               /\ Whole(w)
               /\ NumberedFrom(w, 0)
               /\ PayloadCount(w, Len(w)) = put
  BY <1>1, <1>2, SentStream
<1> DEFINE w == wire \o t
           v == wire \o u
<1>5. /\ w \in Seq(Cell) /\ AppendsFragment(ClosedStream, w, last, n)
      /\ Whole(w) /\ Framed(w) /\ NumberedFrom(w, 0) /\ PayloadCount(w, Len(w)) <= put
  BY <1>2, <1>4 DEF Whole
<1>6. wire \in Seq(Cell) /\ Len(wire) \in Nat /\ ends \in Seq(Nat)
  BY OutFacts
<1>7. /\ v \in Seq(Cell) /\ Len(v) = Len(wire) + m /\ Len(w) = Len(wire) + finger
      /\ \A i \in 1..Len(wire) : v[i] = wire[i] /\ w[i] = wire[i]
      /\ \A i \in 1..m : v[Len(wire) + i] = u[i]
      /\ \A i \in 1..finger : w[Len(wire) + i] = t[i]
  <2>1. /\ v \in Seq(Cell) /\ Len(v) = Len(wire) + m
        /\ \A i \in 1..Len(wire) : v[i] = wire[i]
        /\ \A i \in 1..m : v[Len(wire) + i] = u[i]
    <3>1. PICK a \in Seq(Cell), c \in Seq(Cell) : a = wire /\ c = u
      BY <1>3, <1>6
    <3>2. PICK k : k = m
      OBVIOUS
    <3>3. Len(c) = k
      BY <1>3, <3>1, <3>2
    <3>4. /\ a \o c \in Seq(Cell) /\ Len(a \o c) = Len(a) + k
          /\ \A i \in 1..Len(a) : (a \o c)[i] = a[i]
          /\ \A i \in 1..k : (a \o c)[Len(a) + i] = c[i]
      BY <3>3, ConcatFacts
    <3> QED
      BY <3>1, <3>2, <3>4
  <2>2. /\ Len(w) = Len(wire) + finger
        /\ \A i \in 1..Len(wire) : w[i] = wire[i]
        /\ \A i \in 1..finger : w[Len(wire) + i] = t[i]
    BY <1>1, <1>6, ConcatFacts
  <2> HIDE DEF v, w
  <2> QED BY <2>1, <2>2
<1> HIDE DEF w, v
<1>8. m \in Nat /\ m < finger /\ Len(v) \in Nat /\ Len(w) \in Nat
  BY <1>2, <1>5, <1>7
<1>9. Begins(v, w) /\ Len(v) < Len(w)
  <2>1. Len(v) < Len(w)
    BY <1>2, <1>6, <1>7, <1>8
  <2>2. ASSUME NEW i \in 1..Len(v) PROVE v[i] = w[i]
    <3>1. CASE i <= Len(wire)
      BY <1>6, <1>7, <3>1
    <3>2. CASE i > Len(wire)
      <4>1. PICK j \in 1..m : i = Len(wire) + j
        <5>1. i - Len(wire) \in 1..m /\ i = Len(wire) + (i - Len(wire))
          BY <1>6, <1>7, <1>8, <3>2
        <5> QED BY <5>1
      <4>2. j \in 1..finger
        BY <1>2, <1>8
      <4> QED BY <1>3, <1>7, <4>1, <4>2
    <3> QED BY <1>6, <3>1, <3>2
  <2>3. Len(v) <= Len(w)
    BY <1>8, <2>1
  <2> QED BY <2>1, <2>2, <2>3 DEF Begins
<1>10. RecordsFit(v, ends)
  <2>1. /\ Whole(ClosedStream) /\ RecordsFit(ClosedStream, ends)
        /\ Records(ClosedStream, Len(ClosedStream)) = Len(ends)
        /\ ClosedStream \in Seq(Cell)
    BY ClosedFacts DEF StreamInv, StreamIsGood
  <2> QED BY <1>1, <1>5, <1>6, <1>7, <1>9, <2>1, AppendedPrefixFits
<1>11. Readable(v, ends, put)
  BY <1>2, <1>5, <1>6, <1>7, <1>9, <1>10, PrefixReadable
<1> QED BY <1>11 DEF v, u

LEMMA FailureReads ==
  ASSUME OutInv, StreamInv, fails = 0, NEW buf, NEW finger, NEW last,
         Continues(buf, finger, nput'), CanClose(finger, last),
         FlushFails(buf, finger, last), ends' = ends, open'
  PROVE  WireReads'
<1>1. PICK m \in 0..(finger - 1) : wire' = wire \o Bytes(Headed(buf, finger, last), m)
  BY DEF FlushFails
<1>2. Readable(wire', ends', nput')
  BY <1>1, CutOffReads
<1> QED BY <1>2 DEF Readable, WireReads

LEMMA WriterKeepsReads ==
  ASSUME OutInv, StreamInv, fails = 0, OutNext, fails' # 0 PROVE WireReads'
<1>0. /\ out_finger \in Nat /\ nput \in Nat /\ frag_header \in Nat /\ SendSize \in Nat
      /\ out_finger <= SendSize /\ frag_header + 2 * Unit <= SendSize
  BY OutFacts
<1>t. FALSE \in BOOLEAN /\ TRUE \in BOOLEAN
  OBVIOUS
<1>1. CASE PutLong
  <2>1. /\ ~Fits(Unit) /\ FlushFails(out_buf, out_finger, FALSE)
        /\ nput' = nput /\ ends' = ends /\ open'
    BY <1>1 DEF PutLong, Idle, FlushSucceeds
  <2>2. CanClose(out_finger, FALSE)
    BY <1>0, <1>t, <2>1 DEF CanClose, Fits
  <2>3. Continues(out_buf, out_finger, nput')
    BY <2>1, ContinuesItself
  <2> QED BY <2>1, <2>2, <2>3, FailureReads
<1>2. CASE PutBytesStep
  <2> DEFINE n == MinOf(calls.bytes, SendSize - out_finger)
             buf == Store(out_buf, out_finger, n)
             finger == out_finger + n
  <2>1. n \in Nat /\ n <= SendSize - out_finger
    <3>1. calls.bytes \in Nat
      BY DEF OutInv, OutTypeOK
    <3> QED BY <1>0, <3>1 DEF MinOf
  <2>2. /\ finger = SendSize /\ FlushFails(buf, finger, FALSE)
        /\ nput' = nput + n /\ ends' = ends /\ open'
    BY <1>2 DEF PutBytesStep, FlushSucceeds
  <2>3. out_finger + n <= SendSize
    BY <1>0, <2>1
  <2> HIDE DEF n
  <2>4. Continues(buf, finger, nput')
    BY <2>1, <2>2, <2>3, StoreContinuesItself
  <2>5. CanClose(finger, FALSE)
    BY <1>0, <1>t, <2>2 DEF CanClose
  <2> QED BY <2>2, <2>4, <2>5, FailureReads
<1>3. CASE \E sendnow \in BOOLEAN : EndOfRecord(sendnow)
  <2>1. /\ FlushFails(out_buf, out_finger, TRUE)
        /\ nput' = nput /\ ends' = ends /\ open'
    <3>1. PICK sendnow \in BOOLEAN : EndOfRecord(sendnow)
      BY <1>3
    <3>2. CASE MustFlush(sendnow)
      BY <3>1, <3>2 DEF EndOfRecord, Idle, FlushSucceeds
    <3>3. CASE ~MustFlush(sendnow)
      BY <3>1, <3>3 DEF EndOfRecord
    <3> QED BY <3>2, <3>3
  <2>2. CanClose(out_finger, TRUE)
    BY <1>t DEF CanClose
  <2>3. Continues(out_buf, out_finger, nput')
    BY <2>1, ContinuesItself
  <2> QED BY <2>1, <2>2, <2>3, FailureReads
<1>4. CASE fails' = fails
  BY <1>4
<1>5. CASE Destroy
  BY <1>5 DEF Destroy, outVars
<1> QED BY <1>1, <1>2, <1>3, <1>4, <1>5
        DEF OutNext, PutOpaque, PutInline, GetPos, SetPos, SetPosTo
-----------------------------------------------------------------------------
(* The steps of the reader.                                                *)

LEMMA ReaderFacts ==
  ASSUME BothInv, Located
  PROVE  /\ wire \in Seq(Cell) /\ Len(wire) \in Nat /\ Framed(wire) \in BOOLEAN
         /\ in_finger \in Nat /\ in_boundry \in Nat /\ nread \in Nat /\ nread <= Len(wire)
         /\ in_finger <= in_boundry /\ StreamPos \in Nat
         /\ StreamPos = nread - (in_boundry - in_finger)
         /\ Len(word) \in Nat /\ Start \in Nat /\ StreamPos = Start + Len(word)
         /\ StreamPos <= Len(wire)
<1>1. /\ in_finger \in Nat /\ in_boundry \in Nat /\ nread \in Nat /\ nread <= Len(wire)
      /\ in_finger <= in_boundry
  BY DEF BothInv, ReaderInv, BufferInv, BufferTypeOK, BufferBounds
<1>2. wire \in Seq(Cell) /\ Len(wire) \in Nat
  BY DEF BothInv, OutInv, OutTypeOK
<1>3. StreamPos \in Nat /\ StreamPos = nread - (in_boundry - in_finger)
  BY StreamPosType DEF BothInv, ReaderInv, StreamPos
<1>4. word \in Seq(Cell)
  BY DEF BothInv, ReaderInv, CallInv, CallTypeOK
<1>5. Len(word) \in Nat
  BY <1>4
<1>6. Start \in Nat
  BY DEF Located, InPlace
<1>7. StreamPos = Start + Len(word)
  BY <1>3, <1>5 DEF Start
<1>8. StreamPos <= Len(wire)
  BY <1>1, <1>2, <1>3
<1>9. Framed(wire) \in BOOLEAN
  BY DEF Framed
<1> QED BY <1>1, <1>2, <1>3, <1>5, <1>6, <1>7, <1>8, <1>9

\* The variables of a call, by the routine it is in.
LEMMA CallFacts ==
  ASSUME BothInv, Located
  PROVE  /\ fbtbc \in Nat /\ len \in Nat /\ cnt \in Nat /\ current \in Nat /\ Left \in Nat
         /\ last_frag \in BOOLEAN /\ rec \in Nat /\ pos \in Nat
         /\ got \in Seq(Cell) /\ Len(got) \in Nat
         /\ inside \in {"loop", "data", "header"}
         /\ rop = "idle" => inside = "loop"
         /\ inside = "loop" => word = << >> /\ cnt = 0 /\ current = 0 /\ Left = fbtbc
         /\ inside = "data" => /\ word = << >> /\ Left = fbtbc - (current - cnt) /\ cnt <= Left
                               /\ rop # "getbytes" => current = fbtbc
         /\ inside = "header" => /\ cnt + Len(word) = Unit /\ Left = 0 /\ fbtbc = 0
                                 /\ ~last_frag
<1>1. /\ fbtbc \in Nat /\ len \in Nat /\ cnt \in Nat /\ current \in Nat
      /\ got \in Seq(Cell) /\ inside \in {"loop", "data", "header"}
      /\ CallShape
  BY DEF BothInv, ReaderInv, CallInv, CallTypeOK, RestTypeOK
<1>2. Len(got) \in Nat
  BY <1>1
<1>3. last_frag \in BOOLEAN /\ rec \in Nat /\ pos \in Nat /\ Left \in Nat
  BY DEF Located, InPlace
<1>4. CASE inside = "loop"
  <2>1. Left = fbtbc
    BY <1>4 DEF Left
  <2> QED BY <1>1, <1>2, <1>3, <1>4, <2>1 DEF CallShape
<1>5. CASE inside = "data"
  <2>1. Left = fbtbc - (current - cnt)
    BY <1>5 DEF Left
  <2>2. cnt <= Left
    <3>1. current <= fbtbc
      BY <1>1, <1>5 DEF CallShape
    <3> QED BY <1>1, <2>1, <3>1
  <2> QED BY <1>1, <1>2, <1>3, <1>5, <2>1, <2>2 DEF CallShape
<1>6. CASE inside = "header"
  <2>1. Left = fbtbc
    BY <1>6 DEF Left
  <2>2. fbtbc = 0 /\ ~last_frag
    BY <1>6 DEF Located
  <2> QED BY <1>1, <1>2, <1>3, <1>6, <2>1, <2>2 DEF CallShape
<1> QED BY <1>1, <1>4, <1>5, <1>6

\* A step that leaves the reader where it is.
LEMMA StaysLocated ==
  ASSUME Located, wire' = wire, open' = open,
         Start' = Start, Left' = Left, last_frag' = last_frag, rec' = rec, pos' = pos,
         rop' = rop \/ rop \notin {"skiprecord", "eof"},
         inside' = "header" => /\ fbtbc' = 0 /\ ~last_frag
                               /\ \A i \in 1..Len(word') : word'[i] = wire[Start + i]
  PROVE  Located'
<1>1. InPlace(wire', Start', Left', last_frag', rec')
  BY DEF Located
<1>2. pos' \in Nat /\ pos' <= PayloadCount(wire', Start')
  BY DEF Located
<1>3. ASSUME pos' < PayloadCount(wire', Start')
      PROVE  rop' \in {"skiprecord", "eof"} \/ AtEnd'
  <2>1. rop \in {"skiprecord", "eof"} \/ AtEnd
    BY <1>3 DEF Located
  <2>2. AtEnd => AtEnd'
    BY DEF AtEnd
  <2> QED BY <2>1, <2>2
<1> QED BY <1>1, <1>2, <1>3 DEF Located

\* A step that takes it elsewhere.
LEMMA MovesTo ==
  ASSUME wire' = wire, NEW s, NEW l, NEW last, NEW r, NEW p,
         Start' = s, Left' = l, last_frag' = last, rec' = r, pos' = p, inside' # "header",
         InPlace(wire, s, l, last, r),
         p \in Nat, p <= PayloadCount(wire, s),
         p < PayloadCount(wire, s) => rop' \in {"skiprecord", "eof"} \/ AtEnd'
  PROVE  Located'
BY DEF Located

\* What the history notes of a step that returns from no skip.
LEMMA HistoryStays ==
  ASSUME ReaderHistory, pos \in Nat, Len(got) \in Nat, got' = got,
         rop' # "idle" \/ rop \notin {"skiprecord", "eof"}
  PROVE  rec' = rec /\ pos' = pos
<1>1. ~Skipped("skiprecord") /\ ~Skipped("eof")
  BY DEF Skipped
<1>2. rec' = rec /\ pos' = pos + (Len(got') - Len(got))
  BY <1>1 DEF ReaderHistory
<1>3. pos + (Len(got) - Len(got)) = pos
  OBVIOUS
<1> QED BY <1>2, <1>3

LEMMA HistoryTakes ==
  ASSUME ReaderHistory, pos \in Nat, got \in Seq(Cell), NEW b \in Seq(Cell), NEW n \in Nat,
         Len(b) = n, got' = got \o b,
         rop' # "idle" \/ rop \notin {"skiprecord", "eof"}
  PROVE  rec' = rec /\ pos' = pos + n
<1>1. ~Skipped("skiprecord") /\ ~Skipped("eof")
  BY DEF Skipped
<1>2. rec' = rec /\ pos' = pos + (Len(got') - Len(got))
  BY <1>1 DEF ReaderHistory
<1>3. Len(got') = Len(got) + n
  BY ConcatFacts
<1>4. PICK g \in Nat : g = Len(got)
  OBVIOUS
<1>5. pos + ((g + n) - g) = pos + n
  BY <1>4
<1> QED BY <1>2, <1>3, <1>4, <1>5

LEMMA BeginLocated ==
  ASSUME BothInv, Located, ReaderHistory, NEW op \in {"getbytes", "skiprecord", "eof"}, NEW n,
         Begin(op, n)
  PROVE  Located'
<1>1. /\ rop = "idle" /\ rop' = op
      /\ UNCHANGED <<inside, cnt, current, word, wire, open, in_finger, in_boundry, fbtbc,
                     last_frag, nread, got>>
  BY DEF Begin, wireVars
<1>2. Start' = Start /\ Left' = Left
  BY <1>1 DEF Start, StreamPos, Left
<1>3. rec' = rec /\ pos' = pos
  BY <1>1, HistoryStays, CallFacts
<1>4. inside' # "header"
  BY <1>1, CallFacts
<1> QED BY <1>1, <1>2, <1>3, <1>4, StaysLocated

LEMMA GetBytesLoopLocated ==
  ASSUME BothInv, Located, ReaderHistory, GetBytesLoop PROVE Located'
<1>1. /\ rop = "getbytes" /\ inside = "loop"
      /\ UNCHANGED <<wire, open, in_finger, in_boundry, fbtbc, last_frag, nread, got>>
  BY DEF GetBytesLoop, wireVars
<1>2. word = << >> /\ Left = fbtbc
  BY <1>1, CallFacts
<1>3. /\ word' = << >>
      /\ \/ inside' = "loop"
         \/ inside' = "data" /\ current' = cnt'
         \/ inside' = "header" /\ fbtbc = 0 /\ ~last_frag
      /\ cnt' \in Nat
  <2>1. BothInv /\ len \in Nat /\ fbtbc \in Nat
    BY CallFacts
  <2> QED BY <1>2, <2>1 DEF GetBytesLoop, Return, RecordExhausted, MinOf
<1>4. Left' = Left
  <2>1. fbtbc \in Nat /\ fbtbc - (cnt' - cnt') = fbtbc
    BY <1>3, CallFacts
  <2> QED BY <1>1, <1>2, <1>3, <2>1 DEF Left
<1>5. Start' = Start
  BY <1>1, <1>2, <1>3 DEF Start, StreamPos
<1>6. rec' = rec /\ pos' = pos
  BY <1>1, HistoryStays, CallFacts
<1>7. rop \notin {"skiprecord", "eof"}
  BY <1>1
<1>8. \A i \in 1..Len(word') : word'[i] = wire[Start + i]
  BY <1>3
<1> QED BY <1>1, <1>3, <1>4, <1>5, <1>6, <1>7, <1>8, StaysLocated

LEMMA SkipLoopLocated ==
  ASSUME BothInv, Located, ReaderHistory, SkipLoop PROVE Located'
<1>1. /\ rop \in {"skiprecord", "eof"} /\ inside = "loop"
      /\ UNCHANGED <<wire, open, in_finger, in_boundry, fbtbc, nread, got>>
  BY DEF SkipLoop, wireVars
<1>2. word = << >> /\ Left = fbtbc /\ fbtbc \in Nat /\ rec \in Nat
  BY <1>1, CallFacts
<1>3. CASE RecordUnfinished
  <2>1. /\ inside' = "data" /\ cnt' = fbtbc /\ current' = fbtbc
        /\ UNCHANGED <<rop, word, last_frag>>
    BY <1>3 DEF SkipLoop
  <2>2. Left' = Left
    <3>1. fbtbc - (fbtbc - fbtbc) = fbtbc
      BY <1>2
    <3> QED BY <1>1, <1>2, <2>1, <3>1 DEF Left
  <2>3. Start' = Start
    BY <1>1, <2>1 DEF Start, StreamPos
  <2>4. rec' = rec /\ pos' = pos
    BY <1>1, <2>1, HistoryStays, CallFacts
  <2> QED BY <1>1, <2>1, <2>2, <2>3, <2>4, StaysLocated
<1>4. CASE ~RecordUnfinished
  <2>1. /\ rop' = "idle" /\ inside' = "loop" /\ word' = << >> /\ ret'.clean
        /\ rop = "skiprecord" => ret'.ok /\ ~last_frag'
        /\ rop = "eof" => last_frag' = last_frag
    BY <1>1, <1>4 DEF SkipLoop, Return
  <2>2. fbtbc = 0 /\ last_frag /\ last_frag \in BOOLEAN
    BY <1>2, <1>4, CallFacts DEF RecordUnfinished
  <2>3. Start' = Start /\ StreamPos' = Start
    <3>1. StreamPos' = StreamPos
      BY <1>1 DEF StreamPos
    <3>2. StreamPos = Start + Len(word) /\ Start \in Nat
      BY ReaderFacts
    <3>3. StreamPos = Start
      BY <1>2, <3>2
    <3>4. Start' = StreamPos'
      BY <2>1, <3>1, <3>2 DEF Start
    <3> QED BY <3>1, <3>3, <3>4
  <2>4. Left' = 0
    BY <1>1, <2>1, <2>2 DEF Left
  <2>5. InPlace(wire, Start, 0, TRUE, rec)
    <3>1. Left = 0 /\ last_frag = TRUE
      BY <1>2, <2>2
    <3> QED BY <3>1 DEF Located
  <2>6. PayloadCount(wire, Start) \in Nat
    <3>1. wire \in Seq(Cell) /\ Start \in Nat
      BY ReaderFacts
    <3> QED BY <3>1, PayloadCountType
  <2>7. pos' = PayloadCount(wire, Start)
    BY <1>1, <2>1, <2>3 DEF ReaderHistory, Skipped
  <2>8. inside' # "header"
    BY <2>1
  <2>9. ~(PayloadCount(wire, Start) < PayloadCount(wire, Start))
        /\ PayloadCount(wire, Start) <= PayloadCount(wire, Start)
    BY <2>6
  <2>10. CASE rop = "skiprecord"
    <3>1. rec' = rec + 1
      BY <2>1, <2>10 DEF ReaderHistory, Skipped
    <3>2. last_frag' = FALSE
      BY <2>1, <2>10 DEF SkipLoop
    <3>3. InPlace(wire, Start, 0, FALSE, rec + 1)
      <4>1. wire \in Seq(Cell)
        BY ReaderFacts
      <4> QED BY <2>5, <4>1, InPlaceSkips
    <3> QED BY <1>1, <2>3, <2>4, <2>6, <2>7, <2>8, <2>9, <3>1, <3>2, <3>3, MovesTo
  <2>11. CASE rop = "eof"
    <3>1. rec' = rec
      BY <2>11 DEF ReaderHistory, Skipped
    <3>2. last_frag' = TRUE
      BY <2>1, <2>2, <2>11
    <3> QED BY <1>1, <2>3, <2>4, <2>5, <2>6, <2>7, <2>8, <2>9, <3>1, <3>2, MovesTo
  <2> QED BY <1>1, <2>10, <2>11
<1> QED BY <1>3, <1>4

LEMMA FillLocated ==
  ASSUME BothInv, Located, ReaderHistory, Fill PROVE Located'
<1>1. /\ inside # "loop" /\ in_finger = in_boundry
      /\ UNCHANGED <<wire, open, fbtbc, last_frag, rop, inside, cnt, current, word, got>>
  BY DEF Fill, wireVars, callVars
<1>2. PICK n \in Nat : in_finger' = Where /\ in_boundry' = Where + n /\ nread' = nread + n
  BY ReaderFacts DEF Fill
<1>3. Where \in Nat
  BY WhereFacts DEF BothInv, ReaderInv
<1>4. StreamPos' = StreamPos
  <2>1. in_boundry \in Nat /\ nread \in Nat
    BY ReaderFacts
  <2>2. StreamPos = nread
    BY <1>1, <2>1 DEF StreamPos
  <2>3. StreamPos' = (nread + n) - ((Where + n) - Where)
    BY <1>2 DEF StreamPos
  <2>4. (nread + n) - ((Where + n) - Where) = nread
    BY <1>3, <2>1
  <2> QED BY <2>2, <2>3, <2>4
<1>5. Start' = Start /\ Left' = Left
  BY <1>1, <1>4 DEF Start, Left
<1>6. rop # "idle"
  BY <1>1, CallFacts
<1>7. rec' = rec /\ pos' = pos
  BY <1>1, <1>6, HistoryStays, CallFacts
<1>8. inside' = "header" => /\ fbtbc' = 0 /\ ~last_frag
                            /\ \A i \in 1..Len(word') : word'[i] = wire[Start + i]
  BY <1>1 DEF Located
<1> QED BY <1>1, <1>5, <1>7, <1>8, StaysLocated

\* Within the data of a fragment, or its header, the stream does not end.
LEMMA EndsBetweenFragments ==
  ASSUME BothInv, WireReads, Located, ~open, inside # "loop", cnt > 0, StreamPos = Len(wire)
  PROVE  inside = "header" /\ word = << >>
<1>1. Whole(wire) /\ Framed(wire) /\ wire \in Seq(Cell) /\ Len(wire) \in Nat
      /\ Start \in Nat /\ Len(word) \in Nat /\ Start + Len(word) = Len(wire)
  BY ReaderFacts DEF WireReads
<1>2. ASSUME inside = "data" PROVE FALSE
  <2>1. Len(word) = 0 /\ Left > 0 /\ Left \in Nat /\ cnt \in Nat
    BY <1>2, CallFacts
  <2>2. PICK h \in Heads(wire) : FragmentEnd(wire, h) = Start + Left
    BY <2>1 DEF Located, InPlace
  <2>3. FragmentEnd(wire, h) <= Len(wire)
    BY <1>1 DEF Whole
  <2> QED BY <1>1, <2>1, <2>2, <2>3
<1>3. inside = "header"
  BY <1>2, CallFacts
<1>4. Left = 0 /\ last_frag = FALSE /\ cnt + Len(word) = Unit /\ cnt \in Nat
  BY <1>3, CallFacts
<1>5. Len(word) = 0
  <2>1. SUFFICES ASSUME Len(word) > 0 PROVE FALSE
    BY <1>1
  <2>2. Start < Len(wire)
    BY <1>1, <2>1
  <2>3. InPlace(wire, Start, 0, FALSE, rec)
    BY <1>4 DEF Located
  <2>4. Start + 1 \in Heads(wire)
    BY <1>1, <2>2, <2>3, HeaderFollows
  <2>5. FragmentEnd(wire, Start + 1) <= Len(wire)
    BY <1>1, <2>4 DEF Whole
  <2>6. FragmentEnd(wire, Start + 1) \in Nat /\ Start + 1 + Unit - 1 <= FragmentEnd(wire, Start + 1)
    BY <1>1, <2>4, HeadFacts
  <2>7. Start + Unit <= Len(wire)
    BY <1>1, <2>5, <2>6
  <2> QED BY <1>1, <1>4, <2>7
<1>6. word \in Seq(Cell)
  BY DEF BothInv, ReaderInv, CallInv, CallTypeOK
<1> QED BY <1>3, <1>5, <1>6

LEMMA FillAtEndLocated ==
  ASSUME BothInv, WireReads, Located, ReaderHistory, FillAtEnd PROVE Located'
<1>1. /\ inside # "loop" /\ cnt > 0 /\ in_finger = in_boundry
      /\ ~open /\ nread = Len(wire)
      /\ UNCHANGED <<wire, open, fbtbc, last_frag, nread, got>>
  BY DEF FillAtEnd, wireVars
<1>2. StreamPos = Len(wire) /\ nread \in Nat /\ in_boundry \in Nat
  <2>1. /\ nread \in Nat /\ in_boundry \in Nat
        /\ StreamPos = nread - (in_boundry - in_finger)
    BY ReaderFacts
  <2> QED BY <1>1, <2>1
<1>3. inside = "header" /\ word = << >>
  BY <1>1, <1>2, EndsBetweenFragments
<1>4. Left = 0 /\ fbtbc = 0 /\ ~last_frag /\ Start = Len(wire)
  <2>1. StreamPos = Start + Len(word) /\ Start \in Nat
    BY ReaderFacts
  <2>2. Start = StreamPos
    BY <1>3, <2>1
  <2> QED BY <1>2, <1>3, <2>2, CallFacts
<1>5. CASE Abandon(FALSE) /\ UNCHANGED <<in_finger, in_boundry>>
  <2>1. /\ rop' = "idle" /\ inside' = "loop" /\ word' = << >> /\ ~ret'.clean
        /\ ret'.ok <=> rop = "eof"
    BY <1>5 DEF Abandon, Return
  <2>2. Start' = Start
    BY <1>1, <1>3, <1>5, <2>1 DEF Start, StreamPos
  <2>3. Left' = 0
    BY <1>1, <1>4, <2>1 DEF Left
  <2>4. rec' = rec /\ pos' = pos
    <3>1. rec' = rec /\ pos' = pos + (Len(got') - Len(got))
      BY <2>1 DEF ReaderHistory, Skipped
    <3>2. pos \in Nat /\ Len(got) \in Nat
      BY CallFacts
    <3>3. pos + (Len(got) - Len(got)) = pos
      BY <3>2
    <3> QED BY <1>1, <3>1, <3>3
  <2>5. AtEnd'
    BY <1>1, <1>4, <2>2, <2>3 DEF AtEnd
  <2>6. InPlace(wire, Start, 0, last_frag, rec) /\ pos \in Nat /\ pos <= PayloadCount(wire, Start)
    BY <1>4 DEF Located
  <2>7. inside' # "header"
    BY <2>1
  <2> QED BY <1>1, <2>2, <2>3, <2>4, <2>5, <2>6, <2>7, MovesTo
<1>6. CASE in_finger' = Where /\ in_boundry' = Where /\ UNCHANGED <<callVars, ret>>
  <2>1. UNCHANGED <<rop, inside, cnt, current, word>>
    BY <1>6 DEF callVars
  <2>2. StreamPos' = StreamPos
    <3>1. Where \in Nat
      BY WhereFacts DEF BothInv, ReaderInv
    <3>2. nread - (Where - Where) = nread /\ nread - (in_boundry - in_boundry) = nread
      BY <1>2, <3>1
    <3> QED BY <1>1, <1>6, <3>2 DEF StreamPos
  <2>3. Start' = Start /\ Left' = Left
    BY <1>1, <2>1, <2>2 DEF Start, Left
  <2>4. rop' # "idle"
    BY <1>1, <2>1, CallFacts
  <2>5. rec' = rec /\ pos' = pos
    BY <1>1, <2>4, HistoryStays, CallFacts
  <2>6. /\ fbtbc' = 0 /\ ~last_frag
        /\ \A i \in 1..Len(word') : word'[i] = wire[Start + i]
    BY <1>1, <1>3, <1>4, <2>1
  <2> QED BY <1>1, <2>1, <2>3, <2>5, <2>6, StaysLocated
<1> QED BY <1>5, <1>6 DEF FillAtEnd

\* Some bytes of a fragment are read, or passed over.
LEMMA TakesLocated ==
  ASSUME BothInv, WireReads, Located, NEW n \in Nat, n <= Left, Start + n <= Len(wire),
         wire' = wire, open' = open, Start' = Start + n, Left' = Left - n,
         last_frag' = last_frag, rec' = rec, inside' # "header",
         \/ rop \notin {"skiprecord", "eof"} /\ pos' = pos + n
         \/ rop \in {"skiprecord", "eof"} /\ rop' = rop /\ pos' = pos
  PROVE  Located'
<1>1. /\ wire \in Seq(Cell) /\ Start \in Nat /\ Left \in Nat /\ pos \in Nat
      /\ Framed(wire) /\ InPlace(wire, Start, Left, last_frag, rec)
      /\ pos <= PayloadCount(wire, Start)
  BY ReaderFacts, CallFacts DEF WireReads, Located
<1>2. /\ InPlace(wire, Start + n, Left - n, last_frag, rec)
      /\ PayloadCount(wire, Start + n) = PayloadCount(wire, Start) + n
  <2>1. PICK s, l, last, r : s = Start /\ l = Left /\ last = last_frag /\ r = rec
    OBVIOUS
  <2>2. /\ wire \in Seq(Cell) /\ Framed(wire) /\ InPlace(wire, s, l, last, r)
        /\ n <= l /\ s + n <= Len(wire)
    BY <1>1, <2>1
  <2>3. /\ InPlace(wire, s + n, l - n, last, r)
        /\ PayloadCount(wire, s + n) = PayloadCount(wire, s) + n
    BY <2>2, InPlaceTakes
  <2> QED BY <2>1, <2>3
<1>3. PayloadCount(wire, Start) \in Nat
  BY <1>1, PayloadCountType
<1>4. CASE n = 0 /\ rop \notin {"skiprecord", "eof"}
  <2>1. Start + n = Start /\ Left - n = Left /\ pos + n = pos
    BY <1>1, <1>4
  <2> QED BY <1>4, <2>1, StaysLocated
<1>5. CASE n > 0 /\ rop \notin {"skiprecord", "eof"}
  <2>1. ~AtEnd
    BY <1>1, <1>5 DEF AtEnd
  <2>2. pos = PayloadCount(wire, Start)
    <3>1. ~(pos < PayloadCount(wire, Start))
      BY <1>5, <2>1 DEF Located
    <3> QED BY <1>1, <1>3, <3>1
  <2>3. PICK p \in Nat : p = pos + n
    BY <1>1
  <2>4. p = PayloadCount(wire, Start + n) /\ pos' = p
    BY <1>2, <1>5, <2>2, <2>3
  <2>5. p <= PayloadCount(wire, Start + n) /\ ~(p < PayloadCount(wire, Start + n))
    BY <2>4, <2>3
  <2> QED BY <1>2, <2>3, <2>4, <2>5, MovesTo
<1>6. CASE rop \in {"skiprecord", "eof"}
  <2>1. pos <= PayloadCount(wire, Start + n)
    BY <1>1, <1>2, <1>3
  <2> QED BY <1>1, <1>2, <1>6, <2>1, MovesTo
<1> QED BY <1>4, <1>5, <1>6

LEMMA TakeLocated ==
  ASSUME BothInv, BothInv', ~SeekableIn, WireReads, Located, ReaderHistory, Take PROVE Located'
<1> DEFINE n == Taken
<1>1. /\ inside # "loop" /\ cnt > 0 /\ in_finger < in_boundry
      /\ in_finger' = in_finger + n
      /\ cnt' = cnt - n
      /\ word' = IF inside = "header" THEN word \o BufferBytes(n) ELSE word
      /\ got' = IF inside = "data" /\ rop = "getbytes"
                  THEN got \o BufferBytes(n) ELSE got
      /\ UNCHANGED <<wire, open, in_boundry, fbtbc, last_frag, nread, rop, inside, current>>
  BY DEF Take, wireVars, Taken
<1>2. /\ n \in Nat /\ n <= cnt /\ in_finger + n <= in_boundry
      /\ BufferBytes(n) \in Seq(Cell) /\ Len(BufferBytes(n)) = n
  BY <1>1, TakenFacts DEF BothInv, ReaderInv, CallInv
<1>3. \A i \in 1..n : BufferBytes(n)[i] = wire[StreamPos + i]
  <2>1. UnreadIsStream /\ BufferInv
    BY DEF BothInv, ReaderInv, BufferInv
  <2>2. \A i \in 1..n : BufferBytes(n)[i] = in_buf[in_finger + i - 1]
    BY DEF BufferBytes
  <2>3. /\ in_finger \in Nat /\ in_boundry \in Nat /\ nread \in Nat
        /\ StreamPos = nread - (in_boundry - in_finger)
    BY ReaderFacts
  <2>4. ASSUME NEW i \in 1..n PROVE BufferBytes(n)[i] = wire[StreamPos + i]
    <3>1. PICK a \in Nat : a = in_finger + i - 1
      <4>1. in_finger + i - 1 \in Nat
        BY <1>2, <2>3
      <4> QED BY <4>1
    <3>2. a \in in_finger..(in_boundry - 1) /\ nread + 1 - (in_boundry - a) = StreamPos + i
      BY <1>2, <2>3, <3>1
    <3>3. in_buf[a] = wire[nread + 1 - (in_boundry - a)]
      BY <2>1, <3>2 DEF UnreadIsStream
    <3> QED BY <2>2, <3>1, <3>2, <3>3
  <2> QED BY <2>4
<1> HIDE DEF n
<1>4. /\ StreamPos \in Nat /\ Start \in Nat /\ Len(word) \in Nat /\ StreamPos = Start + Len(word)
      /\ StreamPos + n <= Len(wire) /\ rop # "idle" /\ word \in Seq(Cell)
  <2>1. /\ in_finger \in Nat /\ in_boundry \in Nat /\ nread \in Nat /\ nread <= Len(wire)
        /\ StreamPos = nread - (in_boundry - in_finger) /\ Len(wire) \in Nat
    BY ReaderFacts
  <2>2. StreamPos + n <= Len(wire)
    BY <1>2, <2>1
  <2> QED BY <1>1, <2>2, ReaderFacts, CallFacts DEF BothInv, ReaderInv, CallInv, CallTypeOK
<1>5. StreamPos' = StreamPos + n
  <2>1. in_finger \in Nat /\ in_boundry \in Nat /\ nread \in Nat
    BY ReaderFacts
  <2>2. nread - (in_boundry - (in_finger + n)) = nread - (in_boundry - in_finger) + n
    BY <1>2, <2>1
  <2> QED BY <1>1, <2>2 DEF StreamPos
<1>6. CASE inside = "header"
  <2>1. word' = word \o BufferBytes(n) /\ got' = got
    BY <1>1, <1>6
  <2>2. /\ Len(word') = Len(word) + n
        /\ \A i \in 1..Len(word) : word'[i] = word[i]
        /\ \A i \in 1..n : word'[Len(word) + i] = BufferBytes(n)[i]
    <3>1. PICK s, t, k : s = word /\ t = BufferBytes(n) /\ k = n
      OBVIOUS
    <3>2. s \in Seq(Cell) /\ t \in Seq(Cell) /\ Len(t) = k
      BY <1>2, <1>4, <3>1
    <3>3. /\ Len(s \o t) = Len(s) + k
          /\ \A i \in 1..Len(s) : (s \o t)[i] = s[i]
          /\ \A i \in 1..k : (s \o t)[Len(s) + i] = t[i]
      BY <3>2, ConcatFacts
    <3>4. word' = s \o t
      BY <2>1, <3>1
    <3> QED BY <3>1, <3>3, <3>4
  <2>3. Start' = Start
    <3>1. PICK a \in Nat : a = Len(word)
      BY <1>4
    <3>2. StreamPos = Start + a /\ StreamPos' = StreamPos + n /\ Len(word') = a + n
      BY <1>4, <1>5, <2>2, <3>1
    <3>3. (Start + a + n) - (a + n) = Start
      BY <1>2, <1>4, <3>1
    <3>4. Start' = (Start + a + n) - (a + n)
      BY <3>2 DEF Start
    <3> QED BY <3>3, <3>4
  <2>4. Left' = Left
    BY <1>1, <1>6 DEF Left
  <2>5. rec' = rec /\ pos' = pos
    BY <1>1, <1>4, <2>1, HistoryStays, CallFacts
  <2>6. fbtbc' = 0 /\ ~last_frag /\ \A i \in 1..Len(word) : word[i] = wire[Start + i]
    BY <1>1, <1>6 DEF Located
  <2>7. ASSUME NEW i \in 1..Len(word') PROVE word'[i] = wire[Start + i]
    <3>1. CASE i <= Len(word)
      <4>1. i \in 1..Len(word)
        BY <1>4, <3>1
      <4> QED BY <2>2, <2>6, <4>1
    <3>2. CASE i > Len(word)
      <4>1. PICK j \in 1..n : i = Len(word) + j
        <5>1. i - Len(word) \in 1..n /\ i = Len(word) + (i - Len(word))
          BY <1>2, <1>4, <2>2, <3>2
        <5> QED BY <5>1
      <4>2. StreamPos + j = Start + i
        BY <1>4, <4>1
      <4>3. word'[i] = BufferBytes(n)[j]
        BY <2>2, <4>1
      <4> QED BY <1>3, <4>2, <4>3
    <3> QED BY <1>4, <3>1, <3>2
  <2> QED BY <1>1, <2>3, <2>4, <2>5, <2>6, <2>7, StaysLocated
<1>7. CASE inside = "data"
  <2>1. /\ word = << >> /\ Left = fbtbc - (current - cnt) /\ cnt <= Left
        /\ fbtbc \in Nat /\ current \in Nat /\ cnt \in Nat /\ Left \in Nat
    BY <1>7, CallFacts
  <2>2. word' = << >>
    BY <1>1, <1>7, <2>1
  <2>3. Start = StreamPos /\ Start' = Start + n
    BY <1>4, <1>5, <2>1, <2>2 DEF Start
  <2>4. Left' = Left - n
    <3>1. Left' = fbtbc - (current - (cnt - n))
      BY <1>1, <1>7 DEF Left
    <3>2. fbtbc - (current - (cnt - n)) = fbtbc - (current - cnt) - n
      BY <1>2, <2>1
    <3> QED BY <2>1, <3>1, <3>2
  <2>5. n <= Left /\ Start + n <= Len(wire) /\ inside' # "header"
    BY <1>1, <1>2, <1>4, <1>7, <2>1, <2>3
  <2>6. CASE rop = "getbytes"
    <3>1. got' = got \o BufferBytes(n)
      BY <1>1, <1>7, <2>6
    <3>2. rec' = rec /\ pos' = pos + n
      BY <1>2, <2>6, <3>1, HistoryTakes, CallFacts
    <3> QED BY <1>1, <1>2, <2>3, <2>4, <2>5, <2>6, <3>2, TakesLocated
  <2>7. CASE rop # "getbytes"
    <3>1. got' = got
      BY <1>1, <1>7, <2>7
    <3>2. rop \in {"skiprecord", "eof"}
      BY <1>4, <2>7 DEF BothInv, ReaderInv, CallInv, CallTypeOK
    <3>3. rec' = rec /\ pos' = pos
      BY <1>1, <1>4, <3>1, HistoryStays, CallFacts
    <3> QED BY <1>1, <1>2, <2>3, <2>4, <2>5, <3>2, <3>3, TakesLocated
  <2> QED BY <2>6, <2>7
<1> QED BY <1>1, <1>6, <1>7, CallFacts

\* The calls that take bytes in place: a word, or a run of them.
LEMMA InPlaceReadLocated ==
  ASSUME BothInv, WireReads, Located, ReaderHistory,
         NEW n \in Nat, n <= fbtbc, in_finger + n <= in_boundry,
         rop = "idle", got' = got \o BufferBytes(n), fbtbc' = fbtbc - n,
         in_finger' = in_finger + n,
         UNCHANGED <<wireVars, in_boundry, last_frag, nread, callVars>>
  PROVE  Located'
<1>1. inside = "loop" /\ word = << >> /\ Left = fbtbc /\ fbtbc \in Nat
  BY CallFacts
<1>2. UNCHANGED <<wire, open, rop, inside, word>>
  BY DEF wireVars, callVars
<1>3. BufferBytes(n) \in Seq(Cell) /\ Len(BufferBytes(n)) = n
  BY NextBytes DEF BothInv, ReaderInv
<1>4. /\ in_finger \in Nat /\ in_boundry \in Nat /\ nread \in Nat /\ nread <= Len(wire)
      /\ StreamPos = nread - (in_boundry - in_finger) /\ Len(wire) \in Nat
      /\ StreamPos \in Nat /\ Len(word) \in Nat /\ Start \in Nat /\ StreamPos = Start + Len(word)
  BY ReaderFacts
<1>5. StreamPos' = StreamPos + n /\ StreamPos + n <= Len(wire)
  <2>1. nread - (in_boundry - (in_finger + n)) = nread - (in_boundry - in_finger) + n
    BY <1>4
  <2>2. StreamPos + n <= Len(wire)
    BY <1>4
  <2> QED BY <1>4, <2>1, <2>2 DEF StreamPos
<1>6. Start = StreamPos /\ Start' = Start + n /\ Start + n <= Len(wire)
  BY <1>1, <1>2, <1>4, <1>5 DEF Start
<1>7. Left' = Left - n /\ n <= Left
  BY <1>1, <1>2 DEF Left
<1>8. rop \notin {"skiprecord", "eof"}
  OBVIOUS
<1>9. rec' = rec /\ pos' = pos + n
  BY <1>3, <1>8, HistoryTakes, CallFacts
<1>10. inside' # "header"
  BY <1>1, <1>2
<1> QED BY <1>2, <1>6, <1>7, <1>8, <1>9, <1>10, TakesLocated

LEMMA DataDoneLocated ==
  ASSUME BothInv, Located, ReaderHistory, DataDone PROVE Located'
<1>1. /\ inside = "data" /\ cnt = 0 /\ fbtbc' = AfterData
      /\ UNCHANGED <<wire, open, in_finger, in_boundry, last_frag, nread, rop, word, got>>
      /\ \/ inside' = "loop" /\ current' = 0 /\ cnt' = 0
         \/ inside' = "header" /\ ~last_frag /\ rop # "getbytes"
  BY DEF DataDone, wireVars
<1>2. /\ word = << >> /\ Left = fbtbc - current /\ fbtbc \in Nat /\ current \in Nat
      /\ rop # "getbytes" => current = fbtbc
      /\ rop # "idle"
  <2>1. /\ word = << >> /\ Left = fbtbc - (current - cnt) /\ fbtbc \in Nat /\ current \in Nat
        /\ rop # "getbytes" => current = fbtbc
        /\ rop # "idle"
    BY <1>1, CallFacts
  <2>2. current - 0 = current
    BY <2>1
  <2> QED BY <1>1, <2>1, <2>2
<1>3. fbtbc' = Left
  BY <1>1, <1>2 DEF AfterData
<1>4. Left' = Left
  BY <1>1, <1>3 DEF Left
<1>5. Start' = Start
  BY <1>1 DEF Start, StreamPos
<1>6. rec' = rec /\ pos' = pos
  BY <1>1, <1>2, HistoryStays, CallFacts
<1>7. inside' = "header" => /\ fbtbc' = 0 /\ ~last_frag
                            /\ \A i \in 1..Len(word') : word'[i] = wire[Start + i]
  <2>1. word' = << >>
    BY <1>1, <1>2
  <2>2. rop # "getbytes" => fbtbc' = 0
    BY <1>1 DEF AfterData
  <2> QED BY <1>1, <2>1, <2>2
<1> QED BY <1>1, <1>4, <1>5, <1>6, <1>7, StaysLocated

LEMMA HeaderWord ==
  ASSUME NEW s \in Seq(Cell), Len(s) = Unit, NEW last, NEW n,
         \A j \in 1..Unit : s[j] = HeaderByte(last, n, j)
  PROVE  Decoded(s) = {[last |-> last, len |-> n]}
<1>1. \A a, b, c : /\ HeaderByte(a, b, c).kind = "header"
                   /\ HeaderByte(a, b, c).last = a /\ HeaderByte(a, b, c).len = b
  BY DEF HeaderByte
<1>2. s[1] = HeaderByte(last, n, 1)
  OBVIOUS
<1>3. s[1].kind = "header" /\ s[1].last = last /\ s[1].len = n
  BY <1>1, <1>2
<1>4. s = Header(last, n)
  BY DEF Header
<1>5. IsHeader(s)
  BY <1>3, <1>4 DEF IsHeader
<1> QED BY <1>3, <1>5 DEF Decoded

LEMMA HeaderDoneLocated ==
  ASSUME BothInv, WireReads, Located, ReaderHistory, HeaderDone PROVE Located'
<1>1. /\ inside = "header" /\ cnt = 0
      /\ UNCHANGED <<wire, open, in_finger, in_boundry, nread, got>>
  BY DEF HeaderDone, wireVars
<1>2. /\ Len(word) = Unit /\ word \in Seq(Cell) /\ rop # "idle"
      /\ Left = 0 /\ last_frag = FALSE
  <2>1. Len(word) \in Nat /\ cnt + Len(word) = Unit
    BY <1>1, CallFacts, ReaderFacts
  <2>2. word \in Seq(Cell)
    BY DEF BothInv, ReaderInv, CallInv, CallTypeOK
  <2>3. Len(word) = Unit
    BY <1>1, <2>1
  <2> QED BY <1>1, <2>2, <2>3, CallFacts
<1>3. /\ wire \in Seq(Cell) /\ Len(wire) \in Nat /\ Start \in Nat
      /\ StreamPos = Start + Unit /\ Start + Unit <= Len(wire)
      /\ Framed(wire)
  <2>1. /\ wire \in Seq(Cell) /\ Len(wire) \in Nat /\ Start \in Nat
        /\ StreamPos = Start + Len(word) /\ StreamPos <= Len(wire)
    BY ReaderFacts
  <2> QED BY <1>2, <2>1 DEF WireReads
<1>4. PICK s \in Nat : s = Start
  BY <1>3
<1>5. InPlace(wire, s, 0, FALSE, rec)
  BY <1>2, <1>4 DEF Located
<1>6. PICK h \in Nat : h = s + 1
  OBVIOUS
<1>7. /\ h \in Heads(wire)
      /\ \A j \in 1..Unit : wire[s + j] = HeaderByte(wire[h].last, wire[h].len, j)
  <2>1. s < Len(wire) /\ \A j \in 1..Unit : s + j <= Len(wire)
    BY <1>3, <1>4
  <2> QED BY <1>3, <1>5, <1>6, <2>1, HeaderFollows
<1>8. PICK n, last : n = wire[h].len /\ last = wire[h].last
  OBVIOUS
<1>9. n \in Nat /\ last \in BOOLEAN
  BY <1>3, <1>7, <1>8, HeadFacts
<1>10. n > 0 \/ last
  <2>1. GoodCell(wire[h]) /\ wire[h].kind = "header"
    BY <1>7 DEF BothInv, OutInv, WireIsGood, Heads
  <2> QED BY <1>8, <2>1 DEF GoodCell
<1>11. Decoded(word) = {[last |-> last, len |-> n]}
  <2>1. \A i \in 1..Len(word) : word[i] = wire[Start + i]
    BY <1>1 DEF Located
  <2>2. \A j \in 1..Unit : word[j] = HeaderByte(last, n, j)
    BY <1>2, <1>4, <1>7, <1>8, <2>1
  <2> QED BY <1>2, <2>2, HeaderWord
<1>12. /\ last_frag' = last /\ fbtbc' = n /\ inside' = "loop" /\ word' = << >>
       /\ rop' = rop
  <2>1. PICK d \in Decoded(word) :
          /\ last_frag' = d.last
          /\ IF d.len = 0 /\ ~d.last
               THEN /\ Abandon(FALSE)
                    /\ UNCHANGED fbtbc
               ELSE /\ fbtbc' = d.len
                    /\ inside' = "loop" /\ current' = 0 /\ word' = << >>
                    /\ UNCHANGED <<rop, len, cnt, ret>>
    BY DEF HeaderDone
  <2>2. d.last = last /\ d.len = n
    BY <1>11, <2>1
  <2>3. ~(d.len = 0 /\ ~d.last)
    <3>1. n = 0 => last
      BY <1>9, <1>10
    <3> QED BY <2>2, <3>1
  <2>4. /\ fbtbc' = d.len
        /\ inside' = "loop" /\ word' = << >> /\ rop' = rop
    BY <2>1, <2>3
  <2> QED BY <2>1, <2>2, <2>4
<1>13. Start' = s + Unit
  <2>1. StreamPos' = StreamPos
    BY <1>1 DEF StreamPos
  <2>2. Start' = StreamPos' - 0
    BY <1>12 DEF Start
  <2>3. s + Unit - 0 = s + Unit
    OBVIOUS
  <2> QED BY <1>3, <1>4, <2>1, <2>2, <2>3
<1>14. Left' = n
  BY <1>12 DEF Left
<1>15. rec' = rec /\ pos' = pos
  BY <1>1, <1>2, <1>12, HistoryStays, CallFacts
<1>16. /\ InPlace(wire, s + Unit, n, last, rec)
       /\ PayloadCount(wire, s + Unit) = PayloadCount(wire, s)
  <2>1. s + Unit <= Len(wire)
    BY <1>3, <1>4
  <2> QED BY <1>3, <1>5, <1>6, <1>8, <2>1, InPlaceEnters
<1>17. pos \in Nat /\ pos <= PayloadCount(wire, s + Unit)
  BY <1>4, <1>16 DEF Located
<1>18. ASSUME pos < PayloadCount(wire, s + Unit) PROVE rop' \in {"skiprecord", "eof"}
  <2>1. rop \in {"skiprecord", "eof"} \/ AtEnd
    BY <1>4, <1>16, <1>18 DEF Located
  <2>2. ~AtEnd
    BY <1>3 DEF AtEnd
  <2> QED BY <1>12, <2>1, <2>2
<1>19. inside' # "header"
  BY <1>12
<1> QED BY <1>1, <1>12, <1>13, <1>14, <1>15, <1>16, <1>17, <1>18, <1>19, MovesTo
-----------------------------------------------------------------------------
(* Every step.                                                             *)

\* A reader whose readit does not time out and that cannot move back.
LEMMA ReaderLocated ==
  ASSUME MaxErrors = 0, ~SeekableIn, BothInv, BothInv', WireReads, Located, InNext, ReaderHistory
  PROVE  Located'
<1>1. ~FillFails
  <2>1. errors \in Nat
    BY DEF BothInv, ReaderInv, CallInv, RestTypeOK
  <2>2. ~(errors < MaxErrors)
    BY <2>1
  <2> QED BY <2>2 DEF FillFails
<1>2. ~InGetPos /\ ~InSetPos
  BY DEF InGetPos, InSetPos
<1>3. ASSUME NEW op, NEW n, Begin(op, n), op \in {"getbytes", "skiprecord", "eof"}
      PROVE  Located'
  BY <1>3, BeginLocated
<1>4. CASE \E n \in GetSizes : GetBytes(n)
  BY <1>3, <1>4 DEF GetBytes
<1>5. CASE GetLong
  <2>1. CASE Begin("getbytes", Unit)
    BY <1>3, <2>1
  <2>2. CASE ~Begin("getbytes", Unit)
    <3>1. /\ WordReady /\ rop = "idle" /\ got' = got \o BufferBytes(Unit)
          /\ fbtbc' = fbtbc - Unit /\ in_finger' = in_finger + Unit
          /\ UNCHANGED <<wireVars, in_boundry, last_frag, nread, callVars>>
      BY <1>5, <2>2 DEF GetLong
    <3>2. Unit <= fbtbc /\ in_finger + Unit <= in_boundry
      <4>1. in_finger \in Nat /\ in_boundry \in Nat /\ fbtbc \in Nat
        BY ReaderFacts, CallFacts
      <4> QED BY <3>1, <4>1 DEF WordReady
    <3>3. Unit \in Nat
      OBVIOUS
    <3> QED BY <3>1, <3>2, <3>3, InPlaceReadLocated
  <2> QED BY <2>1, <2>2
<1>6. CASE \E n \in InlineGets : GetInline(n)
  <2>1. PICK n \in InlineGets : GetInline(n)
    BY <1>6
  <2>2. n \in Nat
    BY InFacts
  <2>3. /\ n <= fbtbc /\ in_finger + n <= in_boundry
        /\ rop = "idle" /\ got' = got \o BufferBytes(n)
        /\ fbtbc' = fbtbc - n /\ in_finger' = in_finger + n
        /\ UNCHANGED <<wireVars, in_boundry, last_frag, nread, callVars>>
    BY <2>1 DEF GetInline, InlineFits
  <2> QED BY <2>2, <2>3, InPlaceReadLocated
<1>7. CASE SkipRecord BY <1>3, <1>7 DEF SkipRecord
<1>8. CASE Eof BY <1>3, <1>8 DEF Eof
<1>9. CASE GetBytesLoop BY <1>9, GetBytesLoopLocated
<1>10. CASE SkipLoop BY <1>10, SkipLoopLocated
<1>11. CASE Fill BY <1>11, FillLocated
<1>12. CASE FillAtEnd BY <1>12, FillAtEndLocated
<1>13. CASE Take BY <1>13, TakeLocated
<1>14. CASE DataDone BY <1>14, DataDoneLocated
<1>15. CASE HeaderDone BY <1>15, HeaderDoneLocated
<1> QED BY <1>1, <1>2, <1>4, <1>5, <1>6, <1>7, <1>8, <1>9, <1>10, <1>11, <1>12, <1>13, <1>14,
           <1>15 DEF InNext, CallerNext, CallNext

LEMMA WriterNeedsOpen == ASSUME OutNext PROVE open
BY DEF OutNext, PutLong, PutOpaque, PutBytesStep, PutInline, EndOfRecord, GetPos, SetPos, SetPosTo,
       Destroy, Idle

\* The stream grows behind the reader.
LEMMA WriterLocated ==
  ASSUME BothInv, BothInv', Located, Writer PROVE Located'
<1>1. /\ OutNext /\ open /\ fails = 0
      /\ UNCHANGED <<in_finger, in_boundry, fbtbc, last_frag, nread, rop, inside,
                     cnt, current, word, rec, pos>>
  BY WriterNeedsOpen DEF Writer, inVars
<1>2. Start' = Start /\ Left' = Left
  BY <1>1 DEF Start, StreamPos, Left
<1>3. wire \in Seq(Cell) /\ wire' \in Seq(Cell) /\ Begins(wire, wire')
  BY <1>1, WireGrows DEF BothInv, OutInv, OutTypeOK
<1>4. PICK s, l, last, r, w : s = Start /\ l = Left /\ last = last_frag /\ r = rec /\ w = wire'
  OBVIOUS
<1>5. InPlace(wire, s, l, last, r)
  BY <1>4 DEF Located
<1>6. InPlace(w, s, l, last, r) /\ PayloadCount(w, s) = PayloadCount(wire, s)
  BY <1>3, <1>4, <1>5, InPlaceGrows
<1>7. InPlace(wire', Start', Left', last_frag', rec')
  BY <1>1, <1>2, <1>4, <1>6
<1>8. PayloadCount(wire', Start') = PayloadCount(wire, Start)
  BY <1>2, <1>4, <1>6
<1>9. pos' \in Nat /\ pos' <= PayloadCount(wire', Start')
  BY <1>1, <1>8 DEF Located
<1>10. pos' < PayloadCount(wire', Start') => rop' \in {"skiprecord", "eof"}
  <2>1. ~AtEnd
    BY <1>1 DEF AtEnd
  <2> QED BY <1>1, <1>8, <2>1 DEF Located
<1>11. ASSUME inside' = "header"
       PROVE /\ fbtbc' = 0 /\ ~last_frag'
             /\ \A i \in 1..Len(word') : word'[i] = wire'[Start' + i]
  <2>1. fbtbc = 0 /\ ~last_frag /\ \A i \in 1..Len(word) : word[i] = wire[Start + i]
    BY <1>1, <1>11 DEF Located
  <2>2. /\ Start \in Nat /\ Len(word) \in Nat /\ Len(wire) \in Nat
        /\ Start + Len(word) <= Len(wire)
    BY ReaderFacts
  <2>3. ASSUME NEW i \in 1..Len(word) PROVE wire'[Start + i] = wire[Start + i]
    <3>1. PICK q \in Nat : q = Start + i
      BY <2>2
    <3>2. q \in 1..Len(wire)
      BY <2>2, <3>1
    <3> QED BY <1>3, <3>1, <3>2 DEF Begins
  <2> QED BY <1>1, <1>2, <2>1, <2>3
<1> QED BY <1>7, <1>9, <1>10, <1>11 DEF Located

LEMMA NothingReads ==
  ASSUME wire = << >>, InInit, rec = 0, pos = 0 PROVE Located
<1>1. << >> \in Seq(Cell) /\ Len(<< >>) = 0 /\ Records(<< >>, 0) = 0 /\ PayloadCount(<< >>, 0) = 0
  BY EmptyStream
<1>2. RecvSize \in Nat
  BY InFacts
<1>3. Start = 0 /\ Left = 0 /\ last_frag = TRUE /\ inside = "loop"
  <2>1. /\ in_finger = RecvSize /\ in_boundry = RecvSize /\ nread = 0 /\ word = << >>
        /\ fbtbc = 0 /\ last_frag = TRUE /\ inside = "loop"
    BY DEF InInit
  <2>2. StreamPos = 0
    BY <1>2, <2>1 DEF StreamPos
  <2>3. Start = 0
    <3>1. Len(word) = 0
      BY <1>1, <2>1
    <3>2. StreamPos - Len(word) = 0
      BY <2>2, <3>1
    <3> QED BY <3>2 DEF Start
  <2>4. Left = 0
    BY <2>1 DEF Left
  <2> QED BY <2>1, <2>3, <2>4
<1>4. 0 \in FragmentEnds(<< >>) /\ 0 \in RecordStarts(<< >>)
  BY DEF FragmentEnds, RecordStarts
<1>5. InPlace(<< >>, 0, 0, TRUE, 0)
  <2>1. TRUE \in BOOLEAN /\ 0 \in Nat /\ 0 + 0 = 0 /\ 0 \in 0..0
    OBVIOUS
  <2> QED BY <1>1, <1>4, <2>1 DEF InPlace
<1>6. InPlace(wire, Start, Left, last_frag, rec)
  BY <1>3, <1>5
<1>7. PayloadCount(wire, Start) = 0
  BY <1>1, <1>3
<1>8. pos \in Nat /\ pos <= PayloadCount(wire, Start) /\ ~(pos < PayloadCount(wire, Start))
  BY <1>7
<1> QED BY <1>3, <1>6, <1>8 DEF Located

\* A caller that cannot move does not stray.
Straight == ~strayed

LEMMA NeverStrays == ASSUME ~Seekable PROVE Spec => []Straight
<1>1. Init => Straight
  BY DEF Init, OutInit, Straight
<1>2. Straight /\ [Next]_vars => Straight'
  <2> SUFFICES ASSUME ~strayed, [Next]_vars PROVE ~strayed'
    BY DEF Straight
  <2>1. CASE Writer
    <3>1. ~SetPos
      BY DEF SetPos, SetPosTo
    <3> QED BY <2>1, <3>1, OnlyMovesStray DEF Writer
  <2>2. CASE ReaderCall \/ ReaderReturn \/ Timeout
    BY <2>2, Zenon DEF ReaderCall, ReaderReturn, Timeout, outVars
  <2>3. CASE UNCHANGED vars
    BY <2>3, Zenon DEF vars, outVars
  <2> QED BY <2>1, <2>2, <2>3 DEF Next
<1> QED BY <1>1, <1>2, PTL DEF Spec

ReadsWhileSending == fails = 0 => WireReads

LEMMA WireReadsStays ==
  ASSUME WireReads, UNCHANGED <<wire, open, nput, ends>> PROVE WireReads'
BY DEF WireReads

LEMMA NextKeepsPipe ==
  ASSUME MaxErrors = 0, ~SeekableIn, BothInv, Straight, BothInv', ReadsWhileSending', PipeInv,
         Next
  PROVE  PipeInv'
<1>1. CASE Writer
  <2>1. WireReads'
    <3>1. CASE fails' = 0
      BY <3>1 DEF ReadsWhileSending
    <3>2. CASE fails' # 0
      BY <1>1, <3>2, WriterKeepsReads DEF Writer, BothInv, KeptInv, Straight
    <3> QED BY <3>1, <3>2
  <2> QED BY <1>1, <2>1, WriterLocated DEF PipeInv
<1>2. CASE ReaderCall \/ ReaderReturn \/ Timeout
  <2>1. InNext /\ UNCHANGED outVars /\ ReaderHistory
    BY <1>2, ReaderStep
  <2>2. UNCHANGED <<wire, open, nput, ends>>
    BY <2>1, OpenStays DEF wireVars, outVars
  <2>3. WireReads'
    BY <2>2, WireReadsStays DEF PipeInv
  <2> QED BY <2>1, <2>3, ReaderLocated DEF PipeInv
<1> QED BY <1>1, <1>2 DEF Next

LEMMA StutterKeepsPipe ==
  ASSUME PipeInv, UNCHANGED vars PROVE PipeInv'
<1>1. UNCHANGED <<wire, open, nput, ends, in_finger, in_boundry, fbtbc, last_frag, nread, rop,
                  inside, cnt, current, word, rec, pos>>
  BY DEF vars, wireVars, outVars, inVars
<1>2. WireReads'
  BY <1>1, WireReadsStays DEF PipeInv
<1>3. Start' = Start /\ Left' = Left
  BY <1>1 DEF Start, StreamPos, Left
<1>4. inside' = "header" => /\ fbtbc' = 0 /\ ~last_frag
                            /\ \A i \in 1..Len(word') : word'[i] = wire[Start + i]
  BY <1>1 DEF PipeInv, Located
<1> QED BY <1>1, <1>2, <1>3, <1>4, StaysLocated DEF PipeInv

(***************************************************************************)
(* The reader is where it thinks it is, and its history says what it has   *)
(* passed over.  Assumed: readit does not fail while the connection is     *)
(* alive (after a timeout in the middle of a skip the reader has forgotten *)
(* which record it was skipping, xdr_rec.c:487), and neither caller can    *)
(* move (xdr_rec.c:355, 367), as lseek works on no connection.  writeit    *)
(* may fail.                                                               *)
(***************************************************************************)
THEOREM PipeInvariance ==
  ASSUME MaxErrors = 0, ~SeekableIn, ~Seekable PROVE Spec => []PipeInv
<1>1. Init => PipeInv
  <2> SUFFICES ASSUME Init PROVE PipeInv
    OBVIOUS
  <2>1. OutInv /\ StreamInv /\ fails = 0
    BY OutInitEstablishes, OutInitIsStream DEF Init, OutInit
  <2>2. WireReads
    BY <2>1, GoodWireReads
  <2>3. Located
    BY NothingReads DEF Init
  <2> QED BY <2>2, <2>3 DEF PipeInv
<1>2. BothInv /\ Straight => ReadsWhileSending
  BY GoodWireReads DEF BothInv, KeptInv, Straight, ReadsWhileSending
<1>3. BothInv /\ Straight /\ BothInv' /\ ReadsWhileSending' /\ PipeInv /\ [Next]_vars => PipeInv'
  <2> SUFFICES ASSUME BothInv, Straight, BothInv', ReadsWhileSending', PipeInv, [Next]_vars
               PROVE  PipeInv'
    OBVIOUS
  <2>1. CASE UNCHANGED vars BY <2>1, StutterKeepsPipe
  <2> QED BY <2>1, NextKeepsPipe
<1> QED BY <1>1, <1>2, <1>3, NeverStrays, ReaderInvariance, PTL DEF Spec

(***************************************************************************)
(* fbtbc is the distance to the end of a fragment, between the steps of    *)
(* every call.                                                             *)
(***************************************************************************)
THEOREM FbtbcIsExact ==
  ASSUME MaxErrors = 0, ~SeekableIn, ~Seekable PROVE Spec => []FbtbcReachesFragmentEnd
<1>1. BothInv /\ PipeInv => FbtbcReachesFragmentEnd
  <2> SUFFICES ASSUME BothInv, PipeInv, inside = "loop"
               PROVE  StreamPos + fbtbc \in FragmentEnds(wire)
    BY DEF FbtbcReachesFragmentEnd
  <2>1. Located
    BY DEF PipeInv
  <2>2. Left = fbtbc /\ word = << >>
    BY <2>1, CallFacts
  <2>3. StreamPos = Start
    <3>1. Start \in Nat /\ StreamPos = Start + Len(word)
      BY <2>1, ReaderFacts
    <3>2. Len(word) = 0
      BY <2>2
    <3> QED BY <3>1, <3>2
  <2>4. Start + Left \in FragmentEnds(wire)
    BY <2>1 DEF Located, InPlace
  <2> QED BY <2>2, <2>3, <2>4
<1> QED BY <1>1, ReaderInvariance, PipeInvariance, PTL

\* At the end of a record: which one, and what has been read or passed over.
LEMMA AtRecordEnd ==
  ASSUME BothInv, PipeInv, inside = "loop", fbtbc = 0, last_frag
  PROVE  /\ StreamPos \in RecordStarts(wire)
         /\ rec <= Len(ends)
         /\ PayloadCount(wire, StreamPos) = IF rec = 0 THEN 0 ELSE ends[rec]
         /\ rop \notin {"skiprecord", "eof"} => pos = PayloadCount(wire, StreamPos)
<1>1. Located /\ RecordsFit(wire, ends)
  BY DEF PipeInv, WireReads
<1>2. /\ wire \in Seq(Cell) /\ ends \in Seq(Nat)
      /\ Start \in Nat /\ StreamPos = Start + Len(word)
  BY <1>1, ReaderFacts DEF BothInv, OutInv, OutTypeOK
<1>3. Left = 0 /\ word = << >> /\ last_frag = TRUE /\ pos \in Nat
  BY <1>1, CallFacts
<1>4. StreamPos = Start
  <2>1. Len(word) = 0
    BY <1>3
  <2> QED BY <1>2, <2>1
<1>5. PICK s \in Nat : s = StreamPos
  BY <1>2, <1>4
<1>6. InPlace(wire, s, 0, TRUE, rec)
  BY <1>1, <1>3, <1>4, <1>5 DEF Located
<1>7. s \in RecordStarts(wire)
  BY <1>2, <1>6, InPlaceSkips
<1>8. rec <= Len(ends) /\ PayloadCount(wire, s) = IF rec = 0 THEN 0 ELSE ends[rec]
  BY <1>1, <1>2, <1>6, InPlaceAtRecordEnd
<1>9. ASSUME rop \notin {"skiprecord", "eof"} PROVE pos = PayloadCount(wire, s)
  <2>1. ~AtEnd
    BY <1>3 DEF AtEnd
  <2>2. pos <= PayloadCount(wire, s) /\ ~(pos < PayloadCount(wire, s))
    BY <1>1, <1>4, <1>5, <1>9, <2>1 DEF Located
  <2>3. PayloadCount(wire, s) \in Nat
    BY PayloadCountType
  <2> QED BY <1>3, <2>2, <2>3
<1> QED BY <1>5, <1>7, <1>8, <1>9

(***************************************************************************)
(* A skip that succeeds leaves the reader at the first byte of a record.   *)
(***************************************************************************)
THEOREM SkipRecordIsAligned ==
  ASSUME MaxErrors = 0, ~SeekableIn, ~Seekable PROVE Spec => SkipRecordAligns
<1>1. BothInv /\ PipeInv /\ [Next]_vars
        => [Skipped("skiprecord") /\ ret'.ok => StreamPos' \in RecordStarts(wire)]_vars
  <2> SUFFICES ASSUME BothInv, PipeInv, Next, Skipped("skiprecord"), ret'.ok
               PROVE  StreamPos' \in RecordStarts(wire)
    OBVIOUS
  <2>1. rop = "skiprecord" /\ rop' = "idle"
    BY DEF Skipped
  <2>2. ~Writer
    BY <2>1 DEF Writer, inVars
  <2>3. InNext
    BY <2>2, ReaderStep DEF Next
  <2>4. CASE SkipLoop
    <3>1. inside = "loop" /\ fbtbc = 0 /\ last_frag
      <4>1. ~RecordUnfinished /\ inside = "loop"
        BY <2>1, <2>4 DEF SkipLoop
      <4>2. fbtbc \in Nat
        BY CallFacts DEF PipeInv
      <4> QED BY <4>1, <4>2 DEF RecordUnfinished
    <3>2. StreamPos' = StreamPos
      BY <2>4 DEF SkipLoop, StreamPos
    <3> QED BY <3>1, <3>2, AtRecordEnd
  <2>5. CASE FillAtEnd \/ HeaderDone \/ FillFails
    <3>1. UNCHANGED rop \/ Abandon(FALSE)
      BY <2>5 DEF FillAtEnd, HeaderDone, FillFails, callVars
    <3>2. ret' = [op |-> rop, ok |-> rop = "eof", clean |-> FALSE]
      BY <2>1, <3>1 DEF Abandon, Return
    <3>3. ret'.ok = (rop = "eof")
      BY <3>2
    <3> QED BY <2>1, <3>3
  <2>6. CASE UNCHANGED rop \/ rop = "idle" \/ rop = "getbytes"
    BY <2>1, <2>6
  <2> QED BY <2>3, <2>4, <2>5, <2>6
         DEF InNext, CallerNext, CallNext, GetBytes, GetLong, GetInline, SkipRecord, Eof, InGetPos,
             InSetPos, GetBytesLoop, Fill, Take, DataDone, Begin, callVars
<1> QED BY <1>1, ReaderInvariance, PipeInvariance, PTL DEF Spec, SkipRecordAligns

(***************************************************************************)
(* x_getbytes fails only at the end of the record, everything in it read   *)
(* or passed over.                                                         *)
(***************************************************************************)
THEOREM ReadsFailAtRecordEnd ==
  ASSUME MaxErrors = 0, ~SeekableIn, ~Seekable PROVE Spec => FailsOnlyAtRecordEnd
<1>1. BothInv /\ PipeInv /\ [Next]_vars
        => [Skipped("getbytes") /\ ~ret'.ok /\ ret'.clean
              => rec = 0 \/ (rec <= Len(ends) /\ pos = ends[rec])]_vars
  <2> SUFFICES ASSUME BothInv, PipeInv, Next, Skipped("getbytes"), ~ret'.ok, ret'.clean
               PROVE  rec = 0 \/ (rec <= Len(ends) /\ pos = ends[rec])
    OBVIOUS
  <2>1. rop = "getbytes" /\ rop' = "idle"
    BY DEF Skipped
  <2>2. ~Writer
    BY <2>1 DEF Writer, inVars
  <2>3. InNext
    BY <2>2, ReaderStep DEF Next
  <2>4. CASE GetBytesLoop
    <3>1. inside = "loop" /\ RecordExhausted
      BY <2>1, <2>4 DEF GetBytesLoop, Return
    <3>2. /\ rec <= Len(ends) /\ PayloadCount(wire, StreamPos) = IF rec = 0 THEN 0 ELSE ends[rec]
          /\ pos = PayloadCount(wire, StreamPos)
      BY <2>1, <3>1, AtRecordEnd DEF RecordExhausted
    <3> QED BY <3>2
  <2>5. CASE FillAtEnd \/ HeaderDone \/ FillFails
    <3>1. UNCHANGED rop \/ Abandon(FALSE)
      BY <2>5 DEF FillAtEnd, HeaderDone, FillFails, callVars
    <3>2. ~ret'.clean
      BY <2>1, <3>1 DEF Abandon, Return
    <3> QED BY <3>2
  <2>6. CASE UNCHANGED rop \/ rop = "idle" \/ rop = "skiprecord" \/ rop = "eof"
    BY <2>1, <2>6
  <2> QED BY <2>3, <2>4, <2>5, <2>6
         DEF InNext, CallerNext, CallNext, GetBytes, GetLong, GetInline, SkipRecord, Eof, InGetPos,
             InSetPos, SkipLoop, Fill, Take, DataDone, Begin, callVars
<1> QED BY <1>1, ReaderInvariance, PipeInvariance, PTL DEF Spec, FailsOnlyAtRecordEnd
-----------------------------------------------------------------------------
(* The pipe of records.                                                    *)

\* The next bytes of a record are the next numbers, within the record.
LEMMA NextNumbers ==
  ASSUME NEW w \in Seq(Cell), Framed(w), NumberedFrom(w, 0),
         NEW es \in Seq(Nat), RecordsFit(w, es),
         NEW put \in Nat, PayloadCount(w, Len(w)) <= put,
         NEW s, NEW l, NEW last, NEW r, InPlace(w, s, l, last, r),
         NEW n \in Nat, n > 0, n <= l, s + n <= Len(w)
  PROVE  /\ r > 0
         /\ \A i \in 1..n : w[s + i] = Payload(PayloadCount(w, s) + i)
         /\ r <= Len(es) => PayloadCount(w, s) + n <= es[r]
         /\ PayloadCount(w, s) + n <= put
<1>1. /\ s \in Nat /\ l \in Nat /\ last \in BOOLEAN /\ r \in Nat
      /\ Len(w) \in Nat /\ s <= Len(w) /\ PayloadCount(w, s) \in Nat /\ Records(w, s) \in Nat
  BY InPlaceType
<1>2. /\ InPlace(w, s + n, l - n, last, r)
      /\ PayloadCount(w, s + n) = PayloadCount(w, s) + n
  BY InPlaceTakes
<1>3. r > 0
  <2>1. Records(w, s) = r - 1
    BY <1>1 DEF InPlace
  <2> QED BY <1>1, <2>1
<1>4. ASSUME NEW i \in 1..n PROVE w[s + i] = Payload(PayloadCount(w, s) + i)
  <2>1. i \in Nat /\ i <= l /\ s + i <= Len(w) /\ i \in 1..i
    BY <1>1
  <2>2. /\ PayloadCount(w, s + i) = PayloadCount(w, s) + i
        /\ \A j \in 1..i : IsPayload(w[s + j])
    BY <2>1, InPlaceTakes
  <2>3. PICK q \in Nat : q = s + i
    BY <1>1
  <2>4. q \in 1..Len(w)
    BY <1>1, <2>1, <2>3
  <2>5. IsPayload(w[s + i])
    BY <2>1, <2>2
  <2>6. w[q] = Payload(0 + PayloadCount(w, q))
    BY <2>3, <2>4, <2>5 DEF NumberedFrom
  <2>7. 0 + (PayloadCount(w, s) + i) = PayloadCount(w, s) + i
    BY <1>1
  <2> QED BY <2>2, <2>3, <2>6, <2>7
<1>5. ASSUME r <= Len(es) PROVE PayloadCount(w, s) + n <= es[r]
  BY <1>2, <1>3, <1>5, InPlaceInRecord
<1>6. PayloadCount(w, s) + n <= put
  <2>1. s + n \in Nat /\ s + n <= Len(w)
    BY <1>1
  <2>2. PayloadCount(w, s + n) <= PayloadCount(w, Len(w))
    BY <1>1, <2>1, PayloadCountMonotone
  <2>3. PayloadCount(w, Len(w)) \in Nat
    BY <1>1, PayloadCountType
  <2> QED BY <1>1, <1>2, <2>2, <2>3
<1> QED BY <1>3, <1>4, <1>5, <1>6

\* The numbers of the bytes of a sequence.
Numbers(s) == [i \in 1..Len(s) |-> s[i].k]

\* The n numbers that follow p, and the bytes that have them.
After(p, n) == [i \in 1..n |-> p + i]
BytesAfter(s, p) == \A i \in 1..Len(s) : s[i] = Payload(p + i)

LEMMA MoreNumbers ==
  ASSUME NEW g \in Seq(Cell), NEW b \in Seq(Cell), NEW p \in Nat, BytesAfter(b, p)
  PROVE  Numbers(g \o b) = Numbers(g) \o After(p, Len(b))
<1> DEFINE f == After(p, Len(b))
<1>b. PICK n \in Nat : Len(b) = n
  OBVIOUS
<1>c. \A i \in 1..n : b[i] = Payload(p + i)
  BY <1>b DEF BytesAfter
<1>d. f \in Seq(Int) /\ Len(f) = n /\ \A i \in 1..n : f[i] = p + i
  <2>1. f = [i \in 1..n |-> p + i] /\ \A i \in 1..n : p + i \in Int
    BY <1>b DEF After
  <2> HIDE DEF f
  <2> QED BY <2>1
<1> HIDE DEF f
<1> DEFINE S == {g[i].k : i \in 1..Len(g)} \cup Int
           u == Numbers(g)
           v == f
           w == g \o b
           x == Numbers(w)
<1>1. PICK m \in Nat : m = Len(g)
  OBVIOUS
<1>2. /\ Len(w) = m + n
      /\ \A i \in 1..m : w[i] = g[i]
      /\ \A i \in 1..n : w[m + i] = b[i]
  <2>1. /\ Len(g \o b) = Len(g) + n
        /\ \A i \in 1..Len(g) : (g \o b)[i] = g[i]
        /\ \A i \in 1..n : (g \o b)[Len(g) + i] = b[i]
    BY <1>b, ConcatFacts
  <2> QED BY <1>1, <2>1
<1>3. u \in Seq(S) /\ Len(u) = m /\ \A i \in 1..m : u[i] = g[i].k /\ u[i] \in S
  <2>1. \A i \in 1..m : g[i].k \in S
    BY <1>1
  <2> HIDE DEF S
  <2> QED BY <1>1, <2>1 DEF Numbers
<1>4. v \in Seq(S) /\ Len(v) = n /\ \A i \in 1..n : v[i] = p + i /\ v[i] \in S
  <2>1. Int \subseteq S
    OBVIOUS
  <2> HIDE DEF S
  <2>2. \A i \in 1..n : f[i] \in Int
    BY <1>d
  <2>3. f \in Seq(S)
    BY <1>d, <2>1, SeqMonotonic
  <2> QED BY <1>d, <2>1, <2>2, <2>3
<1> HIDE DEF S, u, v, w
<1>5. u \o v \in Seq(S) /\ Len(u \o v) = Len(u) + Len(v)
  BY <1>3, <1>4, ConcatProperties
<1>6. \A i \in 1..(Len(u) + Len(v)) :
        (u \o v)[i] = IF i <= Len(u) THEN u[i] ELSE v[i - Len(u)]
  BY <1>3, <1>4, ConcatProperties
<1>7. \A i \in 1..(m + n) : (u \o v)[i] = IF i <= m THEN u[i] ELSE v[i - m]
  BY <1>3, <1>4, <1>6
<1>8. ASSUME NEW i \in 1..(m + n) PROVE w[i].k = (u \o v)[i] /\ w[i].k \in S
  <2>1. CASE i <= m
    <3>1. i \in 1..m
      BY <2>1
    <3>2. (u \o v)[i] = u[i]
      BY <1>7, <2>1
    <3> QED BY <1>2, <1>3, <3>1, <3>2
  <2>2. CASE ~(i <= m)
    <3>1. PICK j \in 1..n : i = m + j /\ i - m = j
      <4>1. i - m \in 1..n /\ i = m + (i - m)
        BY <2>2
      <4> QED BY <4>1
    <3>2. w[i] = Payload(p + j)
      BY <1>2, <1>c, <3>1
    <3>3. w[i].k = p + j
      BY <3>2, PayloadIsPayload
    <3>4. (u \o v)[i] = v[j]
      BY <1>7, <2>2, <3>1
    <3> QED BY <1>4, <3>3, <3>4
  <2> QED BY <2>1, <2>2
<1>9. x \in Seq(S) /\ Len(x) = m + n /\ \A i \in 1..(m + n) : x[i] = w[i].k
  <2>1. \A i \in 1..(m + n) : w[i].k \in S
    BY <1>8
  <2>2. x = [i \in 1..(m + n) |-> w[i].k]
    BY <1>2 DEF Numbers
  <2> HIDE DEF x
  <2>3. [i \in 1..(m + n) |-> w[i].k] \in Seq(S)
    BY <2>1
  <2> QED BY <2>2, <2>3
<1> HIDE DEF x
<1>10. x = u \o v
  <2>1. Len(x) = Len(u \o v)
    BY <1>3, <1>4, <1>5, <1>9
  <2>2. \A i \in 1..Len(x) : x[i] = (u \o v)[i]
    BY <1>8, <1>9
  <2> QED BY <1>5, <1>9, <2>1, <2>2, SeqEqual
<1> QED BY <1>10 DEF u, v, w, x, f

\* The buffer has the next bytes of the stream.
LEMMA NextBytesOfStream ==
  ASSUME ~SeekableIn, BothInv, Located, NEW n \in Nat, in_finger + n <= in_boundry
  PROVE  /\ BufferBytes(n) \in Seq(Cell) /\ Len(BufferBytes(n)) = n
         /\ \A i \in 1..n : BufferBytes(n)[i] = wire[StreamPos + i]
         /\ StreamPos + n <= Len(wire)
<1>1. UnreadIsStream /\ BufferInv
  BY DEF BothInv, ReaderInv, BufferInv
<1>2. /\ BufferBytes(n) \in Seq(Cell) /\ Len(BufferBytes(n)) = n
      /\ \A i \in 1..n : BufferBytes(n)[i] = in_buf[in_finger + i - 1]
  BY <1>1, NextBytes
<1>3. /\ in_finger \in Nat /\ in_boundry \in Nat /\ nread \in Nat /\ nread <= Len(wire)
      /\ StreamPos = nread - (in_boundry - in_finger) /\ Len(wire) \in Nat
  BY ReaderFacts
<1>4. ASSUME NEW i \in 1..n PROVE BufferBytes(n)[i] = wire[StreamPos + i]
  <2>1. PICK a \in Nat : a = in_finger + i - 1
    <3>1. in_finger + i - 1 \in Nat
      BY <1>3
    <3> QED BY <3>1
  <2>2. a \in in_finger..(in_boundry - 1) /\ nread + 1 - (in_boundry - a) = StreamPos + i
    BY <1>3, <2>1
  <2>3. in_buf[a] = wire[nread + 1 - (in_boundry - a)]
    BY <1>1, <2>2 DEF UnreadIsStream
  <2> QED BY <1>2, <2>1, <2>2, <2>3
<1>5. StreamPos + n <= Len(wire)
  BY <1>3
<1> QED BY <1>2, <1>4, <1>5
-----------------------------------------------------------------------------
(* What the steps mean to the pipe.                                        *)

LEMMA Delivers ==
  ASSUME ~SeekableIn, BothInv, WireReads, Located,
         NEW n \in Nat, n > 0, n <= Left, in_finger + n <= in_boundry,
         inside # "header", rop \notin {"skiprecord", "eof"},
         got' = got \o BufferBytes(n), rec' = rec, pos' = pos + n, nput' = nput, ends' = ends
  PROVE  Pipe!Deliver
<1>1. /\ wire \in Seq(Cell) /\ Len(wire) \in Nat /\ ends \in Seq(Nat) /\ nput \in Nat
      /\ Framed(wire) /\ NumberedFrom(wire, 0) /\ RecordsFit(wire, ends)
      /\ PayloadCount(wire, Len(wire)) <= nput
  BY ReaderFacts DEF BothInv, OutInv, OutTypeOK, WireReads
<1>2. /\ word = << >> /\ pos \in Nat /\ got \in Seq(Cell) /\ Left \in Nat /\ rec \in Nat
  BY CallFacts
<1>3. Start \in Nat /\ StreamPos = Start
  <2>1. Start \in Nat /\ StreamPos = Start + Len(word) /\ Len(word) = 0
    BY <1>2, ReaderFacts
  <2> QED BY <2>1
<1>4. pos = PayloadCount(wire, Start)
  <2>1. ~AtEnd
    BY <1>2 DEF AtEnd
  <2>2. pos <= PayloadCount(wire, Start) /\ ~(pos < PayloadCount(wire, Start))
    BY <2>1 DEF Located
  <2>3. PayloadCount(wire, Start) \in Nat
    BY <1>3, PayloadCountType
  <2> QED BY <1>2, <2>2, <2>3
<1>5. /\ BufferBytes(n) \in Seq(Cell) /\ Len(BufferBytes(n)) = n
      /\ \A i \in 1..n : BufferBytes(n)[i] = wire[Start + i]
      /\ Start + n <= Len(wire)
  <2>1. /\ BufferBytes(n) \in Seq(Cell) /\ Len(BufferBytes(n)) = n
        /\ \A i \in 1..n : BufferBytes(n)[i] = wire[StreamPos + i]
        /\ StreamPos + n <= Len(wire)
    BY NextBytesOfStream
  <2> QED BY <1>3, <2>1
<1>6. PICK s, l, last, r : s = Start /\ l = Left /\ last = last_frag /\ r = rec
  OBVIOUS
<1>7. InPlace(wire, s, l, last, r) /\ n <= l /\ s + n <= Len(wire)
  BY <1>5, <1>6 DEF Located
<1>8. /\ r > 0
      /\ \A i \in 1..n : wire[s + i] = Payload(PayloadCount(wire, s) + i)
      /\ r <= Len(ends) => PayloadCount(wire, s) + n <= ends[r]
      /\ PayloadCount(wire, s) + n <= nput
  BY <1>1, <1>7, NextNumbers
<1>9. \A i \in 1..n : BufferBytes(n)[i] = Payload(pos + i)
  BY <1>4, <1>5, <1>6, <1>8
<1>10. Numbers(got \o BufferBytes(n)) = Numbers(got) \o After(pos, n)
  <2>1. BytesAfter(BufferBytes(n), pos)
    BY <1>5, <1>9 DEF BytesAfter
  <2>2. PICK g, b, p : g = got /\ b = BufferBytes(n) /\ p = pos
    OBVIOUS
  <2>3. Numbers(g \o b) = Numbers(g) \o After(p, Len(b))
    BY <1>2, <1>5, <2>1, <2>2, MoreNumbers
  <2> QED BY <1>5, <2>2, <2>3
<1>11. pos' - pos = n /\ pos' \in Nat /\ pos < pos'
  BY <1>2
<1>12. /\ rec > 0 /\ pos' <= nput
       /\ rec <= Len(ends) => pos' <= ends[rec]
  BY <1>4, <1>6, <1>8
<1>13. pos' <= Pipe!EndOf(rec)
  BY <1>2, <1>12 DEF Pipe!EndOf
<1>14. Numbers(got') = Numbers(got) \o [i \in 1..(pos' - pos) |-> pos + i]
  BY <1>10, <1>11 DEF After
<1> QED BY <1>11, <1>12, <1>13, <1>14 DEF Pipe!Deliver, Numbers

\* The reader's caller has made no progress.
LEMMA PipeStays ==
  ASSUME UNCHANGED <<nput, ends, rec, pos, got>> PROVE UNCHANGED Pipe!pipeVars
BY DEF Pipe!pipeVars

LEMMA WriterMoves ==
  ASSUME ~Seekable, OutInv, Writer PROVE Pipe!Put \/ Pipe!EndRecord \/ UNCHANGED Pipe!pipeVars
<1>1. UNCHANGED <<rec, pos, got>> /\ OutNext
  BY DEF Writer, inVars
<1>2. nput \in Nat /\ Unit > 0
  BY OutFacts
<1>3. ASSUME NEW n \in Nat, nput' = nput \/ nput' = nput + n, ends' = ends
      PROVE  Pipe!Put \/ UNCHANGED Pipe!pipeVars
  <2>1. nput' \in Nat /\ (nput' > nput \/ nput' = nput)
    BY <1>2, <1>3
  <2>2. CASE nput' = nput BY <1>1, <1>3, <2>2, PipeStays
  <2>3. CASE nput' > nput BY <1>1, <1>3, <2>1, <2>3 DEF Pipe!Put
  <2> QED BY <2>1, <2>2, <2>3
<1>4. CASE PutLong
  BY <1>2, <1>3, <1>4 DEF PutLong
<1>5. CASE PutBytesStep
  <2>1. MinOf(calls.bytes, SendSize - out_finger) \in Nat
    <3>1. calls.bytes \in Nat
      BY DEF OutInv, OutTypeOK
    <3>2. SendSize - out_finger \in Nat
      BY OutFacts
    <3> QED BY <3>1, <3>2 DEF MinOf
  <2>2. nput' = nput + MinOf(calls.bytes, SendSize - out_finger) /\ ends' = ends
    BY <1>5 DEF PutBytesStep
  <2> QED BY <1>3, <2>1, <2>2
<1>6. CASE \E n \in InlineSizes : PutInline(n)
  <2>1. PICK n \in InlineSizes : PutInline(n)
    BY <1>6
  <2>2. n \in Nat
    BY OutAssumption DEF OutAssumption
  <2>3. nput' = nput + n /\ ends' = ends
    BY <2>1 DEF PutInline
  <2> QED BY <1>3, <2>2, <2>3
<1>7. CASE \E sendnow \in BOOLEAN : EndOfRecord(sendnow)
  <2>1. nput' = nput /\ (ends' = Append(ends, nput) \/ ends' = ends)
    BY <1>7 DEF EndOfRecord
  <2>2. CASE ends' = Append(ends, nput)
    BY <1>1, <2>1, <2>2 DEF Pipe!EndRecord
  <2> QED BY <1>1, <2>1, <2>2, PipeStays
<1>8. CASE \/ \E n \in OpaqueSizes : PutOpaque(n)
           \/ GetPos \/ SetPos \/ Destroy
  <2>1. nput' = nput /\ ends' = ends
    BY <1>8 DEF PutOpaque, GetPos, SetPos, SetPosTo, Destroy, outVars
  <2> QED BY <1>1, <2>1, PipeStays
<1> QED BY <1>1, <1>4, <1>5, <1>6, <1>7, <1>8 DEF OutNext

\* A call in progress gives up: its caller has what it had.
LEMMA HistoryAbandons ==
  ASSUME ReaderHistory, pos \in Nat, Len(got) \in Nat, got' = got, Abandon(FALSE)
  PROVE  rec' = rec /\ pos' = pos
<1>1. ret' = [op |-> rop, ok |-> rop = "eof", clean |-> FALSE]
  BY DEF Abandon, Return
<1>2. ~ret'.clean /\ ret'.ok = (rop = "eof")
  BY <1>1
<1>3. ~(Skipped("skiprecord") /\ ret'.ok)
  BY <1>2 DEF Skipped
<1>4. rec' = rec /\ pos' = pos + (Len(got') - Len(got))
  BY <1>2, <1>3 DEF ReaderHistory
<1>5. pos + (Len(got) - Len(got)) = pos
  OBVIOUS
<1> QED BY <1>4, <1>5

\* A word, or a run of bytes, taken in place.
LEMMA InPlaceDelivers ==
  ASSUME ~SeekableIn, BothInv, WireReads, Located, ReaderHistory, UNCHANGED outVars,
         NEW n \in Nat, n <= fbtbc, in_finger + n <= in_boundry,
         rop = "idle", got' = got \o BufferBytes(n)
  PROVE  Pipe!Deliver \/ UNCHANGED Pipe!pipeVars
<1>1. inside = "loop" /\ Left = fbtbc /\ pos \in Nat /\ got \in Seq(Cell)
  BY CallFacts
<1>2. BufferBytes(n) \in Seq(Cell) /\ Len(BufferBytes(n)) = n
  BY NextBytes DEF BothInv, ReaderInv
<1>3. rop \notin {"skiprecord", "eof"} /\ inside # "header"
  BY <1>1
<1>4. rec' = rec /\ pos' = pos + n
  BY <1>1, <1>2, <1>3, HistoryTakes
<1>5. nput' = nput /\ ends' = ends
  BY DEF outVars
<1>6. CASE n > 0
  BY <1>1, <1>3, <1>4, <1>5, <1>6, Delivers
<1>7. CASE n = 0
  <2>1. BufferBytes(n) = << >>
    BY <1>2, <1>7
  <2>2. got' = got
    BY <1>1, <2>1
  <2>3. pos' = pos
    BY <1>1, <1>4, <1>7
  <2> QED BY <1>4, <1>5, <2>2, <2>3, PipeStays
<1> QED BY <1>6, <1>7

\* The end of a skip, or of the test for the end of the stream.
LEMMA SkipLoopMoves ==
  ASSUME BothInv, PipeInv, ReaderHistory, UNCHANGED outVars, SkipLoop
  PROVE  Pipe!NextRecord \/ Pipe!FinishRecord \/ UNCHANGED Pipe!pipeVars
<1>1. /\ rop \in {"skiprecord", "eof"} /\ inside = "loop"
      /\ UNCHANGED <<wire, in_finger, in_boundry, nread, got, nput, ends>>
  BY DEF SkipLoop, wireVars, outVars
<1>2. /\ fbtbc \in Nat /\ pos \in Nat /\ rec \in Nat /\ Len(got) \in Nat
      /\ ends \in Seq(Nat)
  BY CallFacts DEF PipeInv, BothInv, OutInv, OutTypeOK
<1>3. CASE RecordUnfinished
  <2>1. rop' # "idle"
    BY <1>1, <1>3 DEF SkipLoop
  <2>2. rec' = rec /\ pos' = pos
    BY <1>1, <1>2, <2>1, HistoryStays
  <2> QED BY <1>1, <2>2, PipeStays
<1>4. CASE ~RecordUnfinished
  <2>1. fbtbc = 0 /\ last_frag
    BY <1>2, <1>4 DEF RecordUnfinished
  <2>2. /\ rec <= Len(ends)
        /\ PayloadCount(wire, StreamPos) = IF rec = 0 THEN 0 ELSE ends[rec]
    BY <1>1, <2>1, AtRecordEnd
  <2>3. /\ rop' = "idle" /\ ret'.clean
        /\ rop = "skiprecord" => ret'.ok
    BY <1>1, <1>4 DEF SkipLoop, Return
  <2>4. StreamPos' = StreamPos
    BY <1>1 DEF StreamPos
  <2>5. pos' = PayloadCount(wire, StreamPos)
    BY <1>1, <2>3, <2>4 DEF ReaderHistory, Skipped
  <2>6. pos' = Pipe!EndOf(rec)
    BY <1>2, <2>2, <2>5 DEF Pipe!EndOf
  <2>7. CASE rop = "skiprecord"
    <3>1. rec' = rec + 1
      BY <2>3, <2>7 DEF ReaderHistory, Skipped
    <3> QED BY <1>1, <2>2, <2>6, <3>1 DEF Pipe!NextRecord
  <2>8. CASE rop = "eof"
    <3>1. rec' = rec
      BY <2>8 DEF ReaderHistory, Skipped
    <3> QED BY <1>1, <2>2, <2>6, <3>1 DEF Pipe!FinishRecord
  <2> QED BY <1>1, <2>7, <2>8
<1> QED BY <1>3, <1>4

\* The bytes of a fragment that the buffer has.
LEMMA TakeMoves ==
  ASSUME ~SeekableIn, BothInv, WireReads, Located, ReaderHistory, UNCHANGED outVars, Take
  PROVE  Pipe!Deliver \/ UNCHANGED Pipe!pipeVars
<1> DEFINE n == Taken
<1>1. /\ inside # "loop" /\ cnt > 0 /\ in_finger < in_boundry /\ rop' = rop
      /\ got' = IF inside = "data" /\ rop = "getbytes" THEN got \o BufferBytes(n) ELSE got
      /\ nput' = nput /\ ends' = ends
  BY DEF Take, Taken, outVars
<1>2. /\ n \in Nat /\ n >= 1 /\ n <= cnt /\ in_finger + n <= in_boundry
      /\ BufferBytes(n) \in Seq(Cell) /\ Len(BufferBytes(n)) = n
  BY <1>1, TakenFacts DEF BothInv, ReaderInv, CallInv
<1> HIDE DEF n
<1>3. /\ pos \in Nat /\ got \in Seq(Cell) /\ Len(got) \in Nat /\ rop # "idle"
      /\ cnt \in Nat /\ Left \in Nat
      /\ inside = "data" => cnt <= Left
  BY <1>1, CallFacts
<1>4. CASE inside = "data" /\ rop = "getbytes"
  <2>1. got' = got \o BufferBytes(n) /\ rop \notin {"skiprecord", "eof"} /\ inside # "header"
    BY <1>1, <1>4
  <2>2. rec' = rec /\ pos' = pos + n
    BY <1>2, <1>3, <2>1, HistoryTakes
  <2>3. n > 0 /\ n <= Left
    BY <1>2, <1>3, <1>4
  <2> QED BY <1>1, <1>2, <2>1, <2>2, <2>3, Delivers
<1>5. CASE ~(inside = "data" /\ rop = "getbytes")
  <2>1. got' = got /\ rop' # "idle"
    BY <1>1, <1>3, <1>5
  <2>2. rec' = rec /\ pos' = pos
    BY <1>3, <2>1, HistoryStays
  <2> QED BY <1>1, <2>1, <2>2, PipeStays
<1> QED BY <1>4, <1>5

\* What shows of the other steps of the reader: nothing.
LEMMA QuietSteps ==
  ASSUME BothInv, Located, ReaderHistory, UNCHANGED outVars, got' = got,
         \/ rop' # "idle" \/ rop \notin {"skiprecord", "eof"}
         \/ Abandon(FALSE)
  PROVE  UNCHANGED Pipe!pipeVars
<1>1. pos \in Nat /\ Len(got) \in Nat
  BY CallFacts
<1>2. rec' = rec /\ pos' = pos
  BY <1>1, HistoryStays, HistoryAbandons
<1>3. nput' = nput /\ ends' = ends
  BY DEF outVars
<1> QED BY <1>2, <1>3, PipeStays

LEMMA ReaderMoves ==
  ASSUME MaxErrors = 0, ~SeekableIn, BothInv, PipeInv, InNext, UNCHANGED outVars, ReaderHistory
  PROVE  \/ Pipe!Deliver \/ Pipe!NextRecord \/ Pipe!FinishRecord
         \/ UNCHANGED Pipe!pipeVars
<1> USE DEF PipeInv
<1>1. rop = "idle" => rop \notin {"skiprecord", "eof"}
  OBVIOUS
<1>2. inside # "loop" => rop # "idle"
  BY CallFacts
<1>3. ASSUME NEW op, NEW n, Begin(op, n) PROVE UNCHANGED Pipe!pipeVars
  <2>1. got' = got /\ rop = "idle"
    BY <1>3 DEF Begin
  <2> QED BY <1>1, <2>1, QuietSteps
<1>4. CASE GetLong
  <2>1. CASE ~Begin("getbytes", Unit)
    <3>1. WordReady /\ rop = "idle" /\ got' = got \o BufferBytes(Unit)
      BY <1>4, <2>1 DEF GetLong
    <3>2. Unit <= fbtbc /\ in_finger + Unit <= in_boundry
      <4>1. in_finger \in Nat /\ in_boundry \in Nat /\ fbtbc \in Nat
        BY ReaderFacts, CallFacts
      <4> QED BY <3>1, <4>1 DEF WordReady
    <3>3. Unit \in Nat
      OBVIOUS
    <3> QED BY <3>1, <3>2, <3>3, InPlaceDelivers
  <2> QED BY <1>3, <2>1
<1>5. CASE \E n \in InlineGets : GetInline(n)
  <2>1. PICK n \in InlineGets : GetInline(n)
    BY <1>5
  <2>2. n \in Nat
    BY InFacts
  <2>3. /\ n <= fbtbc /\ in_finger + n <= in_boundry
        /\ rop = "idle" /\ got' = got \o BufferBytes(n)
    BY <2>1 DEF GetInline, InlineFits
  <2> QED BY <2>2, <2>3, InPlaceDelivers
<1>6. CASE GetBytesLoop
  <2>1. got' = got /\ rop \notin {"skiprecord", "eof"}
    BY <1>6 DEF GetBytesLoop
  <2> QED BY <2>1, QuietSteps
<1>7. CASE SkipLoop BY <1>7, SkipLoopMoves
<1>8. CASE Take BY <1>8, TakeMoves
<1>9. CASE Fill \/ FillAtEnd \/ FillFails \/ DataDone \/ HeaderDone
  <2>1. got' = got /\ inside # "loop"
    BY <1>9 DEF Fill, FillAtEnd, FillFails, DataDone, HeaderDone
  <2>2. rop' = rop \/ Abandon(FALSE)
    BY <1>9 DEF Fill, FillAtEnd, FillFails, DataDone, HeaderDone, callVars
  <2> QED BY <1>2, <2>1, <2>2, QuietSteps
<1>10. CASE InGetPos \/ InSetPos
  BY <1>10 DEF InGetPos, InSetPos
<1> QED BY <1>3, <1>4, <1>5, <1>6, <1>7, <1>8, <1>9, <1>10
        DEF InNext, CallerNext, CallNext, GetBytes, SkipRecord, Eof

(***************************************************************************)
(* The two streams and the connection are a pipe of records: whatever the  *)
(* buffer sizes, the chunks readit returns and the interleaving of the two *)
(* callers, the reader is given the writer's bytes, once and in order, and *)
(* never one beyond the record it is in.  Assumed are the hypotheses of    *)
(* PipeInvariance (for what a moving writer takes back the pipe has no     *)
(* action).                                                                *)
(***************************************************************************)
THEOREM RecordsArePiped ==
  ASSUME MaxErrors = 0, ~SeekableIn, ~Seekable PROVE Spec => ImplementsRecordPipe
<1>1. Init => Pipe!Init
  <2> SUFFICES ASSUME Init PROVE Pipe!Init
    OBVIOUS
  <2>1. nput = 0 /\ ends = << >> /\ rec = 0 /\ pos = 0 /\ got = << >>
    BY DEF Init, OutInit, InInit
  <2>2. [i \in 1..Len(got) |-> got[i].k] = << >>
    BY <2>1
  <2> QED BY <2>1, <2>2 DEF Pipe!Init
<1>2. BothInv /\ PipeInv /\ [Next]_vars => [Pipe!Next]_Pipe!pipeVars
  <2> SUFFICES ASSUME BothInv, PipeInv, [Next]_vars
               PROVE  Pipe!Next \/ UNCHANGED Pipe!pipeVars
    OBVIOUS
  <2>1. CASE UNCHANGED vars
    <3>1. UNCHANGED <<nput, ends, rec, pos, got>>
      BY <2>1 DEF vars, outVars, inVars
    <3> QED BY <3>1, PipeStays
  <2>2. CASE Writer
    BY <2>2, WriterMoves DEF BothInv, Pipe!Next
  <2>3. CASE ReaderCall \/ ReaderReturn \/ Timeout
    <3>1. InNext /\ UNCHANGED outVars /\ ReaderHistory
      BY <2>3, ReaderStep
    <3> QED BY <3>1, ReaderMoves DEF Pipe!Next
  <2> QED BY <2>1, <2>2, <2>3 DEF Next
<1> QED BY <1>1, <1>2, ReaderInvariance, PipeInvariance, PTL
        DEF Spec, ImplementsRecordPipe, Pipe!Spec
=============================================================================
