---------------------------- MODULE XdrStream_proofs ----------------------------
(***************************************************************************)
(* xdr_stream_send and xdr_stream_recv implement the queue of messages, for*)
(* every set of messages and every length of the buffer.                   *)
(***************************************************************************)
EXTENDS XdrStream, FiniteSetTheorems, SequenceTheorems, TLAPS

-----------------------------------------------------------------------------
(* Functions that are defined along a chain, as the messages from a        *)
(* position of the stream on are: each element of a set D names the one    *)
(* behind it, and every chain ends, at z or outside of D.                  *)

(* No chain goes on in D for ever.                                         *)
Ends(D, nx) == \A S \in SUBSET D : S # {} => \E m \in S : nx[m] \notin S

(* What holds at z, and of every element if of the one behind it, holds of *)
(* every element.                                                          *)
Inherited(D, z, nx, P) == z \in P /\ \A m \in D : nx[m] \in P => m \in P

LEMMA ChainInduction ==
    ASSUME NEW D, NEW z, NEW nx \in [D -> D \cup {z}], Ends(D, nx),
           NEW P, Inherited(D, z, nx, P)
    PROVE  D \subseteq P
  <1> DEFINE S == D \ P
  <1>1. \A m \in S : nx[m] \in S
    BY DEF Inherited
  <1>2. S = {}
    BY <1>1 DEF Ends
  <1> QED
    BY <1>2

(* A value that comes with each element: e at z, and what g makes of the   *)
(* element and of the value of the one behind it.                          *)
Along(D, z, nx, e, g, f) == f[z] = e /\ \A m \in D : f[m] = g[<<m, f[nx[m]]>>]

LEMMA ChainRecursion ==
    ASSUME NEW D, NEW z, z \notin D, NEW nx \in [D -> D \cup {z}], Ends(D, nx),
           NEW V, NEW e \in V, NEW g \in [D \X V -> V]
    PROVE  \E f \in [D \cup {z} -> V] : Along(D, z, nx, e, g, f)
  <1> DEFINE Pairs == (D \cup {z}) \X V
             Full(R) == <<z, e>> \in R /\ \A m \in D, v \in V : <<nx[m], v>> \in R => <<m, g[<<m, v>>]>> \in R
             G == {p \in Pairs : \A R \in SUBSET Pairs : Full(R) => p \in R}
  <1>1. \A m \in D, v \in V : g[<<m, v>>] \in V
    OBVIOUS
  <1>2. <<z, e>> \in G
    OBVIOUS
  <1>3. \A m \in D, v \in V : <<nx[m], v>> \in G => <<m, g[<<m, v>>]>> \in G
    <2> TAKE m \in D, v \in V
    <2> HAVE <<nx[m], v>> \in G
    <2>1. <<m, g[<<m, v>>]>> \in Pairs
      BY <1>1
    <2>2. ASSUME NEW R \in SUBSET Pairs, Full(R) PROVE <<m, g[<<m, v>>]>> \in R
      <3>1. <<nx[m], v>> \in R
        BY <2>2
      <3> QED
        BY <2>2, <3>1
    <2> QED
      BY <2>1, <2>2
  <1>4. ASSUME NEW v \in V, <<z, v>> \in G PROVE v = e
    <2> SUFFICES ASSUME v # e PROVE FALSE
      OBVIOUS
    <2> DEFINE R == G \ {<<z, v>>}
    <2>1. Full(R)
      <3>1. <<z, e>> \in R
        BY <1>2
      <3>2. ASSUME NEW m \in D, NEW w \in V, <<nx[m], w>> \in R PROVE <<m, g[<<m, w>>]>> \in R
        <4>1. <<m, g[<<m, w>>]>> \in G
          BY <1>3, <3>2
        <4> QED
          BY <4>1
      <3> QED
        BY <3>1, <3>2
    <2>2. R \in SUBSET Pairs
      OBVIOUS
    <2>3. <<z, v>> \in R
      BY <1>4, <2>1, <2>2
    <2> QED
      BY <2>3
  <1>5. ASSUME NEW m \in D, NEW w \in V, <<m, w>> \in G
        PROVE  \E v \in V : <<nx[m], v>> \in G /\ w = g[<<m, v>>]
    <2> SUFFICES ASSUME \A v \in V : <<nx[m], v>> \in G => w # g[<<m, v>>] PROVE FALSE
      OBVIOUS
    <2> DEFINE R == G \ {<<m, w>>}
    <2>1. Full(R)
      <3>1. <<z, e>> \in R
        BY <1>2
      <3>2. ASSUME NEW k \in D, NEW v \in V, <<nx[k], v>> \in R PROVE <<k, g[<<k, v>>]>> \in R
        <4>1. <<k, g[<<k, v>>]>> \in G /\ <<nx[k], v>> \in G
          BY <1>3, <3>2
        <4> QED
          BY <4>1
      <3> HIDE DEF R
      <3> QED
        BY <3>1, <3>2
    <2>2. R \in SUBSET Pairs
      OBVIOUS
    <2>3. <<m, w>> \in R
      BY <1>5, <2>1, <2>2
    <2> QED
      BY <2>3
  <1> HIDE DEF G
  <1>6. ASSUME NEW m \in D \cup {z} PROVE \E v \in V : <<m, v>> \in G
    <2> DEFINE P == {k \in D \cup {z} : \E v \in V : <<k, v>> \in G}
    <2>1. z \in P
      BY <1>2
    <2>2. \A k \in D : nx[k] \in P => k \in P
      BY <1>1, <1>3
    <2>3. D \subseteq P
      <3> HIDE DEF P
      <3> QED
        BY <2>1, <2>2, ChainInduction DEF Inherited
    <2> QED
      BY <2>1, <2>3
  <1>7. ASSUME NEW m \in D \cup {z}, NEW v \in V, NEW w \in V, <<m, v>> \in G, <<m, w>> \in G PROVE v = w
    <2> DEFINE P == {k \in D \cup {z} : \A a, b \in V : <<k, a>> \in G /\ <<k, b>> \in G => a = b}
    <2>1. z \in P
      BY <1>4
    <2>2. ASSUME NEW k \in D, nx[k] \in P PROVE k \in P
      <3> SUFFICES ASSUME NEW a \in V, NEW b \in V, <<k, a>> \in G, <<k, b>> \in G PROVE a = b
        OBVIOUS
      <3>1. PICK a0 \in V : <<nx[k], a0>> \in G /\ a = g[<<k, a0>>]
        BY <1>5
      <3>2. PICK b0 \in V : <<nx[k], b0>> \in G /\ b = g[<<k, b0>>]
        BY <1>5
      <3>3. a0 = b0
        BY <2>2, <3>1, <3>2
      <3> QED
        BY <3>1, <3>2, <3>3
    <2>3. D \subseteq P
      <3> HIDE DEF P
      <3> QED
        BY <2>1, <2>2, ChainInduction DEF Inherited
    <2>4. m \in P
      BY <2>1, <2>3
    <2> QED
      BY <1>7, <2>4
  <1> DEFINE f == [m \in D \cup {z} |-> CHOOSE v \in V : <<m, v>> \in G]
  <1>8. \A m \in D \cup {z} : f[m] \in V /\ <<m, f[m]>> \in G
    BY <1>6
  <1>9. f \in [D \cup {z} -> V]
    BY <1>8
  <1>10. f[z] = e
    BY <1>4, <1>8
  <1>11. ASSUME NEW m \in D PROVE f[m] = g[<<m, f[nx[m]]>>]
    <2>1. nx[m] \in D \cup {z}
      OBVIOUS
    <2> DEFINE v == f[nx[m]]
    <2>2. v \in V /\ <<nx[m], v>> \in G
      BY <1>8, <2>1
    <2>3. <<m, g[<<m, v>>]>> \in G /\ g[<<m, v>>] \in V
      BY <1>1, <1>3, <2>2
    <2>4. f[m] \in V /\ <<m, f[m]>> \in G
      BY <1>8
    <2> HIDE DEF f, v
    <2>5. f[m] = g[<<m, v>>]
      BY <1>7, <2>3, <2>4
    <2> QED
      BY <2>5 DEF v
  <1> HIDE DEF f
  <1> QED
    BY <1>9, <1>10, <1>11 DEF Along

-----------------------------------------------------------------------------
(* A set of numbers with a bound has a least one, and a chain through it   *)
(* that only rises ends.                                                   *)

LEMMA LeastExists ==
    ASSUME NEW k \in Nat, NEW Gap \in SUBSET (1..k), Gap # {}
    PROVE  \E id \in Gap : \A j \in Gap : id <= j
  <1> DEFINE N == 1..k
             Upto == { 1..j : j \in Gap }
  <1>1. IsWellFoundedOn(StrictSubsetOrdering(N), SUBSET N)
    <2>1. IsFiniteSet(N)
      BY FS_Interval
    <2> QED
      BY <2>1, FS_StrictSubsetOrderingWellFounded, FS_FiniteSubsetsOfFinite
  <1>2. Upto \subseteq SUBSET N /\ Upto # {}
    <2>1. \A j \in Gap : 1..j \in SUBSET N
      OBVIOUS
    <2> QED
      BY <2>1
  <1>3. PICK X \in Upto : \A Y \in Upto : <<Y, X>> \notin StrictSubsetOrdering(N)
    <2> HIDE DEF N, Upto
    <2> QED
      BY <1>1, <1>2, WFMin
  <1>4. PICK id \in Gap : X = 1..id
    BY <1>3
  <1>5. ASSUME NEW j \in Gap, j < id PROVE FALSE
    <2>1. 1..j \subseteq 1..id /\ 1..j # 1..id /\ 1..j \in SUBSET N /\ 1..id \in SUBSET N /\ 1..j \in Upto
      <3>1. id \in 1..id /\ id \notin 1..j
        BY <1>5
      <3> QED
        BY <1>5, <3>1
    <2> QED
      BY <1>3, <1>4, <2>1 DEF StrictSubsetOrdering
  <1> QED
    BY <1>5

(* What is behind a number is greater, or is no number of D.               *)
Rising(D, nx) == \A m \in D : nx[m] \in D => m < nx[m]

LEMMA RisingEnds ==
    ASSUME NEW k \in Nat, NEW D \in SUBSET (0..k), NEW nx, Rising(D, nx)
    PROVE  Ends(D, nx)
  <1> SUFFICES ASSUME NEW S \in SUBSET D, S # {} PROVE \E m \in S : nx[m] \notin S
    BY DEF Ends
  <1> DEFINE Gap == { k + 1 - i : i \in S }
  <1>1. Gap \in SUBSET (1..(k + 1)) /\ Gap # {} /\ k + 1 \in Nat
    <2>1. \A i \in S : k + 1 - i \in 1..(k + 1)
      OBVIOUS
    <2>2. Gap \subseteq 1..(k + 1)
      BY <2>1
    <2>3. Gap # {}
      OBVIOUS
    <2> QED
      BY <2>2, <2>3
  <1>2. PICK id \in Gap : \A j \in Gap : id <= j
    <2> HIDE DEF Gap
    <2> QED
      BY <1>1, LeastExists
  <1>3. PICK m \in S : id = k + 1 - m
    BY <1>2
  <1>4. ASSUME nx[m] \in S PROVE FALSE
    <2>1. m < nx[m] /\ nx[m] \in 0..k /\ m \in 0..k
      BY <1>4 DEF Rising
    <2>2. k + 1 - nx[m] \in Gap
      BY <1>4
    <2>3. id <= k + 1 - nx[m]
      BY <1>2, <2>2
    <2> QED
      BY <1>3, <2>1, <2>3
  <1> QED
    BY <1>4

Byte == 0 .. Base - 1

-----------------------------------------------------------------------------
(* Lengths and frames.                                                     *)

LEMMA HeaderIs ==
    ASSUME NEW size \in Nat, size < Base * Base
    PROVE  /\ Header(size) \in Seq(Byte) /\ Len(Header(size)) = 2
           /\ Length(Header(size)) = size
  <1> DEFINE q == size \div Base
             r == size % Base
  <1>0. Base \in Nat /\ Base > 0
    BY StreamAssumption
  <1>1. q \in Nat /\ r \in 0 .. Base - 1 /\ size = Base * q + r
    BY <1>0
  <1>2. q < Base
    <2> SUFFICES ASSUME q >= Base PROVE FALSE
      BY <1>0, <1>1
    <2> HIDE DEF q, r
    <2>1. Base * q >= Base * Base
      BY <1>0, <1>1
    <2> QED
      BY <1>0, <1>1, <2>1
  <1>3. q * Base + r = size
    <2> HIDE DEF q, r
    <2> QED
      BY <1>0, <1>1
  <1>4. Header(size) = <<q, r>>
    BY DEF Header
  <1> HIDE DEF q, r
  <1>5. <<q, r>> \in Seq(Byte)
    BY <1>0, <1>1, <1>2 DEF Byte
  <1> QED
    BY <1>3, <1>4, <1>5 DEF Length

LEMMA BehindTwo ==
    ASSUME NEW S, NEW s \in Seq(S), NEW t \in Seq(S), Len(s) = 2
    PROVE  /\ s \o t \in Seq(S) /\ Len(s \o t) = Len(t) + 2
           /\ \A j \in 1..2 : (s \o t)[j] = s[j]
           /\ \A j \in 1..Len(t) : (s \o t)[j + 2] = t[j]
  <1>0. Len(t) \in Nat
    OBVIOUS
  <1>1. s \o t \in Seq(S) /\ Len(s \o t) = Len(s) + Len(t)
        /\ \A i \in 1 .. Len(s) + Len(t) : (s \o t)[i] = IF i <= Len(s) THEN s[i] ELSE t[i - Len(s)]
    BY ConcatProperties
  <1>2. \A j \in 1..2 : (s \o t)[j] = s[j]
    BY <1>0, <1>1
  <1>3. ASSUME NEW j \in 1..Len(t) PROVE (s \o t)[j + 2] = t[j]
    <2>1. j + 2 \in 1..Len(s) + Len(t) /\ ~(j + 2 <= Len(s)) /\ j + 2 - Len(s) = j
      BY <1>0
    <2> QED
      BY <1>1, <2>1
  <1> QED
    BY <1>0, <1>1, <1>2, <1>3

Sendable(m) == m \in Messages /\ Encodes(m)

LEMMA FrameIs ==
    ASSUME NEW m, Sendable(m)
    PROVE  /\ m \in Seq(Byte) /\ Len(m) \in Nat /\ InRange(Len(m)) /\ Len(m) < Base * Base
           /\ Frame(m) \in Seq(Byte) /\ Len(Frame(m)) = Len(m) + 2
           /\ \A j \in 1..2 : Frame(m)[j] = Header(Len(m))[j]
           /\ \A j \in 1..Len(m) : Frame(m)[j + 2] = m[j]
  <1>1. m \in Seq(Byte) /\ InRange(Len(m))
    BY StreamAssumption DEF Sendable, Encodes, Byte
  <1>2. Len(m) \in Nat
    BY <1>1
  <1>3. Base * Base \in Nat /\ BUFLEN \in Nat /\ BUFLEN < Base * Base
    BY StreamAssumption
  <1>4. Len(m) < Base * Base
    BY <1>1, <1>2, <1>3 DEF InRange
  <1>5. Header(Len(m)) \in Seq(Byte) /\ Len(Header(Len(m))) = 2
    BY <1>2, <1>4, HeaderIs
  <1>6. PICK first \in Seq(Byte) : first = Header(Len(m)) /\ Len(first) = 2
    BY <1>5
  <1>7. Frame(m) = first \o m
    BY <1>6 DEF Frame
  <1>8. /\ Frame(m) \in Seq(Byte) /\ Len(Frame(m)) = Len(m) + 2
        /\ \A j \in 1..2 : Frame(m)[j] = first[j]
        /\ \A j \in 1..Len(m) : Frame(m)[j + 2] = m[j]
    BY <1>1, <1>6, <1>7, BehindTwo
  <1> QED
    BY <1>1, <1>2, <1>4, <1>6, <1>8

(* The frame of m stands at i.                                             *)
At(b, i, m) ==
    /\ i + 2 + Len(m) <= Len(b)
    /\ \A j \in 1 .. Len(m) + 2 : b[i + j] = Frame(m)[j]

LEMMA AtIs ==
    ASSUME NEW b \in Seq(Byte), NEW i \in 0..Len(b), NEW m, Sendable(m), At(b, i, m)
    PROVE  /\ i + 2 <= Len(b)
           /\ Length(SubSeq(b, i + 1, i + 2)) = Len(m)
           /\ SubSeq(b, i + 3, i + 2 + Len(m)) = m
  <1>0. /\ m \in Seq(Byte) /\ Len(m) \in Nat /\ Len(m) < Base * Base
        /\ \A j \in 1..2 : Frame(m)[j] = Header(Len(m))[j]
        /\ \A j \in 1..Len(m) : Frame(m)[j + 2] = m[j]
    BY FrameIs
  <1>1. i + 2 + Len(m) <= Len(b) /\ \A j \in 1 .. Len(m) + 2 : b[i + j] = Frame(m)[j]
    BY DEF At
  <1>2. i + 2 <= Len(b) /\ Len(b) \in Nat
    BY <1>0, <1>1
  <1>3. Length(Header(Len(m))) = Len(m)
    BY <1>0, HeaderIs
  <1>4. b[i + 1] = Header(Len(m))[1] /\ b[i + 2] = Header(Len(m))[2]
    <2>1. 1 \in 1 .. Len(m) + 2 /\ 2 \in 1 .. Len(m) + 2
      BY <1>0
    <2> QED
      BY <1>0, <1>1, <2>1
  <1>5. SubSeq(b, i + 1, i + 2)[1] = b[i + 1] /\ SubSeq(b, i + 1, i + 2)[2] = b[i + 2]
    <2>1. i + 1 \in 1..Len(b) /\ i + 2 \in 1..Len(b) /\ i + 2 - (i + 1) + 1 = 2
      BY <1>2
    <2> QED
      BY <2>1
  <1>6. Length(SubSeq(b, i + 1, i + 2)) = Len(m)
    BY <1>3, <1>4, <1>5 DEF Length
  <1>7. SubSeq(b, i + 3, i + 2 + Len(m)) = m
    <2> DEFINE s == SubSeq(b, i + 3, i + 2 + Len(m))
    <2>1. s \in Seq(Byte) /\ Len(s) = Len(m)
      BY <1>0, <1>1, <1>2
    <2>2. ASSUME NEW j \in 1..Len(m) PROVE s[j] = m[j]
      <3>1. s[j] = b[i + 2 + j]
        BY <1>0, <1>1, <1>2
      <3>2. b[i + (j + 2)] = Frame(m)[j + 2] /\ i + (j + 2) = i + 2 + j
        BY <1>0, <1>1
      <3> QED
        BY <1>0, <3>1, <3>2
    <2> HIDE DEF s
    <2> QED
      BY <1>0, <2>1, <2>2 DEF s
  <1> QED
    BY <1>2, <1>6, <1>7

-----------------------------------------------------------------------------
(* What InFrames reads, from each position on.                             *)

Behind(b, i) == i + 2 + Length(SubSeq(b, i + 1, i + 2))
Stops(b, i) == i + 2 > Len(b) \/ Behind(b, i) > Len(b) \/ Behind(b, i) = i + 2

Reading(b, h) ==
    /\ \A i \in 0..Len(b) : h[i] \in Seq(Seq(Byte))
    /\ h[Len(b)] = <<>>
    /\ \A i \in 0..Len(b) : \A m : Sendable(m) /\ At(b, i, m) => h[i] = <<m>> \o h[i + 2 + Len(m)]

LEMMA LengthIs ==
    ASSUME NEW b \in Seq(Byte), NEW i \in 0..Len(b), i + 2 <= Len(b)
    PROVE  Behind(b, i) \in Nat /\ Behind(b, i) >= i + 2
  <1> DEFINE s == SubSeq(b, i + 1, i + 2)
  <1>1. Len(b) \in Nat /\ i \in Nat
    OBVIOUS
  <1>2. s[1] = b[i + 1] /\ s[2] = b[i + 2]
    BY <1>1
  <1>3. b[i + 1] \in Nat /\ b[i + 2] \in Nat
    <2>1. b[i + 1] \in Byte /\ b[i + 2] \in Byte
      BY <1>1
    <2> QED
      BY <2>1, StreamAssumption DEF Byte
  <1>4. Length(s) \in Nat
    <2>1. b[i + 1] * Base \in Nat
      BY <1>3, StreamAssumption
    <2> QED
      BY <1>2, <1>3, <2>1 DEF Length
  <1> HIDE DEF s
  <1>5. Behind(b, i) = i + 2 + Length(s)
    BY DEF Behind, s
  <1> QED
    BY <1>1, <1>4, <1>5

LEMMA InFramesIs ==
    ASSUME NEW b \in Seq(Byte)
    PROVE  \E h : InFrames(b) = h[0] /\ Reading(b, h)
  <1> DEFINE D == {i \in 0..Len(b) : ~Stops(b, i)}
             V == Seq(Seq(Byte))
             Body(i) == SubSeq(b, i + 3, Behind(b, i))
             nx == [i \in D |-> IF Behind(b, i) \in D THEN Behind(b, i) ELSE -1]
             g == [p \in D \X V |-> <<Body(p[1])>> \o p[2]]
             Eq(h) == h = [i \in 0 .. Len(b) |->
                             IF i + 2 > Len(b) THEN <<>>
                             ELSE LET end == i + 2 + Length(SubSeq(b, i + 1, i + 2))
                                  IN IF end > Len(b) \/ end = i + 2 THEN <<>>
                                     ELSE <<SubSeq(b, i + 3, end)>> \o h[end]]
  <1>0. Len(b) \in Nat /\ -1 \notin D /\ D \in SUBSET (0..Len(b))
    OBVIOUS
  <1>1. \A i \in D : /\ i + 2 <= Len(b) /\ Behind(b, i) \in 0..Len(b) /\ i < Behind(b, i)
                     /\ Body(i) \in Seq(Byte)
    <2> TAKE i \in D
    <2>1. i \in 0..Len(b) /\ i + 2 <= Len(b)
      BY <1>0 DEF Stops
    <2>2. Behind(b, i) \in Nat /\ Behind(b, i) >= i + 2
      BY <2>1, LengthIs
    <2>3. Behind(b, i) <= Len(b)
      BY <1>0, <2>2 DEF Stops
    <2>4. Body(i) \in Seq(Byte)
      BY <2>1, <2>2, <2>3
    <2> QED
      BY <2>1, <2>2, <2>3, <2>4
  <1>2. nx \in [D -> D \cup {-1}]
    OBVIOUS
  <1>3. Ends(D, nx)
    <2>1. Rising(D, nx)
      BY <1>0, <1>1 DEF Rising
    <2> HIDE DEF D, nx
    <2> QED
      BY <1>0, <2>1, RisingEnds
  <1>4. g \in [D \X V -> V] /\ \A i \in D, s \in V : g[<<i, s>>] = <<Body(i)>> \o s
    <2>1. \A i \in D : Body(i) \in Seq(Byte)
      BY <1>1
    <2> HIDE DEF Body, D
    <2>2. \A i \in D, s \in V : <<Body(i)>> \o s \in V
      BY <2>1
    <2> QED
      BY <2>2
  <1>5. PICK f \in [D \cup {-1} -> V] : Along(D, -1, nx, <<>>, g, f)
    <2>1. <<>> \in V
      OBVIOUS
    <2> HIDE DEF D, V, nx, g
    <2> QED
      BY <1>0, <1>2, <1>3, <1>4, <2>1, ChainRecursion
  <1> DEFINE k == [i \in 0..Len(b) |-> IF i \in D THEN f[i] ELSE <<>>]
  <1>6. \A i \in D : f[i] = <<Body(i)>> \o k[Behind(b, i)]
    <2> TAKE i \in D
    <2>1. f[i] = g[<<i, f[nx[i]]>>] /\ f[-1] = <<>>
      BY <1>5 DEF Along
    <2>2. f[nx[i]] \in V
      BY <1>2
    <2>3. k[Behind(b, i)] = f[nx[i]]
      <3>1. nx[i] = IF Behind(b, i) \in D THEN Behind(b, i) ELSE -1
        OBVIOUS
      <3>2. Behind(b, i) \in 0..Len(b)
        BY <1>1
      <3> HIDE DEF nx, D
      <3> QED
        BY <2>1, <3>1, <3>2
    <2> HIDE DEF V, g, D, nx, Body, k
    <2> QED
      BY <1>4, <2>1, <2>2, <2>3
  <1>7. Eq(k)
    <2>1. ASSUME NEW i \in 0..Len(b)
          PROVE  k[i] = IF i + 2 > Len(b) THEN <<>>
                        ELSE IF Behind(b, i) > Len(b) \/ Behind(b, i) = i + 2 THEN <<>>
                        ELSE <<SubSeq(b, i + 3, Behind(b, i))>> \o k[Behind(b, i)]
      <3>1. CASE i \in D
        <4>1. k[i] = <<Body(i)>> \o k[Behind(b, i)]
          BY <1>6, <3>1
        <4>2. ~(i + 2 > Len(b)) /\ ~(Behind(b, i) > Len(b) \/ Behind(b, i) = i + 2)
          BY <3>1 DEF Stops
        <4> HIDE DEF k, D
        <4> QED
          BY <4>1, <4>2
      <3>2. CASE i \notin D
        <4>1. k[i] = <<>> /\ Stops(b, i)
          BY <3>2
        <4> HIDE DEF k, D
        <4> QED
          BY <4>1 DEF Stops
      <3> QED
        BY <3>1, <3>2
    <2> HIDE DEF D
    <2> QED
      BY <2>1 DEF Behind
  <1> DEFINE h == CHOOSE x : Eq(x)
  <1>8. Eq(h)
    <2> HIDE DEF Eq, k
    <2> QED
      BY <1>7
  <1>9. InFrames(b) = h[0]
    BY DEF InFrames
  <1>10. ASSUME NEW i \in 0..Len(b)
         PROVE  h[i] = IF i + 2 > Len(b) THEN <<>>
                       ELSE IF Behind(b, i) > Len(b) \/ Behind(b, i) = i + 2 THEN <<>>
                       ELSE <<SubSeq(b, i + 3, Behind(b, i))>> \o h[Behind(b, i)]
    <2> HIDE DEF h
    <2> QED
      BY <1>8 DEF Behind
  <1> HIDE DEF h, k, Eq
  <1>11. \A i \in D : h[i] = <<Body(i)>> \o h[Behind(b, i)]
    BY <1>10 DEF Stops
  <1>12. \A i \in 0..Len(b) : i \notin D => h[i] = <<>>
    BY <1>10 DEF Stops
  <1>13. \A i \in D : h[i] \in V
    <2> DEFINE P == {i \in D : h[i] \in V} \cup {-1}
    <2>1. ASSUME NEW i \in D, nx[i] \in P PROVE i \in P
      <3>1. h[Behind(b, i)] \in V
        <4>1. CASE Behind(b, i) \in D
          BY <1>0, <2>1, <4>1
        <4>2. CASE Behind(b, i) \notin D
          <5>1. h[Behind(b, i)] = <<>>
            BY <1>1, <1>12, <4>2
          <5> QED
            BY <5>1
        <4> QED
          BY <4>1, <4>2
      <3>2. Body(i) \in Seq(Byte)
        BY <1>1
      <3>3. <<Body(i)>> \o h[Behind(b, i)] \in V
        <4> HIDE DEF Body
        <4> QED
          BY <3>1, <3>2
      <3> QED
        BY <1>11, <3>3
    <2>2. Inherited(D, -1, nx, P)
      BY <2>1 DEF Inherited
    <2>3. D \subseteq P
      <3> HIDE DEF D, nx, P
      <3> QED
        BY <1>2, <1>3, <2>2, ChainInduction
    <2> QED
      BY <1>0, <2>3
  <1>14. \A i \in 0..Len(b) : h[i] \in V
    <2>1. <<>> \in V
      OBVIOUS
    <2> HIDE DEF D, V
    <2> QED
      BY <1>12, <1>13, <2>1
  <1>15. h[Len(b)] = <<>>
    <2>1. Len(b) \in 0..Len(b) /\ Len(b) + 2 > Len(b)
      BY <1>0
    <2> QED
      BY <1>10, <2>1
  <1>16. ASSUME NEW i \in 0..Len(b), NEW m, Sendable(m), At(b, i, m)
         PROVE  h[i] = <<m>> \o h[i + 2 + Len(m)]
    <2>1. /\ i + 2 <= Len(b) /\ Behind(b, i) = i + 2 + Len(m)
          /\ SubSeq(b, i + 3, i + 2 + Len(m)) = m
      BY <1>16, AtIs DEF Behind
    <2>2. Len(m) \in Nat /\ Len(m) > 0 /\ i + 2 + Len(m) <= Len(b)
      BY <1>16, FrameIs DEF InRange, At
    <2>3. ~(i + 2 > Len(b)) /\ ~(Behind(b, i) > Len(b)) /\ Behind(b, i) # i + 2
      BY <1>0, <2>1, <2>2
    <2> QED
      BY <1>10, <2>1, <2>3
  <1> QED
    BY <1>9, <1>14, <1>15, <1>16 DEF Reading

-----------------------------------------------------------------------------
(* Bytes that are frames of messages from their beginning to their end: the*)
(* positions where a frame begins, and the end.                            *)

Marks(b, P) ==
    /\ P \in SUBSET (0..Len(b)) /\ 0 \in P
    /\ \A i \in P \ {Len(b)} : \E m : Sendable(m) /\ At(b, i, m) /\ i + 2 + Len(m) \in P
Framed(b) == \E P : Marks(b, P)

(* What holds at the end, and of a position if behind its frame.           *)
Carried(b, P, Q) ==
    /\ Len(b) \in Q
    /\ \A i \in P \ {Len(b)} : \A m : Sendable(m) /\ At(b, i, m) /\ i + 2 + Len(m) \in Q => i \in Q

LEMMA MarkInduction ==
    ASSUME NEW b \in Seq(Byte), NEW P, Marks(b, P), NEW Q, Carried(b, P, Q)
    PROVE  P \subseteq Q
  <1> DEFINE D == P \ {Len(b)}
             Is(i, m) == Sendable(m) /\ At(b, i, m) /\ i + 2 + Len(m) \in P
             nx == [i \in D |-> i + 2 + Len(CHOOSE m : Is(i, m))]
  <1>0. Len(b) \in Nat /\ D \in SUBSET (0..Len(b))
    <2>1. Len(b) \in Nat
      OBVIOUS
    <2>2. P \subseteq 0..Len(b)
      BY DEF Marks
    <2> QED
      BY <2>1, <2>2
  <1>1. ASSUME NEW i \in D
        PROVE  \E m : Is(i, m) /\ nx[i] = i + 2 + Len(m) /\ i < nx[i] /\ nx[i] \in P
    <2>1. \E m : Is(i, m)
      BY DEF Marks
    <2>2. PICK m : Is(i, m) /\ m = CHOOSE x : Is(i, x)
      <3> HIDE DEF Is
      <3> QED
        BY <2>1
    <2>3. nx[i] = i + 2 + Len(m)
      BY <2>2
    <2>4. Len(m) \in Nat
      BY <2>2, FrameIs
    <2>5. i \in Nat
      BY <1>0
    <2> HIDE DEF nx, D
    <2>6. i < nx[i]
      BY <2>3, <2>4, <2>5
    <2> QED
      BY <2>2, <2>3, <2>6
  <1>2. nx \in [D -> D \cup {Len(b)}]
    <2>1. \A i \in D : nx[i] \in D \cup {Len(b)}
      BY <1>1
    <2> QED
      BY <2>1
  <1>3. Ends(D, nx)
    <2>1. Rising(D, nx)
      BY <1>1 DEF Rising
    <2> HIDE DEF D, nx
    <2> QED
      BY <1>0, <2>1, RisingEnds
  <1>4. Inherited(D, Len(b), nx, Q)
    <2>1. ASSUME NEW i \in D, nx[i] \in Q PROVE i \in Q
      <3>1. PICK m : Is(i, m) /\ nx[i] = i + 2 + Len(m)
        BY <1>1
      <3> HIDE DEF nx
      <3> QED
        BY <2>1, <3>1 DEF Carried
    <2> QED
      BY <2>1 DEF Inherited, Carried
  <1>5. D \subseteq Q
    <2> HIDE DEF D, nx
    <2> QED
      BY <1>2, <1>3, <1>4, ChainInduction
  <1> QED
    BY <1>5 DEF Carried

LEMMA NothingIsFramed == Framed(<<>>) /\ InFrames(<<>>) = <<>>
  <1>1. Marks(<<>>, {0})
    BY DEF Marks
  <1>2. PICK h : InFrames(<<>>) = h[0] /\ Reading(<<>>, h)
    <2>1. <<>> \in Seq(Byte)
      OBVIOUS
    <2> QED
      BY <2>1, InFramesIs
  <1>3. InFrames(<<>>) = <<>>
    BY <1>2 DEF Reading
  <1> QED
    BY <1>1, <1>3 DEF Framed

(* What is appended to, or in front of, what was read.                     *)
LEMMA Appended ==
    ASSUME NEW S, NEW x \in S, NEW y \in S, NEW q \in Seq(S)
    PROVE  <<x>> \o Append(q, y) = Append(<<x>> \o q, y)
  OBVIOUS

LEMMA AppendedFirst ==
    ASSUME NEW S, NEW x \in S
    PROVE  <<x>> \o <<>> = Append(<<>>, x)
  OBVIOUS

LEMMA FrameAppended ==
    ASSUME NEW s \in Seq(Byte), Framed(s), NEW m, Sendable(m)
    PROVE  Framed(s \o Frame(m)) /\ InFrames(s \o Frame(m)) = Append(InFrames(s), m)
  <1> DEFINE t == s \o Frame(m)
             L == Len(s)
  <1>0. /\ m \in Seq(Byte) /\ Len(m) \in Nat /\ L \in Nat
        /\ Frame(m) \in Seq(Byte) /\ Len(Frame(m)) = Len(m) + 2
    BY FrameIs
  <1>1. /\ t \in Seq(Byte) /\ Len(t) = L + 2 + Len(m)
        /\ \A i \in 1..L : t[i] = s[i]
        /\ \A j \in 1..Len(m) + 2 : t[L + j] = Frame(m)[j]
    <2>1. t \in Seq(Byte) /\ Len(t) = L + Len(Frame(m))
      BY <1>0
    <2>2. /\ \A i \in 1 .. L + Len(Frame(m)) : t[i] = IF i <= L THEN s[i] ELSE Frame(m)[i - L]
      BY <1>0, ConcatProperties
    <2> HIDE DEF t
    <2>3. ASSUME NEW j \in 1..Len(m) + 2 PROVE t[L + j] = Frame(m)[j]
      <3>1. L + j \in 1 .. L + Len(Frame(m)) /\ ~(L + j <= L) /\ (L + j) - L = j
        BY <1>0
      <3> HIDE DEF L
      <3> QED
        BY <2>2, <3>1
    <2>4. Len(t) = L + 2 + Len(m)
      BY <1>0, <2>1
    <2>5. ASSUME NEW i \in 1..L PROVE t[i] = s[i]
      BY <1>0, <2>2
    <2> QED
      BY <2>1, <2>3, <2>4, <2>5
  <1>2. PICK P : Marks(s, P)
    BY DEF Framed
  <1> HIDE DEF t, L
  <1>3. ASSUME NEW i \in 0..L, NEW x, Sendable(x), At(s, i, x) PROVE At(t, i, x)
    <2>1. Len(x) \in Nat /\ i + 2 + Len(x) <= L
      BY <1>3, FrameIs DEF At, L
    <2>2. ASSUME NEW j \in 1..Len(x) + 2 PROVE t[i + j] = Frame(x)[j]
      <3>1. i + j \in 1..L
        BY <1>0, <2>1
      <3> QED
        BY <1>1, <1>3, <3>1 DEF At
    <2> QED
      BY <1>0, <1>1, <2>1, <2>2 DEF At
  <1>4. At(t, L, m)
    BY <1>1 DEF At
  <1>5. Marks(t, P \cup {Len(t)})
    <2>1. P \cup {Len(t)} \in SUBSET (0..Len(t)) /\ 0 \in P
      <3>1. P \subseteq 0..L /\ 0 \in P
        BY <1>2 DEF Marks, L
      <3>2. 0..L \subseteq 0..Len(t) /\ Len(t) \in 0..Len(t)
        BY <1>0, <1>1
      <3> QED
        BY <3>1, <3>2
    <2>2. ASSUME NEW i \in P, i # Len(t)
          PROVE  \E x : Sendable(x) /\ At(t, i, x) /\ i + 2 + Len(x) \in P \cup {Len(t)}
      <3>1. CASE i = L
        BY <1>0, <1>1, <1>4, <3>1
      <3>2. CASE i # L
        <4>1. PICK x : Sendable(x) /\ At(s, i, x) /\ i + 2 + Len(x) \in P
          BY <1>2, <3>2 DEF Marks, L
        <4>2. i \in 0..L
          BY <1>2 DEF Marks, L
        <4> QED
          BY <1>3, <4>1, <4>2
      <3> QED
        BY <3>1, <3>2
    <2> QED
      BY <2>1, <2>2 DEF Marks
  <1>6. PICK h : InFrames(s) = h[0] /\ Reading(s, h)
    BY InFramesIs
  <1>7. PICK k : InFrames(t) = k[0] /\ Reading(t, k)
    BY <1>1, InFramesIs
  <1> DEFINE Q == {i \in 0..L : k[i] = Append(h[i], m)}
  <1>8. L \in Q
    <2>1. k[L] = <<m>> \o k[Len(t)]
      <3>1. L \in 0..Len(t) /\ L + 2 + Len(m) = Len(t)
        BY <1>0, <1>1
      <3> QED
        BY <1>4, <1>7, <3>1 DEF Reading
    <2>2. k[Len(t)] = <<>> /\ h[L] = <<>>
      BY <1>6, <1>7 DEF Reading, L
    <2> QED
      <3>1. <<m>> \o <<>> = Append(<<>>, m)
        BY <1>0, AppendedFirst
      <3>2. k[L] = Append(h[L], m)
        BY <2>1, <2>2, <3>1
      <3>3. L \in 0..L
        BY <1>0
      <3> QED
        BY <3>2, <3>3
  <1>9. ASSUME NEW i \in P \ {L}, NEW x, Sendable(x), At(s, i, x), i + 2 + Len(x) \in Q PROVE i \in Q
    <2> DEFINE e == i + 2 + Len(x)
    <2>1. i \in 0..L /\ i \in 0..Len(t) /\ e \in 0..L /\ At(t, i, x)
      <3>1. i \in 0..L
        BY <1>2 DEF Marks, L
      <3> QED
        BY <1>0, <1>1, <1>3, <1>9, <3>1
    <2>2. k[i] = <<x>> \o k[e]
      BY <1>7, <1>9, <2>1 DEF Reading
    <2>3. h[i] = <<x>> \o h[e]
      BY <1>6, <1>9, <2>1 DEF Reading, L
    <2>4. k[e] = Append(h[e], m)
      BY <1>9
    <2>5. h[e] \in Seq(Seq(Byte)) /\ x \in Seq(Byte)
      <3>1. x \in Seq(Byte)
        BY <1>9, FrameIs
      <3> QED
        BY <1>6, <2>1, <3>1 DEF Reading, L
    <2> HIDE DEF e
    <2>6. k[i] = Append(h[i], m)
      <3>1. <<x>> \o Append(h[e], m) = Append(<<x>> \o h[e], m)
        BY <1>0, <2>5, Appended
      <3> QED
        BY <2>2, <2>3, <2>4, <3>1
    <2> QED
      BY <2>1, <2>6
  <1>10. P \subseteq Q
    <2>1. Carried(s, P, Q)
      BY <1>8, <1>9 DEF Carried, L
    <2> HIDE DEF Q
    <2> QED
      BY <1>2, <2>1, MarkInduction
  <1>11. InFrames(t) = Append(InFrames(s), m)
    BY <1>2, <1>6, <1>7, <1>10 DEF Marks
  <1> QED
    BY <1>5, <1>11 DEF Framed, t

LEMMA FrameTaken ==
    ASSUME NEW b \in Seq(Byte), Framed(b), b # <<>>
    PROVE  \E m : /\ Sendable(m) /\ At(b, 0, m)
                  /\ Framed(SubSeq(b, Len(m) + 3, Len(b)))
                  /\ InFrames(SubSeq(b, Len(m) + 3, Len(b))) \in Seq(Seq(Byte))
                  /\ InFrames(b) = <<m>> \o InFrames(SubSeq(b, Len(m) + 3, Len(b)))
  <1>1. PICK P : Marks(b, P)
    BY DEF Framed
  <1>2. PICK m : Sendable(m) /\ At(b, 0, m) /\ 0 + 2 + Len(m) \in P
    <2>1. 0 \in P /\ Len(b) # 0
      BY <1>1 DEF Marks
    <2> QED
      BY <1>1, <2>1 DEF Marks
  <1> DEFINE e == Len(m) + 2
             r == SubSeq(b, Len(m) + 3, Len(b))
             N == Len(b) - e
  <1>3. Len(m) \in Nat /\ e \in Nat /\ e >= 2 /\ Len(b) \in Nat /\ e <= Len(b) /\ N \in Nat /\ e \in P /\ m \in Seq(Byte)
    <2>1. Len(m) \in Nat /\ m \in Seq(Byte)
      BY <1>2, FrameIs
    <2>2. 0 + 2 + Len(m) <= Len(b) /\ Len(b) \in Nat
      BY <1>2 DEF At
    <2>3. 0 + 2 + Len(m) = e
      BY <2>1
    <2> QED
      BY <1>2, <2>1, <2>2, <2>3
  <1>4. r \in Seq(Byte) /\ Len(r) = N /\ \A j \in 1..N : r[j] = b[j + e]
    <2>1. Len(m) + 3 \in 1..Len(b) + 1 /\ Len(m) + 3 = e + 1
      BY <1>3
    <2>2. /\ r \in Seq(Byte)
          /\ Len(r) = IF Len(m) + 3 <= Len(b) THEN Len(b) - (Len(m) + 3) + 1 ELSE 0
      BY <1>3, <2>1
    <2>3. ASSUME NEW j \in 1..N PROVE r[j] = b[j + e]
      <3>1. r[j] = b[Len(m) + 3 + j - 1]
        BY <1>3, <2>1
      <3>2. Len(m) + 3 + j - 1 = j + e
        BY <1>3
      <3> HIDE DEF r
      <3> QED
        BY <3>1, <3>2
    <2> HIDE DEF r
    <2> QED
      BY <1>3, <2>2, <2>3
  <1> HIDE DEF e, r, N
  <1>5. ASSUME NEW i \in 0..N, NEW x, Sendable(x)
        PROVE  At(r, i, x) <=> At(b, i + e, x)
    <2>1. Len(x) \in Nat
      BY <1>5, FrameIs
    <2>2. i + 2 + Len(x) <= N <=> i + e + 2 + Len(x) <= Len(b)
      BY <1>3, <2>1 DEF N
    <2>3. ASSUME i + 2 + Len(x) <= N, NEW j \in 1..Len(x) + 2 PROVE r[i + j] = b[i + e + j]
      <3>1. i + j \in 1..N /\ (i + j) + e = i + e + j
        BY <1>3, <2>1, <2>3
      <3>2. r[i + j] = b[(i + j) + e]
        BY <1>4, <3>1
      <3> QED
        BY <3>1, <3>2
    <2> QED
      BY <1>4, <2>2, <2>3 DEF At
  <1> DEFINE R == {i \in 0..N : i + e \in P}
  <1>6. Marks(r, R)
    <2>1. 0 \in R
      BY <1>3
    <2>2. ASSUME NEW i \in R, i # N PROVE \E x : Sendable(x) /\ At(r, i, x) /\ i + 2 + Len(x) \in R
      <3>1. i + e \in P /\ i + e # Len(b)
        BY <1>3, <2>2 DEF N
      <3>2. PICK x : Sendable(x) /\ At(b, i + e, x) /\ i + e + 2 + Len(x) \in P
        BY <1>1, <3>1 DEF Marks
      <3>3. At(r, i, x) /\ Len(x) \in Nat
        BY <1>5, <3>2, FrameIs
      <3>4. i + 2 + Len(x) \in 0..N /\ (i + 2 + Len(x)) + e = i + e + 2 + Len(x)
        BY <1>3, <1>4, <3>3 DEF At
      <3> QED
        BY <3>2, <3>3, <3>4
    <2> QED
      BY <1>4, <2>1, <2>2 DEF Marks
  <1>7. PICK h : InFrames(b) = h[0] /\ Reading(b, h)
    BY InFramesIs
  <1>8. PICK k : InFrames(r) = k[0] /\ Reading(r, k)
    BY <1>4, InFramesIs
  <1> DEFINE Q == {i \in 0..N : k[i] = h[i + e]}
  <1>9. N \in Q
    <2>1. N + e = Len(b) /\ N \in 0..N
      BY <1>3 DEF N
    <2>2. k[N] = <<>> /\ h[Len(b)] = <<>>
      BY <1>4, <1>7, <1>8 DEF Reading
    <2> QED
      BY <2>1, <2>2
  <1>10. ASSUME NEW i \in R \ {N}, NEW x, Sendable(x), At(r, i, x), i + 2 + Len(x) \in Q PROVE i \in Q
    <2> DEFINE f == i + 2 + Len(x)
    <2>1. i + e \in 0..Len(b) /\ f + e = i + e + 2 + Len(x) /\ Len(x) \in Nat
      <3>1. Len(x) \in Nat
        BY <1>10, FrameIs
      <3> QED
        BY <1>3, <3>1 DEF N
    <2>2. At(b, i + e, x)
      BY <1>5, <1>10
    <2>3. k[i] = <<x>> \o k[f]
      BY <1>4, <1>8, <1>10 DEF Reading
    <2>4. h[i + e] = <<x>> \o h[f + e]
      <3>1. h[i + e] = <<x>> \o h[i + e + 2 + Len(x)]
        BY <1>7, <1>10, <2>1, <2>2 DEF Reading
      <3> QED
        BY <2>1, <3>1
    <2>5. k[f] = h[f + e]
      BY <1>10
    <2> HIDE DEF f
    <2> QED
      BY <2>3, <2>4, <2>5
  <1>11. R \subseteq Q
    <2>1. Carried(r, R, Q)
      BY <1>4, <1>9, <1>10 DEF Carried
    <2> HIDE DEF R, Q
    <2> QED
      BY <1>4, <1>6, <2>1, MarkInduction
  <1>12. k[0] = h[e]
    BY <1>3, <1>6, <1>11 DEF Marks
  <1>13. h[0] = <<m>> \o h[e]
    <2>1. 0 \in 0..Len(b) /\ 0 + 2 + Len(m) = e
      BY <1>3 DEF e
    <2>2. h[0] = <<m>> \o h[0 + 2 + Len(m)]
      BY <1>2, <1>7, <2>1 DEF Reading
    <2> QED
      BY <2>1, <2>2
  <1>14. k[0] \in Seq(Seq(Byte))
    BY <1>4, <1>3, <1>8 DEF Reading
  <1> QED
    BY <1>2, <1>6, <1>7, <1>8, <1>12, <1>13, <1>14 DEF Framed, r

-----------------------------------------------------------------------------
(* The invariant: until a call has failed in the middle of a message, what *)
(* is unread is frames of messages, and the length a receiver has read is  *)
(* that of one.                                                            *)

TypeInv ==
    /\ wire \in Seq(Byte) /\ broken \in BOOLEAN
    /\ pc \in {"header", "body"}
    /\ pc = "body" => n \in Nat /\ InRange(n)

StreamInv == TypeInv /\ (~broken => Framed(Unread))

(* The queue that an unbroken stream is.                                   *)
Queued == IF broken THEN <<>> ELSE InFrames(Unread)

LEMMA UnreadType == TypeInv => Unread \in Seq(Byte) /\ (pc = "body" => Len(Unread) = Len(wire) + 2)
  <1> SUFFICES ASSUME TypeInv PROVE Unread \in Seq(Byte) /\ (pc = "body" => Len(Unread) = Len(wire) + 2)
    OBVIOUS
  <1>1. CASE pc = "body"
    <2>1. n \in Nat /\ n < Base * Base
      <3>1. Base * Base \in Nat /\ BUFLEN \in Nat /\ BUFLEN < Base * Base
        BY StreamAssumption
      <3> QED
        BY <1>1, <3>1 DEF TypeInv, InRange
    <2>2. Header(n) \in Seq(Byte) /\ Len(Header(n)) = 2
      BY <2>1, HeaderIs
    <2>3. Header(n) \o wire \in Seq(Byte) /\ Len(Header(n) \o wire) = Len(wire) + 2
      BY <2>2, BehindTwo DEF TypeInv
    <2> QED
      BY <1>1, <2>3 DEF Unread
  <1>2. CASE pc # "body"
    BY <1>2 DEF Unread, TypeInv
  <1> QED
    BY <1>1, <1>2

LEMMA WireGrows ==
    ASSUME TypeInv, NEW m, Sendable(m), wire' = wire \o Frame(m), UNCHANGED <<pc, n>>
    PROVE  /\ wire' \in Seq(Byte)
           /\ Unread' = Unread \o Frame(m)
  <1>1. Frame(m) \in Seq(Byte) /\ wire \in Seq(Byte)
    BY FrameIs DEF TypeInv
  <1>2. CASE pc = "body"
    <2>1. n \in Nat /\ n < Base * Base
      <3>1. Base * Base \in Nat /\ BUFLEN \in Nat /\ BUFLEN < Base * Base
        BY StreamAssumption
      <3> QED
        BY <1>2, <3>1 DEF TypeInv, InRange
    <2>2. Header(n) \in Seq(Byte)
      BY <2>1, HeaderIs
    <2>3. PICK h, w, f : h = Header(n) /\ w = wire /\ f = Frame(m)
      OBVIOUS
    <2>4. (h \o w) \o f = h \o (w \o f)
      BY <1>1, <2>2, <2>3, ConcatAssociative
    <2> QED
      BY <1>1, <1>2, <2>3, <2>4 DEF Unread
  <1>3. CASE pc # "body"
    BY <1>1, <1>3 DEF Unread
  <1> QED
    BY <1>2, <1>3

(* Some message is sent.                                                   *)
LEMMA SendStep ==
    ASSUME StreamInv, Send
    PROVE  StreamInv' /\ (Queue!Put \/ UNCHANGED <<Queued, delivered, broken>>)
  <1>1. PICK m \in Messages : Encodes(m) /\ wire' = wire \o Frame(m)
    BY DEF Send
  <1>2. UNCHANGED <<pc, n, delivered, broken>>
    BY DEF Send, receiver
  <1>3. Sendable(m) /\ TypeInv
    BY <1>1 DEF Sendable, StreamInv
  <1>4. wire' \in Seq(Byte) /\ Unread' = Unread \o Frame(m)
    BY <1>1, <1>2, <1>3, WireGrows
  <1>5. TypeInv'
    BY <1>2, <1>3, <1>4 DEF TypeInv
  <1>6. CASE broken
    BY <1>2, <1>5, <1>6 DEF StreamInv, Queued
  <1>7. CASE ~broken
    <2>1. Framed(Unread) /\ Unread \in Seq(Byte)
      BY <1>3, <1>7, UnreadType DEF StreamInv
    <2>2. Framed(Unread') /\ InFrames(Unread') = Append(InFrames(Unread), m)
      BY <1>3, <1>4, <2>1, FrameAppended
    <2>3. Queue!Put
      BY <1>2, <1>7, <2>2 DEF Queue!Put
    <2> QED
      BY <1>5, <2>2, <2>3 DEF StreamInv
  <1> QED
    BY <1>6, <1>7

(* What is behind the two bytes of a length.                               *)
Parts(s, w, k) ==
    /\ SubSeq(s \o w, k + 3, Len(s \o w)) = SubSeq(w, k + 1, Len(w))
    /\ SubSeq(s \o w, 3, k + 2) = SubSeq(w, 1, k)
    /\ SubSeq(s \o w, 1, 2) = s

LEMMA PartsOfConcat ==
    ASSUME NEW S, NEW s \in Seq(S), NEW w \in Seq(S), Len(s) = 2, NEW k \in 0..Len(w)
    PROVE  Parts(s, w, k)
  <1> DEFINE b == s \o w
  <1>0. Len(w) \in Nat /\ k \in Nat
    OBVIOUS
  <1>1. /\ b \in Seq(S) /\ Len(b) = Len(w) + 2
        /\ \A j \in 1..2 : b[j] = s[j]
        /\ \A j \in 1..Len(w) : b[j + 2] = w[j]
    BY BehindTwo
  <1> HIDE DEF b
  <1>2. SubSeq(b, k + 3, Len(b)) = SubSeq(w, k + 1, Len(w))
    <2> DEFINE x == SubSeq(b, k + 3, Len(b))
               y == SubSeq(w, k + 1, Len(w))
    <2>1. /\ x \in Seq(S) /\ Len(x) = Len(w) - k
          /\ \A j \in 1..Len(w) - k : x[j] = b[k + 3 + j - 1]
      BY <1>0, <1>1, SubSeqProperties
    <2>2. /\ y \in Seq(S) /\ Len(y) = Len(w) - k
          /\ \A j \in 1..Len(w) - k : y[j] = w[k + 1 + j - 1]
      BY <1>0, SubSeqProperties
    <2> HIDE DEF x, y
    <2>3. ASSUME NEW j \in 1..Len(w) - k PROVE x[j] = y[j]
      <3>1. k + j \in 1..Len(w) /\ k + 3 + j - 1 = (k + j) + 2 /\ k + 1 + j - 1 = k + j
        BY <1>0
      <3> QED
        BY <1>1, <2>1, <2>2, <3>1
    <2>4. x = y
      BY <2>1, <2>2, <2>3
    <2> QED
      BY <2>4 DEF x, y
  <1>3. SubSeq(b, 3, k + 2) = SubSeq(w, 1, k)
    <2> DEFINE x == SubSeq(b, 3, k + 2)
               y == SubSeq(w, 1, k)
    <2>1. x \in Seq(S) /\ Len(x) = k /\ \A j \in 1..k : x[j] = b[3 + j - 1]
      BY <1>0, <1>1, SubSeqProperties
    <2>2. y \in Seq(S) /\ Len(y) = k /\ \A j \in 1..k : y[j] = w[1 + j - 1]
      BY <1>0, SubSeqProperties
    <2> HIDE DEF x, y
    <2>3. ASSUME NEW j \in 1..k PROVE x[j] = y[j]
      <3>1. j \in 1..Len(w) /\ 3 + j - 1 = j + 2 /\ 1 + j - 1 = j
        BY <1>0
      <3> QED
        BY <1>1, <2>1, <2>2, <3>1
    <2>4. x = y
      BY <2>1, <2>2, <2>3
    <2> QED
      BY <2>4 DEF x, y
  <1>4. SubSeq(b, 1, 2) = s
    <2> DEFINE x == SubSeq(b, 1, 2)
    <2>1. x \in Seq(S) /\ Len(x) = 2 /\ \A j \in 1..2 : x[j] = b[1 + j - 1]
      BY <1>0, <1>1, SubSeqProperties
    <2> HIDE DEF x
    <2>2. \A j \in 1..2 : x[j] = s[j]
      BY <1>1, <2>1
    <2>3. x = s
      BY <2>1, <2>2
    <2> QED
      BY <2>3 DEF x
  <1> QED
    BY <1>2, <1>3, <1>4 DEF b, Parts

LEMMA HeaderComesFirst ==
    ASSUME NEW b \in Seq(Byte), NEW m, Sendable(m), At(b, 0, m)
    PROVE  /\ Len(b) >= 2 /\ Length(b) = Len(m)
           /\ Header(Len(m)) \o SubSeq(b, 3, Len(b)) = b
  <1> DEFINE hd == Header(Len(m))
             r == SubSeq(b, 3, Len(b))
             c == hd \o r
  <1>0. Len(m) \in Nat /\ Len(m) < Base * Base /\ \A j \in 1..2 : Frame(m)[j] = hd[j]
    BY FrameIs
  <1>1. hd \in Seq(Byte) /\ Len(hd) = 2 /\ Length(hd) = Len(m)
    BY <1>0, HeaderIs
  <1>2. Len(b) \in Nat /\ Len(b) >= 2 /\ \A j \in 1..2 : b[j] = Frame(m)[j]
    <2>1. 0 + 2 + Len(m) <= Len(b) /\ Len(b) \in Nat
      BY DEF At
    <2>2. ASSUME NEW j \in 1..2 PROVE b[j] = Frame(m)[j]
      <3>1. j \in 1..Len(m) + 2 /\ 0 + j = j
        BY <1>0
      <3> QED
        BY <3>1 DEF At
    <2> QED
      BY <1>0, <2>1, <2>2
  <1>3. Length(b) = Len(m)
    BY <1>0, <1>1, <1>2 DEF Length
  <1>4. /\ r \in Seq(Byte) /\ Len(r) = Len(b) - 2
        /\ \A j \in 1..Len(b) - 2 : r[j] = b[3 + j - 1]
    <2>1. 3 \in 1..Len(b) + 1 /\ Len(b) \in 3 - 1..Len(b) /\ Len(b) - 3 + 1 = Len(b) - 2
      BY <1>2
    <2>2. r \in Seq(Byte) /\ Len(r) = Len(b) - 3 + 1 /\ \A j \in 1..Len(b) - 3 + 1 : r[j] = b[3 + j - 1]
      BY <2>1, SubSeqProperties
    <2> HIDE DEF r
    <2> QED
      BY <2>1, <2>2
  <1> HIDE DEF hd, r
  <1>5. /\ c \in Seq(Byte) /\ Len(c) = Len(r) + 2
        /\ \A j \in 1..2 : c[j] = hd[j]
        /\ \A j \in 1..Len(r) : c[j + 2] = r[j]
    BY <1>1, <1>4, BehindTwo
  <1> HIDE DEF c
  <1>6. ASSUME NEW i \in 1..Len(b) PROVE c[i] = b[i]
    <2>1. CASE i \in 1..2
      BY <1>0, <1>2, <1>5, <2>1
    <2>2. CASE i \notin 1..2
      <3>1. i - 2 \in 1..Len(r) /\ (i - 2) + 2 = i /\ 3 + (i - 2) - 1 = i
        BY <1>2, <1>4, <2>2
      <3>2. c[(i - 2) + 2] = r[i - 2] /\ r[i - 2] = b[3 + (i - 2) - 1]
        BY <1>4, <1>5, <3>1
      <3> QED
        BY <3>1, <3>2
    <2> QED
      BY <2>1, <2>2
  <1>7. c = b
    BY <1>2, <1>4, <1>5, <1>6
  <1> QED
    BY <1>2, <1>3, <1>7 DEF c, hd, r

LEMMA DecodedIs ==
    ASSUME NEW m, Sendable(m)
    PROVE  /\ m \in Understood => Decoded(m) = {m}
           /\ m \notin Understood => Decoded(m) = {}
  <1>1. m \in Messages /\ m # <<>>
    BY FrameIs DEF Sendable, InRange
  <1>2. \A x \in Understood : x \in Messages \ {<<>>} /\ (IsPrefix(x, m) => x = m)
    BY <1>1, StreamAssumption
  <1>3. IsPrefix(m, m)
    BY <1>1, FrameIs DEF IsPrefix
  <1> QED
    BY <1>2, <1>3 DEF Decoded

(* A length that was read is that of the message behind it.                *)
LEMMA RecvHeaderStep ==
    ASSUME StreamInv, RecvHeader
    PROVE  StreamInv' /\ UNCHANGED <<Queued, delivered, broken>>
  <1>0. /\ pc = "header" /\ Len(wire) >= 2
        /\ wire' = SubSeq(wire, 3, Len(wire))
        /\ n' = Length(wire)
        /\ IF InRange(n') THEN pc' = "body" /\ UNCHANGED broken
           ELSE broken' = TRUE /\ UNCHANGED pc
        /\ delivered' = delivered
    BY DEF RecvHeader, read
  <1>1. wire \in Seq(Byte) /\ wire' \in Seq(Byte) /\ n' \in Nat
    <2>1. wire \in Seq(Byte) /\ Len(wire) \in Nat
      BY DEF StreamInv, TypeInv
    <2>2. wire' \in Seq(Byte)
      BY <1>0, <2>1
    <2>3. wire[1] \in Byte /\ wire[2] \in Byte
      BY <1>0, <2>1
    <2>4. wire[1] \in Nat /\ wire[2] \in Nat /\ Base \in Nat
      BY <2>3, StreamAssumption DEF Byte
    <2>5. wire[1] * Base + wire[2] \in Nat
      BY <2>4
    <2> QED
      BY <1>0, <2>1, <2>2, <2>5 DEF Length
  <1>2. TypeInv'
    BY <1>0, <1>1 DEF StreamInv, TypeInv
  <1>3. CASE broken
    BY <1>0, <1>2, <1>3 DEF StreamInv, Queued
  <1>4. CASE ~broken
    <2>1. Unread = wire /\ Framed(wire) /\ wire # <<>>
      BY <1>0, <1>4 DEF StreamInv, Unread
    <2>2. PICK m : Sendable(m) /\ At(wire, 0, m)
      BY <1>1, <2>1, FrameTaken
    <2>3. Length(wire) = Len(m) /\ Header(Len(m)) \o SubSeq(wire, 3, Len(wire)) = wire
      BY <1>1, <2>2, HeaderComesFirst
    <2>4. InRange(Len(m))
      BY <2>2, FrameIs
    <2>5. pc' = "body" /\ broken' = broken /\ Unread' = Header(n') \o wire'
      BY <1>0, <2>3, <2>4 DEF Unread
    <2>6. Unread' = Unread
      BY <1>0, <2>1, <2>3, <2>5
    <2> QED
      BY <1>0, <1>2, <2>1, <2>5, <2>6 DEF StreamInv, Queued
  <1> QED
    BY <1>3, <1>4

(* A message is taken off the wire.                                        *)
LEMMA RecvBodyStep ==
    ASSUME StreamInv, RecvBody
    PROVE  StreamInv' /\ (Queue!Take \/ Queue!Broken \/ UNCHANGED <<Queued, delivered, broken>>)
  <1> DEFINE got == Decoded(SubSeq(wire, 1, n))
  <1>0. /\ pc = "body" /\ Len(wire) >= n
        /\ wire' = SubSeq(wire, n + 1, Len(wire))
        /\ pc' = "header" /\ broken' = broken
        /\ delivered' = IF got = {} THEN delivered ELSE Append(delivered, CHOOSE m \in got : TRUE)
    BY DEF RecvBody, read
  <1>1. wire \in Seq(Byte) /\ n \in Nat /\ n < Base * Base /\ Len(wire) \in Nat
    <2>1. Base * Base \in Nat /\ BUFLEN \in Nat /\ BUFLEN < Base * Base
      BY StreamAssumption
    <2> QED
      BY <1>0, <2>1 DEF StreamInv, TypeInv, InRange
  <1>2. TypeInv'
    <2>1. wire' \in Seq(Byte)
      BY <1>0, <1>1
    <2> QED
      BY <1>0, <2>1 DEF StreamInv, TypeInv
  <1>3. CASE broken
    <2>1. got \subseteq Messages
      BY StreamAssumption DEF Decoded
    <2>2. CASE got = {}
      BY <1>0, <1>2, <1>3, <2>2 DEF StreamInv, Queued
    <2>3. CASE got # {}
      <3>1. (CHOOSE m \in got : TRUE) \in Messages
        BY <2>1, <2>3
      <3>2. Queue!Broken
        BY <1>0, <1>3, <2>3, <3>1 DEF Queue!Broken
      <3> QED
        BY <1>0, <1>2, <1>3, <3>2 DEF StreamInv
    <2> QED
      BY <2>2, <2>3
  <1>4. CASE ~broken
    <2> DEFINE b == Unread
    <2>1. b = Header(n) \o wire /\ b \in Seq(Byte) /\ Framed(b) /\ Len(b) = Len(wire) + 2
      BY <1>0, <1>4, UnreadType DEF StreamInv, Unread
    <2>2. PICK m : /\ Sendable(m) /\ At(b, 0, m)
                   /\ Framed(SubSeq(b, Len(m) + 3, Len(b)))
                   /\ InFrames(SubSeq(b, Len(m) + 3, Len(b))) \in Seq(Seq(Byte))
                   /\ InFrames(b) = <<m>> \o InFrames(SubSeq(b, Len(m) + 3, Len(b)))
      <3>1. b # <<>>
        BY <1>1, <2>1
      <3> HIDE DEF b
      <3> QED
        BY <2>1, <3>1, FrameTaken
    <2>3. Header(n) \in Seq(Byte) /\ Len(Header(n)) = 2 /\ Length(Header(n)) = n
      BY <1>1, HeaderIs
    <2>4. Length(SubSeq(b, 1, 2)) = Len(m) /\ SubSeq(b, 3, 2 + Len(m)) = m
      <3>1. 0 \in 0..Len(b)
        BY <1>1, <2>1
      <3>2. /\ Length(SubSeq(b, 0 + 1, 0 + 2)) = Len(m)
            /\ SubSeq(b, 0 + 3, 0 + 2 + Len(m)) = m
        <4> HIDE DEF b
        <4> QED
          BY <2>1, <2>2, <3>1, AtIs
      <3>3. Len(m) \in Nat /\ 0 + 1 = 1 /\ 0 + 2 = 2 /\ 0 + 3 = 3 /\ 0 + 2 + Len(m) = 2 + Len(m)
        BY <2>2, FrameIs
      <3> QED
        BY <3>2, <3>3
    <2>5. /\ SubSeq(b, n + 3, Len(b)) = SubSeq(wire, n + 1, Len(wire))
          /\ SubSeq(b, 3, n + 2) = SubSeq(wire, 1, n)
          /\ SubSeq(b, 1, 2) = Header(n)
      <3>1. n \in 0..Len(wire)
        BY <1>0, <1>1
      <3>2. PICK s \in Seq(Byte) : s = Header(n) /\ Len(s) = 2
        BY <2>3
      <3>3. Parts(s, wire, n)
        BY <1>1, <3>1, <3>2, PartsOfConcat
      <3>4. b = s \o wire
        BY <2>1, <3>2
      <3> HIDE DEF b
      <3> QED
        BY <3>2, <3>3, <3>4 DEF Parts
    <2> HIDE DEF b
    <2>6. n = Len(m)
      BY <2>3, <2>4, <2>5
    <2>7. SubSeq(b, Len(m) + 3, Len(b)) = wire' /\ SubSeq(wire, 1, n) = m
      <3>1. 2 + Len(m) = n + 2
        BY <1>1, <2>6
      <3> QED
        BY <1>0, <2>4, <2>5, <2>6, <3>1
    <2>8. Unread' = wire'
      BY <1>0 DEF Unread
    <2>9. Framed(wire') /\ InFrames(wire') \in Seq(Seq(Byte)) /\ InFrames(b) = <<m>> \o InFrames(wire')
      BY <2>2, <2>7
    <2>10. m \in Seq(Byte)
      BY <2>2, FrameIs
    <2>11. InFrames(b) # <<>> /\ Head(InFrames(b)) = m /\ Tail(InFrames(b)) = InFrames(wire')
      BY <2>9, <2>10
    <2>12. delivered' = IF m \in Understood THEN Append(delivered, m) ELSE delivered
      <3>1. CASE m \in Understood
        <4>1. got = {m}
          BY <2>2, <2>7, <3>1, DecodedIs
        <4>2. (CHOOSE x \in got : TRUE) = m
          BY <4>1
        <4> QED
          BY <1>0, <3>1, <4>1, <4>2
      <3>2. CASE m \notin Understood
        BY <1>0, <2>2, <2>7, <3>2, DecodedIs
      <3> QED
        BY <3>1, <3>2
    <2>13. Queue!Take
      BY <1>0, <1>4, <2>8, <2>11, <2>12 DEF Queue!Take, Understands, b
    <2> QED
      BY <1>2, <2>8, <2>9, <2>13 DEF StreamInv
  <1> QED
    BY <1>3, <1>4

(* A broken connection promises nothing.                                   *)
LEMMA BreakStep ==
    ASSUME StreamInv, TypeInv', broken', delivered' = delivered
    PROVE  StreamInv' /\ (Queue!Break \/ UNCHANGED <<Queued, delivered, broken>>)
  <1>1. broken' = TRUE
    BY DEF StreamInv, TypeInv
  <1>2. Queue!Break
    BY <1>1 DEF Queue!Break
  <1> QED
    BY <1>1, <1>2 DEF StreamInv

(* Nothing of what is unread is moved.                                     *)
LEMMA IdleStep ==
    ASSUME StreamInv, UNCHANGED <<wire, pc, n, broken, delivered>>
    PROVE  StreamInv' /\ UNCHANGED <<Queued, delivered, broken>>
  <1>1. Unread' = Unread
    BY DEF Unread
  <1>2. Queued' = Queued
    BY <1>1 DEF Queued
  <1>3. TypeInv'
    BY DEF StreamInv, TypeInv
  <1> QED
    BY <1>1, <1>2, <1>3 DEF StreamInv

LEMMA ShortWriteStep ==
    ASSUME StreamInv, ShortWrite
    PROVE  StreamInv' /\ (Queue!Break \/ UNCHANGED <<Queued, delivered, broken>>)
  <1>1. PICK m \in Messages, i \in 0 .. BUFLEN :
           /\ Encodes(m) /\ i < Len(Frame(m))
           /\ wire' = wire \o SubSeq(Frame(m), 1, i)
           /\ broken' = (broken \/ i > 0)
    BY DEF ShortWrite
  <1>2. UNCHANGED <<pc, n, delivered>>
    BY DEF ShortWrite, receiver
  <1>3. wire \in Seq(Byte) /\ broken \in BOOLEAN /\ i \in Nat
    BY <1>1, StreamAssumption DEF StreamInv, TypeInv
  <1>4. Frame(m) \in Seq(Byte) /\ Len(Frame(m)) \in Nat
    BY <1>1, FrameIs DEF Sendable
  <1>5. SubSeq(Frame(m), 1, i) \in Seq(Byte) /\ Len(SubSeq(Frame(m), 1, i)) = i
    <2> DEFINE f == Frame(m)
    <2>1. 1 \in 1..Len(f) + 1 /\ i \in 1 - 1..Len(f) /\ i - 1 + 1 = i
      BY <1>1, <1>3, <1>4
    <2> HIDE DEF f
    <2>2. f \in Seq(Byte)
      BY <1>4 DEF f
    <2>3. SubSeq(f, 1, i) \in Seq(Byte) /\ Len(SubSeq(f, 1, i)) = i - 1 + 1
      BY <2>1, <2>2, SubSeqProperties
    <2> QED
      BY <2>1, <2>3 DEF f
  <1>6. wire' \in Seq(Byte)
    BY <1>1, <1>3, <1>5
  <1>7. CASE i > 0
    <2>1. broken' = TRUE
      BY <1>1, <1>7
    <2>2. TypeInv'
      BY <1>2, <1>6, <2>1 DEF StreamInv, TypeInv
    <2> QED
      BY <1>2, <2>1, <2>2, BreakStep
  <1>8. CASE i = 0
    <2>1. SubSeq(Frame(m), 1, i) = <<>>
      BY <1>5, <1>8
    <2>2. wire' = wire /\ broken' = broken
      BY <1>1, <1>3, <1>8, <2>1
    <2> QED
      BY <1>2, <2>2, IdleStep
  <1> QED
    BY <1>3, <1>7, <1>8

LEMMA LessIsRead ==
    ASSUME NEW S, NEW w \in Seq(S), NEW i \in 0 .. Len(w)
    PROVE  SubSeq(w, i + 1, Len(w)) \in Seq(S) /\ (i = 0 => SubSeq(w, i + 1, Len(w)) = w)
  <1>1. Len(w) \in Nat /\ i + 1 \in 1..Len(w) + 1 /\ Len(w) \in (i + 1) - 1..Len(w)
    OBVIOUS
  <1>2. SubSeq(w, i + 1, Len(w)) \in Seq(S)
    BY <1>1, SubSeqProperties
  <1>3. SubSeq(w, 1, Len(w)) = w
    OBVIOUS
  <1> QED
    BY <1>2, <1>3

LEMMA RecvHeaderFailsStep ==
    ASSUME StreamInv, RecvHeaderFails
    PROVE  StreamInv' /\ (Queue!Break \/ UNCHANGED <<Queued, delivered, broken>>)
  <1>1. PICK i \in {0, 1} :
           /\ i <= Len(wire) /\ wire' = SubSeq(wire, i + 1, Len(wire))
           /\ broken' = (broken \/ i > 0)
    BY DEF RecvHeaderFails, read
  <1>2. UNCHANGED <<pc, n, delivered>>
    BY DEF RecvHeaderFails
  <1>3. wire \in Seq(Byte) /\ broken \in BOOLEAN /\ i \in 0 .. Len(wire)
    BY <1>1 DEF StreamInv, TypeInv
  <1>4. wire' \in Seq(Byte) /\ (i = 0 => wire' = wire)
    BY <1>1, <1>3, LessIsRead
  <1>5. CASE i = 1
    <2>1. broken' = TRUE
      <3>1. i > 0
        BY <1>5
      <3> QED
        BY <1>1, <3>1
    <2>2. TypeInv'
      BY <1>2, <1>4, <2>1 DEF StreamInv, TypeInv
    <2> QED
      BY <1>2, <2>1, <2>2, BreakStep
  <1>6. CASE i = 0
    <2>1. wire' = wire /\ broken' = broken
      BY <1>1, <1>3, <1>4, <1>6
    <2> QED
      BY <1>2, <2>1, IdleStep
  <1> QED
    BY <1>5, <1>6

LEMMA RecvBodyFailsStep ==
    ASSUME StreamInv, RecvBodyFails
    PROVE  StreamInv' /\ (Queue!Break \/ UNCHANGED <<Queued, delivered, broken>>)
  <1>1. PICK i \in 0 .. BUFLEN : i <= Len(wire) /\ wire' = SubSeq(wire, i + 1, Len(wire))
    BY DEF RecvBodyFails, read
  <1>2. pc' = "header" /\ broken' = TRUE /\ delivered' = delivered
    BY DEF RecvBodyFails
  <1>3. wire \in Seq(Byte) /\ i \in 0 .. Len(wire)
    BY <1>1 DEF StreamInv, TypeInv
  <1>4. wire' \in Seq(Byte)
    BY <1>1, <1>3, LessIsRead
  <1>5. TypeInv'
    BY <1>2, <1>4 DEF TypeInv
  <1> QED
    BY <1>2, <1>5, BreakStep

(* Every step of the stream is one of the queue, or none.                  *)
LEMMA StreamStep ==
    ASSUME StreamInv, [Next]_vars
    PROVE  StreamInv' /\ (Queue!Next \/ UNCHANGED <<Queued, delivered, broken>>)
  <1>1. CASE Send
    BY <1>1, SendStep DEF Queue!Next
  <1>2. CASE CannotEncode \/ Delete \/ RecvEnd \/ UNCHANGED vars
    <2>1. UNCHANGED <<wire, pc, n, broken, delivered>>
      BY <1>2 DEF CannotEncode, Delete, RecvEnd, vars, receiver
    <2> QED
      BY <2>1, IdleStep
  <1>3. CASE ShortWrite
    BY <1>3, ShortWriteStep DEF Queue!Next
  <1>4. CASE RecvHeader
    BY <1>4, RecvHeaderStep
  <1>5. CASE RecvBody
    BY <1>5, RecvBodyStep DEF Queue!Next
  <1>6. CASE RecvHeaderFails
    BY <1>6, RecvHeaderFailsStep DEF Queue!Next
  <1>7. CASE RecvBodyFails
    BY <1>7, RecvBodyFailsStep DEF Queue!Next
  <1> QED
    BY <1>1, <1>2, <1>3, <1>4, <1>5, <1>6, <1>7 DEF Next, Recv

LEMMA StreamStarts == Init => StreamInv /\ Queue!Init
  <1> SUFFICES ASSUME Init PROVE StreamInv /\ Queue!Init
    OBVIOUS
  <1>1. /\ wire = <<>> /\ pc = "header" /\ broken = FALSE /\ delivered = <<>>
        /\ Unread = <<>>
    BY DEF Init, Unread
  <1>2. Framed(<<>>) /\ InFrames(<<>>) = <<>>
    BY NothingIsFramed
  <1>3. TypeInv
    <2>0. <<>> \in Seq(Byte)
      OBVIOUS
    <2>1. wire \in Seq(Byte)
      BY <1>1, <2>0, Zenon
    <2>2. broken \in BOOLEAN
      BY <1>1, Zenon
    <2> QED
      BY <1>1, <2>1, <2>2 DEF TypeInv
  <1>4. Queue!Init
    BY <1>1, <1>2 DEF Queue!Init
  <1> QED
    BY <1>1, <1>2, <1>3, <1>4 DEF StreamInv

(* Until a call fails in the middle of a message, what is between the      *)
(* receiver and the end of the connection is whole frames of messages, and *)
(* the length in n is that of the first of them, however often calls have  *)
(* failed before a first byte or behind a last one.                        *)
THEOREM PlaceIsKept == Spec => []StreamInv
  <1>1. StreamInv /\ [Next]_vars => StreamInv'
    BY StreamStep
  <1> QED
    BY <1>1, StreamStarts, PTL DEF Spec

(* The two functions of xdr_stream.c implement the queue of messages:      *)
(* every message that was sent is received once, in order and whole, for   *)
(* all sets of messages and lengths of the buffer.                         *)
THEOREM MessagesAreQueued == Spec => ImplementsMessageQueue
  <1>1. Init => Queue!Init
    BY StreamStarts
  <1>2. StreamInv /\ [Next]_vars => [Queue!Next]_<<Queued, delivered, broken>>
    BY StreamStep
  <1> QED
    BY <1>1, <1>2, PlaceIsKept, PTL DEF Spec, ImplementsMessageQueue, Queue!Spec, Queued
=============================================================================
