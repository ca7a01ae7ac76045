--------------------------- MODULE XdrXmlTree_proofs ---------------------------
(***************************************************************************)
(* Lemmas about the tree behind an XML stream, for heaps of any size: what *)
(* Children and PathTo are, what is below a node, and what a new node, a   *)
(* value or a free changes.                                                *)
(***************************************************************************)
EXTENDS XdrXmlTree, FiniteSetTheorems, SequenceTheorems, TLAPS

-----------------------------------------------------------------------------
(* Functions that are defined along a chain: each element of a set D names *)
(* the one behind it, and every chain ends, at z or outside of D. What a   *)
(* list of nodes or the way up to a root is is such a function; it exists, *)
(* and its equation determines it.                                         *)

(* No chain goes on in D for ever.                                         *)
Ends(D, nx) == \A S \in SUBSET D : S # {} => \E m \in S : nx[m] \notin S

(* What holds at z, and of every element if of the one behind it, holds of *)
(* every element.                                                          *)
Inherited(D, z, nx, P) == z \in P /\ \A m \in D : nx[m] \in P => m \in P

LEMMA ChainInduction ==
    ASSUME NEW D, NEW z, NEW nx \in [D -> D \cup {z}], Ends(D, nx),
           NEW P, Inherited(D, z, nx, P)
    PROVE  D \subseteq P
  <1> DEFINE S == D \ P
  <1>1. \A m \in S : nx[m] \in S
    BY DEF Inherited
  <1>2. S = {}
    BY <1>1 DEF Ends
  <1> QED
    BY <1>2

(* A value that comes with each element: e at z, and what g makes of the   *)
(* element and of the value of the one behind it.                          *)
Along(D, z, nx, e, g, f) == f[z] = e /\ \A m \in D : f[m] = g[<<m, f[nx[m]]>>]

LEMMA ChainRecursion ==
    ASSUME NEW D, NEW z, z \notin D, NEW nx \in [D -> D \cup {z}], Ends(D, nx),
           NEW V, NEW e \in V, NEW g \in [D \X V -> V]
    PROVE  \E f \in [D \cup {z} -> V] : Along(D, z, nx, e, g, f)
  <1> DEFINE Pairs == (D \cup {z}) \X V
             Full(R) == <<z, e>> \in R /\ \A m \in D, v \in V : <<nx[m], v>> \in R => <<m, g[<<m, v>>]>> \in R
             G == {p \in Pairs : \A R \in SUBSET Pairs : Full(R) => p \in R}
  <1>1. \A m \in D, v \in V : g[<<m, v>>] \in V
    OBVIOUS
  <1>2. <<z, e>> \in G
    OBVIOUS
  <1>3. \A m \in D, v \in V : <<nx[m], v>> \in G => <<m, g[<<m, v>>]>> \in G
    <2> TAKE m \in D, v \in V
    <2> HAVE <<nx[m], v>> \in G
    <2>1. <<m, g[<<m, v>>]>> \in Pairs
      BY <1>1
    <2>2. ASSUME NEW R \in SUBSET Pairs, Full(R) PROVE <<m, g[<<m, v>>]>> \in R
      <3>1. <<nx[m], v>> \in R
        BY <2>2
      <3> QED
        BY <2>2, <3>1
    <2> QED
      BY <2>1, <2>2
  <1>4. ASSUME NEW v \in V, <<z, v>> \in G PROVE v = e
    <2> SUFFICES ASSUME v # e PROVE FALSE
      OBVIOUS
    <2> DEFINE R == G \ {<<z, v>>}
    <2>1. Full(R)
      <3>1. <<z, e>> \in R
        BY <1>2
      <3>2. ASSUME NEW m \in D, NEW w \in V, <<nx[m], w>> \in R PROVE <<m, g[<<m, w>>]>> \in R
        <4>1. <<m, g[<<m, w>>]>> \in G
          BY <1>3, <3>2
        <4> QED
          BY <4>1
      <3> QED
        BY <3>1, <3>2
    <2>2. R \in SUBSET Pairs
      OBVIOUS
    <2>3. <<z, v>> \in R
      BY <1>4, <2>1, <2>2
    <2> QED
      BY <2>3
  <1>5. ASSUME NEW m \in D, NEW w \in V, <<m, w>> \in G
        PROVE  \E v \in V : <<nx[m], v>> \in G /\ w = g[<<m, v>>]
    <2> SUFFICES ASSUME \A v \in V : <<nx[m], v>> \in G => w # g[<<m, v>>] PROVE FALSE
      OBVIOUS
    <2> DEFINE R == G \ {<<m, w>>}
    <2>1. Full(R)
      <3>1. <<z, e>> \in R
        BY <1>2
      <3>2. ASSUME NEW k \in D, NEW v \in V, <<nx[k], v>> \in R PROVE <<k, g[<<k, v>>]>> \in R
        <4>1. <<k, g[<<k, v>>]>> \in G /\ <<nx[k], v>> \in G
          BY <1>3, <3>2
        <4> QED
          BY <4>1
      <3> HIDE DEF R
      <3> QED
        BY <3>1, <3>2
    <2>2. R \in SUBSET Pairs
      OBVIOUS
    <2>3. <<m, w>> \in R
      BY <1>5, <2>1, <2>2
    <2> QED
      BY <2>3
  <1> HIDE DEF G
  <1>6. ASSUME NEW m \in D \cup {z} PROVE \E v \in V : <<m, v>> \in G
    <2> DEFINE P == {k \in D \cup {z} : \E v \in V : <<k, v>> \in G}
    <2>1. z \in P
      BY <1>2
    <2>2. \A k \in D : nx[k] \in P => k \in P
      BY <1>1, <1>3
    <2>3. D \subseteq P
      <3> HIDE DEF P
      <3> QED
        BY <2>1, <2>2, ChainInduction DEF Inherited
    <2> QED
      BY <2>1, <2>3
  <1>7. ASSUME NEW m \in D \cup {z}, NEW v \in V, NEW w \in V, <<m, v>> \in G, <<m, w>> \in G PROVE v = w
    <2> DEFINE P == {k \in D \cup {z} : \A a, b \in V : <<k, a>> \in G /\ <<k, b>> \in G => a = b}
    <2>1. z \in P
      BY <1>4
    <2>2. ASSUME NEW k \in D, nx[k] \in P PROVE k \in P
      <3> SUFFICES ASSUME NEW a \in V, NEW b \in V, <<k, a>> \in G, <<k, b>> \in G PROVE a = b
        OBVIOUS
      <3>1. PICK a0 \in V : <<nx[k], a0>> \in G /\ a = g[<<k, a0>>]
        BY <1>5
      <3>2. PICK b0 \in V : <<nx[k], b0>> \in G /\ b = g[<<k, b0>>]
        BY <1>5
      <3>3. a0 = b0
        BY <2>2, <3>1, <3>2
      <3> QED
        BY <3>1, <3>2, <3>3
    <2>3. D \subseteq P
      <3> HIDE DEF P
      <3> QED
        BY <2>1, <2>2, ChainInduction DEF Inherited
    <2>4. m \in P
      BY <2>1, <2>3
    <2> QED
      BY <1>7, <2>4
  <1> DEFINE f == [m \in D \cup {z} |-> CHOOSE v \in V : <<m, v>> \in G]
  <1>8. \A m \in D \cup {z} : f[m] \in V /\ <<m, f[m]>> \in G
    BY <1>6
  <1>9. f \in [D \cup {z} -> V]
    BY <1>8
  <1>10. f[z] = e
    BY <1>4, <1>8
  <1>11. ASSUME NEW m \in D PROVE f[m] = g[<<m, f[nx[m]]>>]
    <2>1. nx[m] \in D \cup {z}
      OBVIOUS
    <2> DEFINE v == f[nx[m]]
    <2>2. v \in V /\ <<nx[m], v>> \in G
      BY <1>8, <2>1
    <2>3. <<m, g[<<m, v>>]>> \in G /\ g[<<m, v>>] \in V
      BY <1>1, <1>3, <2>2
    <2>4. f[m] \in V /\ <<m, f[m]>> \in G
      BY <1>8
    <2> HIDE DEF f, v
    <2>5. f[m] = g[<<m, v>>]
      BY <1>7, <2>3, <2>4
    <2> QED
      BY <2>5 DEF v
  <1> HIDE DEF f
  <1> QED
    BY <1>9, <1>10, <1>11 DEF Along

(* Two functions that agree at z and on every element, if on the one behind*)
(* it, agree.                                                              *)
Agreeing(D, z, nx, f, h) == f[z] = h[z] /\ \A m \in D : f[nx[m]] = h[nx[m]] => f[m] = h[m]
Alike(D, z, f, h) == \A m \in D \cup {z} : f[m] = h[m]

LEMMA ChainUnique ==
    ASSUME NEW D, NEW z, NEW nx \in [D -> D \cup {z}], Ends(D, nx),
           NEW f, NEW h, Agreeing(D, z, nx, f, h)
    PROVE  Alike(D, z, f, h)
  <1> DEFINE P == {m \in D \cup {z} : f[m] = h[m]}
  <1>1. z \in P
    BY DEF Agreeing
  <1>2. Inherited(D, z, nx, P)
    BY DEF Inherited, Agreeing
  <1>3. D \subseteq P
    <2> HIDE DEF P
    <2> QED
      BY <1>2, ChainInduction
  <1> QED
    BY <1>1, <1>3 DEF Alike

-----------------------------------------------------------------------------
(* A set of numbers with a bound has a least one, and a chain through it   *)
(* that only rises ends.                                                   *)

LEMMA LeastExists ==
    ASSUME NEW k \in Nat, NEW Gap \in SUBSET (1..k), Gap # {}
    PROVE  \E id \in Gap : \A j \in Gap : id <= j
  <1> DEFINE N == 1..k
             Upto == { 1..j : j \in Gap }
  <1>1. IsWellFoundedOn(StrictSubsetOrdering(N), SUBSET N)
    <2>1. IsFiniteSet(N)
      BY FS_Interval
    <2> QED
      BY <2>1, FS_StrictSubsetOrderingWellFounded, FS_FiniteSubsetsOfFinite
  <1>2. Upto \subseteq SUBSET N /\ Upto # {}
    <2>1. \A j \in Gap : 1..j \in SUBSET N
      OBVIOUS
    <2> QED
      BY <2>1
  <1>3. PICK X \in Upto : \A Y \in Upto : <<Y, X>> \notin StrictSubsetOrdering(N)
    <2> HIDE DEF N, Upto
    <2> QED
      BY <1>1, <1>2, WFMin
  <1>4. PICK id \in Gap : X = 1..id
    BY <1>3
  <1>5. ASSUME NEW j \in Gap, j < id PROVE FALSE
    <2>1. 1..j \subseteq 1..id /\ 1..j # 1..id /\ 1..j \in SUBSET N /\ 1..id \in SUBSET N /\ 1..j \in Upto
      <3>1. id \in 1..id /\ id \notin 1..j
        BY <1>5
      <3> QED
        BY <1>5, <3>1
    <2> QED
      BY <1>3, <1>4, <2>1 DEF StrictSubsetOrdering
  <1> QED
    BY <1>5

(* What is behind a number is greater, or is no number of D.               *)
Rising(D, nx) == \A m \in D : nx[m] \in D => m < nx[m]

LEMMA RisingEnds ==
    ASSUME NEW k \in Nat, NEW D \in SUBSET (0..k), NEW nx, Rising(D, nx)
    PROVE  Ends(D, nx)
  <1> SUFFICES ASSUME NEW S \in SUBSET D, S # {} PROVE \E m \in S : nx[m] \notin S
    BY DEF Ends
  <1> DEFINE Gap == { k + 1 - i : i \in S }
  <1>1. Gap \in SUBSET (1..(k + 1)) /\ Gap # {} /\ k + 1 \in Nat
    <2>1. \A i \in S : k + 1 - i \in 1..(k + 1)
      OBVIOUS
    <2>2. Gap \subseteq 1..(k + 1)
      BY <2>1
    <2>3. Gap # {}
      OBVIOUS
    <2> QED
      BY <2>2, <2>3
  <1>2. PICK id \in Gap : \A j \in Gap : id <= j
    <2> HIDE DEF Gap
    <2> QED
      BY <1>1, LeastExists
  <1>3. PICK m \in S : id = k + 1 - m
    BY <1>2
  <1>4. ASSUME nx[m] \in S PROVE FALSE
    <2>1. m < nx[m] /\ nx[m] \in 0..k /\ m \in 0..k
      BY <1>4 DEF Rising
    <2>2. k + 1 - nx[m] \in Gap
      BY <1>4
    <2>3. id <= k + 1 - nx[m]
      BY <1>2, <2>2
    <2> QED
      BY <1>3, <2>1, <2>3
  <1> QED
    BY <1>4

-----------------------------------------------------------------------------
(* The shape of the heap, in pointers.                                     *)

NodeFields == {"name", "value", "parent", "child", "last", "next"}
Pointers(heap) == DOMAIN heap \cup {Null}
NextOf(heap) == [m \in DOMAIN heap |-> heap[m].next]
ParentOf(heap) == [m \in DOMAIN heap |-> heap[m].parent]

(* No pointer dangles.                                                     *)
Shape(heap, r) ==
  /\ DOMAIN heap \subseteq 1..MaxNodes
  /\ \A n \in DOMAIN heap :
       /\ DOMAIN heap[n] = NodeFields
       /\ heap[n].parent \in Pointers(heap) /\ heap[n].child \in Pointers(heap)
       /\ heap[n].last \in Pointers(heap) /\ heap[n].next \in Pointers(heap)
  /\ r = Null => DOMAIN heap = {}
  /\ r # Null => r \in DOMAIN heap

(* The root has no parent and no brother; child, next and last stay in the *)
(* family, and last is the only child that nothing comes behind.           *)
Family(heap, r) ==
  \A n \in DOMAIN heap :
    /\ heap[n].parent = Null <=> n = r
    /\ heap[n].child # Null => heap[heap[n].child].parent = n
    /\ heap[n].next # Null => heap[heap[n].next].parent = heap[n].parent
    /\ heap[n].last # Null => heap[heap[n].last].parent = n /\ heap[heap[n].last].next = Null
    /\ heap[n].child = Null <=> heap[n].last = Null
    /\ n # r /\ heap[n].next = Null => heap[heap[n].parent].last = n
    /\ n = r => heap[n].next = Null

(* Every node is reached from the root by way of child and next.           *)
Reached(heap, r) ==
  \A S \in SUBSET DOMAIN heap :
     r \in S /\ (\A m \in S : heap[m].child \in S \cup {Null} /\ heap[m].next \in S \cup {Null})
       => S = DOMAIN heap

Tree(heap, r) ==
  /\ Shape(heap, r) /\ Family(heap, r) /\ Reached(heap, r)
  /\ Ends(DOMAIN heap, NextOf(heap)) /\ Ends(DOMAIN heap, ParentOf(heap))

LEMMA NullIsNoNode == \A heap, r : Shape(heap, r) => Null \notin DOMAIN heap
  BY TreeAssumption DEF Shape, Null

LEMMA ChainsOf ==
    ASSUME NEW heap, NEW r, Shape(heap, r)
    PROVE  /\ NextOf(heap) \in [DOMAIN heap -> Pointers(heap)]
           /\ ParentOf(heap) \in [DOMAIN heap -> Pointers(heap)]
  BY DEF Shape, NextOf, ParentOf

-----------------------------------------------------------------------------
(* Children and PathTo are such functions along next and parent.           *)

(* The list of m and what comes behind it.                                 *)
IsLists(heap, f) ==
  /\ f \in [Pointers(heap) -> Seq(DOMAIN heap)]
  /\ f[Null] = << >>
  /\ \A m \in DOMAIN heap : f[m] = <<m>> \o f[heap[m].next]
(* The nodes down to m.                                                    *)
IsPaths(heap, f) ==
  /\ f \in [Pointers(heap) -> Seq(DOMAIN heap)]
  /\ f[Null] = << >>
  /\ \A m \in DOMAIN heap : f[m] = Append(f[heap[m].parent], m)

LEMMA ChildrenIsList ==
    ASSUME NEW heap, NEW r, Shape(heap, r), Ends(DOMAIN heap, NextOf(heap))
    PROVE  \E f : IsLists(heap, f) /\ \A n : Children(heap, n) = f[heap[n].child]
  <1> DEFINE D == DOMAIN heap
             V == Seq(D)
             g == [p \in D \X V |-> <<p[1]>> \o p[2]]
             nx == NextOf(heap)
             Eq(h) == h = [m \in D \cup {Null} |-> IF m = Null THEN << >> ELSE <<m>> \o h[heap[m].next]]
  <1>1. Null \notin D
    BY NullIsNoNode
  <1>2. nx \in [D -> D \cup {Null}] /\ \A m \in D : nx[m] = heap[m].next
    BY ChainsOf DEF Pointers, NextOf
  <1>3. g \in [D \X V -> V] /\ \A m \in D, s \in V : g[<<m, s>>] = <<m>> \o s
    OBVIOUS
  <1>4. << >> \in V /\ Ends(D, nx)
    OBVIOUS
  <1> HIDE DEF g
  <1>5. PICK f \in [D \cup {Null} -> V] : Along(D, Null, nx, << >>, g, f)
    <2> HIDE DEF D, V, nx
    <2> QED
      BY <1>1, <1>2, <1>3, <1>4, ChainRecursion
  <1>6. f[Null] = << >>
    BY <1>5 DEF Along
  <1>7. \A m \in D : f[m] = <<m>> \o f[heap[m].next]
    <2> TAKE m \in D
    <2>1. f[m] = g[<<m, f[nx[m]]>>]
      BY <1>5 DEF Along
    <2>2. nx[m] \in D \cup {Null} /\ nx[m] = heap[m].next
      BY <1>2
    <2>3. f[nx[m]] \in V
      BY <2>2
    <2> HIDE DEF V, nx
    <2> QED
      BY <1>3, <2>1, <2>2, <2>3
  <1>8. Eq(f)
    BY <1>1, <1>6, <1>7
  <1> DEFINE h == CHOOSE k : Eq(k)
  <1>9. \A n : Children(heap, n) = h[heap[n].child]
    BY DEF Children
  <1>10. Eq(h)
    <2> HIDE DEF Eq
    <2> QED
      BY <1>8
  <1>11. h[Null] = << >> /\ \A m \in D : h[m] = <<m>> \o h[heap[m].next]
    <2> HIDE DEF h
    <2> QED
      BY <1>1, <1>10
  <1>12. DOMAIN h = D \cup {Null} /\ h = [m \in D \cup {Null} |-> h[m]]
    <2> HIDE DEF h
    <2> QED
      BY <1>10
  <1>13. \A m \in D \cup {Null} : h[m] = f[m]
    <2> HIDE DEF h, Eq
    <2>1. h[Null] = f[Null]
      BY <1>6, <1>11
    <2>2. Agreeing(D, Null, nx, h, f)
      <3>1. ASSUME NEW m \in D, h[nx[m]] = f[nx[m]] PROVE h[m] = f[m]
        BY <1>2, <1>7, <1>11, <3>1
      <3> QED
        BY <2>1, <3>1 DEF Agreeing
    <2> HIDE DEF D, nx
    <2>3. Alike(D, Null, h, f)
      BY <1>2, <1>4, <2>2, ChainUnique
    <2> QED
      BY <2>3 DEF Alike
  <1>14. IsLists(heap, h)
    <2> HIDE DEF h, Eq
    <2> QED
      BY <1>11, <1>12, <1>13 DEF IsLists, Pointers
  <1> QED
    BY <1>9, <1>14

LEMMA PathToIsPath ==
    ASSUME NEW heap, NEW r, Shape(heap, r), Ends(DOMAIN heap, ParentOf(heap))
    PROVE  \E f : IsPaths(heap, f) /\ \A n : PathTo(heap, n) = f[n]
  <1> DEFINE D == DOMAIN heap
             V == Seq(D)
             g == [p \in D \X V |-> Append(p[2], p[1])]
             nx == ParentOf(heap)
             Eq(h) == h = [m \in D \cup {Null} |-> IF m = Null THEN << >> ELSE Append(h[heap[m].parent], m)]
  <1>1. Null \notin D
    BY NullIsNoNode
  <1>2. nx \in [D -> D \cup {Null}] /\ \A m \in D : nx[m] = heap[m].parent
    BY ChainsOf DEF Pointers, ParentOf
  <1>3. g \in [D \X V -> V] /\ \A m \in D, s \in V : g[<<m, s>>] = Append(s, m)
    OBVIOUS
  <1>4. << >> \in V /\ Ends(D, nx)
    OBVIOUS
  <1> HIDE DEF g
  <1>5. PICK f \in [D \cup {Null} -> V] : Along(D, Null, nx, << >>, g, f)
    <2> HIDE DEF D, V, nx
    <2> QED
      BY <1>1, <1>2, <1>3, <1>4, ChainRecursion
  <1>6. f[Null] = << >>
    BY <1>5 DEF Along
  <1>7. \A m \in D : f[m] = Append(f[heap[m].parent], m)
    <2> TAKE m \in D
    <2>1. f[m] = g[<<m, f[nx[m]]>>]
      BY <1>5 DEF Along
    <2>2. nx[m] \in D \cup {Null} /\ nx[m] = heap[m].parent
      BY <1>2
    <2>3. f[nx[m]] \in V
      BY <2>2
    <2> HIDE DEF V, nx
    <2> QED
      BY <1>3, <2>1, <2>2, <2>3
  <1>8. Eq(f)
    BY <1>1, <1>6, <1>7
  <1> DEFINE h == CHOOSE k : Eq(k)
  <1>9. \A n : PathTo(heap, n) = h[n]
    BY DEF PathTo
  <1>10. Eq(h)
    <2> HIDE DEF Eq
    <2> QED
      BY <1>8
  <1>11. h[Null] = << >> /\ \A m \in D : h[m] = Append(h[heap[m].parent], m)
    <2> HIDE DEF h
    <2> QED
      BY <1>1, <1>10
  <1>12. DOMAIN h = D \cup {Null} /\ h = [m \in D \cup {Null} |-> h[m]]
    <2> HIDE DEF h
    <2> QED
      BY <1>10
  <1>13. \A m \in D \cup {Null} : h[m] = f[m]
    <2> HIDE DEF h, Eq
    <2>1. h[Null] = f[Null]
      BY <1>6, <1>11
    <2>2. Agreeing(D, Null, nx, h, f)
      <3>1. ASSUME NEW m \in D, h[nx[m]] = f[nx[m]] PROVE h[m] = f[m]
        BY <1>2, <1>7, <1>11, <3>1
      <3> QED
        BY <2>1, <3>1 DEF Agreeing
    <2> HIDE DEF D, nx
    <2>3. Alike(D, Null, h, f)
      BY <1>2, <1>4, <2>2, ChainUnique
    <2> QED
      BY <2>3 DEF Alike
  <1>14. IsPaths(heap, h)
    <2> HIDE DEF h, Eq
    <2> QED
      BY <1>11, <1>12, <1>13 DEF IsPaths, Pointers
  <1> QED
    BY <1>9, <1>14

-----------------------------------------------------------------------------
(* How deep a node is.                                                     *)

Below(heap, n) == Len(PathTo(heap, n))

LEMMA Depths ==
    ASSUME NEW heap, NEW r, Tree(heap, r)
    PROVE  /\ Below(heap, Null) = 0
           /\ \A n \in Pointers(heap) : Below(heap, n) \in Nat
           /\ \A m \in DOMAIN heap : Below(heap, m) = Below(heap, heap[m].parent) + 1
  <1>1. PICK f : IsPaths(heap, f) /\ \A n : PathTo(heap, n) = f[n]
    BY PathToIsPath DEF Tree
  <1>2. Below(heap, Null) = 0
    BY <1>1 DEF IsPaths, Below
  <1>3. \A n \in Pointers(heap) : f[n] \in Seq(DOMAIN heap) /\ Len(f[n]) \in Nat
    BY <1>1 DEF IsPaths
  <1>4. ASSUME NEW m \in DOMAIN heap PROVE Len(f[m]) = Len(f[heap[m].parent]) + 1
    <2>1. f[heap[m].parent] \in Seq(DOMAIN heap)
      BY <1>3 DEF Tree, Shape
    <2>2. f[m] = Append(f[heap[m].parent], m)
      BY <1>1 DEF IsPaths
    <2> QED
      BY <2>1, <2>2
  <1> QED
    BY <1>1, <1>2, <1>3, <1>4 DEF Below

LEMMA OnlyNullIsAtTop ==
    ASSUME NEW heap, NEW r, Tree(heap, r), NEW n \in Pointers(heap)
    PROVE  /\ Below(heap, n) = 0 <=> n = Null
           /\ Below(heap, n) = 1 <=> (n = r /\ r # Null)
  <1>0. Null \notin DOMAIN heap /\ (r # Null => r \in DOMAIN heap)
    BY NullIsNoNode DEF Tree, Shape
  <1>1. ASSUME NEW m \in DOMAIN heap
        PROVE  /\ heap[m].parent \in Pointers(heap)
               /\ Below(heap, heap[m].parent) \in Nat
               /\ Below(heap, m) = Below(heap, heap[m].parent) + 1
    BY Depths DEF Tree, Shape
  <1>2. \A m \in DOMAIN heap : Below(heap, m) # 0
    BY <1>1
  <1>3. ASSUME NEW m \in DOMAIN heap PROVE Below(heap, m) = 1 <=> m = r
    <2>1. heap[m].parent = Null <=> m = r
      BY DEF Tree, Family
    <2>2. CASE heap[m].parent = Null
      BY <1>1, <2>1, <2>2, Depths
    <2>3. CASE heap[m].parent \in DOMAIN heap
      <3>1. Below(heap, heap[m].parent) # 0
        BY <1>2, <2>3
      <3> QED
        BY <1>0, <1>1, <2>1, <2>3, <3>1
    <2> QED
      BY <1>1, <2>2, <2>3 DEF Pointers
  <1> QED
    BY <1>0, <1>2, <1>3, Depths DEF Pointers

(* A heap with more nodes, or with others in the lists, has the same depths*)
(* if the parents are the same.                                            *)
SameParents(heap, new) ==
  /\ DOMAIN heap \subseteq DOMAIN new
  /\ \A m \in DOMAIN heap : new[m].parent = heap[m].parent

LEMMA PathsStay ==
    ASSUME NEW heap, NEW r, Tree(heap, r), NEW new, NEW q, Tree(new, q), SameParents(heap, new)
    PROVE  \A n \in Pointers(heap) : PathTo(new, n) = PathTo(heap, n)
  <1>1. PICK f : IsPaths(heap, f) /\ \A n : PathTo(heap, n) = f[n]
    BY PathToIsPath DEF Tree
  <1>2. PICK h : IsPaths(new, h) /\ \A n : PathTo(new, n) = h[n]
    BY PathToIsPath DEF Tree
  <1> DEFINE nx == ParentOf(heap)
             D == DOMAIN heap
  <1>3. nx \in [D -> D \cup {Null}] /\ Ends(D, nx) /\ \A m \in D : nx[m] = heap[m].parent
    BY ChainsOf DEF Tree, Pointers, ParentOf
  <1>4. Agreeing(D, Null, nx, h, f)
    <2>1. h[Null] = f[Null]
      BY <1>1, <1>2 DEF IsPaths
    <2>2. ASSUME NEW m \in D, h[nx[m]] = f[nx[m]] PROVE h[m] = f[m]
      <3>1. f[m] = Append(f[nx[m]], m)
        BY <1>1, <1>3 DEF IsPaths
      <3>2. m \in DOMAIN new /\ new[m].parent = nx[m]
        BY <1>3 DEF SameParents
      <3>3. h[m] = Append(h[nx[m]], m)
        BY <1>2, <3>2 DEF IsPaths
      <3> QED
        BY <2>2, <3>1, <3>3
    <2> HIDE DEF nx, D
    <2> QED
      BY <2>1, <2>2 DEF Agreeing
  <1> HIDE DEF nx, D
  <1>5. Alike(D, Null, h, f)
    BY <1>3, <1>4, ChainUnique
  <1> QED
    BY <1>1, <1>2, <1>5 DEF Alike, Pointers, D

LEMMA DepthsStay ==
    ASSUME NEW heap, NEW r, Tree(heap, r), NEW new, NEW q, Tree(new, q), SameParents(heap, new)
    PROVE  \A n \in Pointers(heap) : Below(new, n) = Below(heap, n)
  BY PathsStay DEF Below

-----------------------------------------------------------------------------
(* What the list of children is.                                           *)

Elems(s) == { s[i] : i \in 1..Len(s) }

LEMMA ElemsCons ==
    ASSUME NEW S, NEW m \in S, NEW s \in Seq(S)
    PROVE  /\ <<m>> \o s # << >>
           /\ Elems(<<m>> \o s) = {m} \cup Elems(s)
           /\ s = << >> => (<<m>> \o s)[Len(<<m>> \o s)] = m
           /\ s # << >> => (<<m>> \o s)[Len(<<m>> \o s)] = s[Len(s)]
  <1> DEFINE t == <<m>> \o s
  <1>1. t \in Seq(S) /\ Len(t) = Len(s) + 1 /\ Len(s) \in Nat
    OBVIOUS
  <1>2. t[1] = m /\ \A i \in 1..Len(s) : t[i + 1] = s[i]
    OBVIOUS
  <1>3. t # << >>
    BY <1>1
  <1> HIDE DEF t
  <1>4. Elems(t) = {m} \cup Elems(s)
    <2>1. ASSUME NEW i \in 1..Len(t) PROVE t[i] \in {m} \cup Elems(s)
      <3>1. CASE i = 1
        BY <1>2, <3>1
      <3>2. CASE i # 1
        <4>1. i - 1 \in 1..Len(s) /\ i = (i - 1) + 1
          BY <1>1, <3>2
        <4>2. t[i] = s[i - 1]
          BY <1>2, <4>1
        <4> QED
          BY <4>1, <4>2 DEF Elems
      <3> QED
        BY <3>1, <3>2
    <2>2. m \in Elems(t)
      <3>1. 1 \in 1..Len(t)
        BY <1>1
      <3> QED
        BY <1>2, <3>1 DEF Elems
    <2>3. ASSUME NEW i \in 1..Len(s) PROVE s[i] \in Elems(t)
      <3>1. i + 1 \in 1..Len(t)
        BY <1>1
      <3>2. t[i + 1] = s[i]
        BY <1>2
      <3> QED
        BY <3>1, <3>2 DEF Elems
    <2> QED
      BY <2>1, <2>2, <2>3 DEF Elems
  <1>5. s = << >> => t[Len(t)] = m
    BY <1>1, <1>2
  <1>6. s # << >> => t[Len(t)] = s[Len(s)]
    <2>1. s # << >> => Len(s) \in 1..Len(s)
      OBVIOUS
    <2> QED
      BY <1>1, <1>2, <2>1
  <1> QED
    BY <1>3, <1>4, <1>5, <1>6 DEF t

(* A list of brothers, to its end.                                         *)
Brothers(heap, m, s) ==
  /\ s \in Seq(DOMAIN heap) /\ s # << >>
  /\ m \in Elems(s)
  /\ \A k \in Elems(s) : /\ k \in DOMAIN heap /\ heap[k].parent = heap[m].parent
                         /\ heap[k].next \in Elems(s) \cup {Null}
  /\ s[Len(s)] \in Elems(s) /\ heap[s[Len(s)]].next = Null

LEMMA ListsAreBrothers ==
    ASSUME NEW heap, NEW r, Tree(heap, r), NEW f, IsLists(heap, f)
    PROVE  \A m \in DOMAIN heap : Brothers(heap, m, f[m])
  <1> DEFINE D == DOMAIN heap
             nx == NextOf(heap)
             P == {m \in D : Brothers(heap, m, f[m])} \cup {Null}
  <1>1. nx \in [D -> D \cup {Null}] /\ Ends(D, nx) /\ \A m \in D : nx[m] = heap[m].next
    BY ChainsOf DEF Tree, Pointers, NextOf
  <1>2. ASSUME NEW m \in D, nx[m] \in P PROVE m \in P
    <2> DEFINE k == heap[m].next
    <2>1. f[m] = <<m>> \o f[k] /\ f[k] \in Seq(D) /\ f[m] \in Seq(D)
      BY DEF IsLists, Tree, Shape, Pointers
    <2>2. /\ f[m] # << >>
          /\ Elems(f[m]) = {m} \cup Elems(f[k])
          /\ f[k] = << >> => f[m][Len(f[m])] = m
          /\ f[k] # << >> => f[m][Len(f[m])] = f[k][Len(f[k])]
      <3> HIDE DEF k
      <3> QED
        BY <2>1, ElemsCons
    <2>3. CASE k = Null
      <3>1. f[k] = << >>
        BY <2>3 DEF IsLists
      <3>2. Elems(f[k]) = {}
        BY <3>1 DEF Elems
      <3> QED
        BY <2>1, <2>2, <2>3, <3>1, <3>2 DEF Brothers
    <2>4. CASE k \in D /\ Brothers(heap, k, f[k])
      <3>1. heap[k].parent = heap[m].parent
        <4>1. k # Null
          BY <2>4, NullIsNoNode DEF Tree
        <4> QED
          BY <4>1 DEF Tree, Family
      <3>2. f[k] # << >> /\ k \in Elems(f[k]) /\ heap[f[k][Len(f[k])]].next = Null /\ f[k][Len(f[k])] \in Elems(f[k])
        BY <2>4 DEF Brothers
      <3>3. ASSUME NEW j \in Elems(f[m])
            PROVE  j \in D /\ heap[j].parent = heap[m].parent /\ heap[j].next \in Elems(f[m]) \cup {Null}
        <4>1. CASE j = m
          BY <2>2, <3>2, <4>1
        <4>2. CASE j \in Elems(f[k])
          BY <2>2, <2>4, <3>1, <4>2 DEF Brothers
        <4> QED
          BY <2>2, <3>3, <4>1, <4>2
      <3> HIDE DEF k
      <3> QED
        BY <2>1, <2>2, <3>2, <3>3 DEF Brothers
    <2>5. nx[m] = k
      BY <1>1
    <2>6. k = Null \/ (k \in D /\ Brothers(heap, k, f[k]))
      BY <1>2, <2>5
    <2> QED
      BY <2>3, <2>4, <2>6
  <1>3. Inherited(D, Null, nx, P)
    BY <1>2 DEF Inherited
  <1>4. D \subseteq P
    <2> HIDE DEF D, nx, P
    <2> QED
      BY <1>1, <1>3, ChainInduction
  <1>5. Null \notin D
    BY NullIsNoNode DEF Tree
  <1> QED
    BY <1>4, <1>5

(* The list from the first child on is all there is below a node: a set    *)
(* that holds its way through the lists, and what is not below n, holds    *)
(* every node.                                                             *)
WholeList(heap, n, L) ==
  /\ heap[n].child \in L \cup {Null}
  /\ \A k \in L : heap[k].parent = n /\ heap[k].next \in L \cup {Null}

LEMMA ListIsAll ==
    ASSUME NEW heap, NEW r, Tree(heap, r), NEW n \in DOMAIN heap, NEW L \in SUBSET DOMAIN heap,
           WholeList(heap, n, L)
    PROVE  L = { m \in DOMAIN heap : heap[m].parent = n }
  <1> DEFINE S == L \cup { m \in DOMAIN heap : heap[m].parent # n }
  <1>0. Null \notin DOMAIN heap /\ r \in DOMAIN heap
    BY NullIsNoNode DEF Tree, Shape
  <1>1. r \in S
    <2>1. heap[r].parent = Null
      BY <1>0 DEF Tree, Family
    <2> QED
      BY <1>0, <2>1
  <1>2. ASSUME NEW m \in S PROVE heap[m].child \in S \cup {Null}
    <2>1. heap[m].child # Null => heap[heap[m].child].parent = m /\ heap[m].child \in DOMAIN heap
      BY DEF Tree, Shape, Family, Pointers
    <2> QED
      BY <2>1 DEF WholeList
  <1>3. ASSUME NEW m \in S PROVE heap[m].next \in S \cup {Null}
    <2>1. heap[m].next # Null => heap[heap[m].next].parent = heap[m].parent /\ heap[m].next \in DOMAIN heap
      BY DEF Tree, Shape, Family, Pointers
    <2> QED
      BY <2>1 DEF WholeList
  <1>4. S = DOMAIN heap
    <2>1. S \in SUBSET DOMAIN heap
      OBVIOUS
    <2> HIDE DEF S
    <2> QED
      BY <1>1, <1>2, <1>3, <2>1 DEF Tree, Reached
  <1> QED
    BY <1>4 DEF WholeList

LEMMA ChildrenHaveFirst ==
    ASSUME NEW heap, NEW r, Tree(heap, r), NEW m \in DOMAIN heap, m # r
    PROVE  heap[m].parent \in DOMAIN heap /\ heap[heap[m].parent].child # Null
  <1> DEFINE n == heap[m].parent
  <1>1. n \in DOMAIN heap
    BY DEF Tree, Shape, Family, Pointers
  <1>2. ASSUME heap[n].child = Null PROVE {} = { k \in DOMAIN heap : heap[k].parent = n }
    <2>1. WholeList(heap, n, {})
      BY <1>2 DEF WholeList
    <2> HIDE DEF n
    <2> QED
      BY <1>1, <2>1, ListIsAll
  <1> QED
    BY <1>1, <1>2

(* What TreeLinked says of one node.                                       *)
LEMMA ChildrenAre ==
    ASSUME NEW heap, NEW r, Tree(heap, r), NEW n \in DOMAIN heap
    PROVE  /\ Children(heap, n) \in Seq(DOMAIN heap)
           /\ Elems(Children(heap, n)) = { m \in DOMAIN heap : heap[m].parent = n }
           /\ Children(heap, n) = << >> => heap[n].last = Null
           /\ Children(heap, n) # << >> => heap[n].last = Children(heap, n)[Len(Children(heap, n))]
  <1>1. PICK f : IsLists(heap, f) /\ Children(heap, n) = f[heap[n].child]
    BY ChildrenIsList DEF Tree
  <1> DEFINE c == heap[n].child
  <1>2. c \in Pointers(heap) /\ Null \notin DOMAIN heap
    BY NullIsNoNode DEF Tree, Shape
  <1>3. CASE c = Null
    <2>1. f[c] = << >>
      BY <1>1, <1>3 DEF IsLists
    <2>2. Elems(f[c]) = {}
      BY <2>1 DEF Elems
    <2>3. heap[n].last = Null
      BY <1>3 DEF Tree, Family
    <2>4. {} = { m \in DOMAIN heap : heap[m].parent = n }
      <3>1. WholeList(heap, n, {})
        BY <1>3 DEF WholeList
      <3> QED
        BY <3>1, ListIsAll
    <2> QED
      BY <1>1, <2>1, <2>2, <2>3, <2>4
  <1>4. CASE c \in DOMAIN heap
    <2>1. Brothers(heap, c, f[c]) /\ heap[c].parent = n
      BY <1>1, <1>2, <1>4, ListsAreBrothers DEF Tree, Family
    <2>2. /\ Elems(f[c]) \in SUBSET DOMAIN heap /\ c \in Elems(f[c])
          /\ \A k \in Elems(f[c]) : heap[k].parent = n /\ heap[k].next \in Elems(f[c]) \cup {Null}
      BY <2>1 DEF Brothers
    <2>3. Elems(f[c]) = { m \in DOMAIN heap : heap[m].parent = n }
      <3>1. WholeList(heap, n, Elems(f[c]))
        BY <2>2 DEF WholeList
      <3> QED
        BY <2>2, <3>1, ListIsAll
    <2> DEFINE z == f[c][Len(f[c])]
    <2>4. z \in DOMAIN heap /\ heap[z].parent = n /\ heap[z].next = Null
      BY <2>1, <2>2 DEF Brothers
    <2>5. z # r
      BY <1>2, <2>4 DEF Tree, Family
    <2>6. heap[n].last = z
      BY <2>4, <2>5 DEF Tree, Family
    <2>7. f[c] \in Seq(DOMAIN heap) /\ f[c] # << >>
      BY <2>1 DEF Brothers
    <2> QED
      BY <1>1, <2>3, <2>6, <2>7
  <1> QED
    BY <1>2, <1>3, <1>4 DEF Pointers

-----------------------------------------------------------------------------
(* A son is added.                                                         *)

(* A new node is one more.                                                 *)
LEMMA FreshIs ==
    ASSUME NEW heap, NEW r, Shape(heap, r), HasRoom(heap)
    PROVE  Fresh(heap) \in 1..MaxNodes /\ Fresh(heap) \notin DOMAIN heap
  <1> DEFINE D == DOMAIN heap
             Gap == (1..MaxNodes) \ D
  <1>0. MaxNodes \in Nat /\ D \in SUBSET (1..MaxNodes)
    BY TreeAssumption DEF Shape
  <1>1. IsFiniteSet(1..MaxNodes) /\ Cardinality(1..MaxNodes) = MaxNodes
    BY <1>0, FS_Interval
  <1>2. Cardinality(D) < MaxNodes
    BY DEF HasRoom
  <1>3. Gap # {}
    <2> SUFFICES ASSUME D = 1..MaxNodes PROVE FALSE
      BY <1>0
    <2> QED
      BY <1>0, <1>1, <1>2
  <1>4. PICK id \in Gap : \A j \in Gap : id <= j
    <2>1. Gap \in SUBSET (1..MaxNodes)
      OBVIOUS
    <2> HIDE DEF Gap
    <2> QED
      BY <1>0, <1>3, <2>1, LeastExists
  <1>5. id \in 1..MaxNodes /\ id \notin D /\ \A j \in 1..(id - 1) : j \in D
    <2>1. \A j \in 1..(id - 1) : j \in 1..MaxNodes /\ j < id
      BY <1>0, <1>4
    <2> QED
      BY <1>0, <1>4, <2>1
  <1> QED
    BY <1>5 DEF Fresh

(* Another son of parent, which has no son of its own yet.                 *)
Joined(heap, new, parent, id) ==
  /\ id \in (1..MaxNodes) \ DOMAIN heap
  /\ DOMAIN new = DOMAIN heap \cup {id}
  /\ \A n \in DOMAIN new : DOMAIN new[n] = NodeFields
  /\ new[id].parent = parent /\ new[id].child = Null /\ new[id].last = Null /\ new[id].next = Null
  /\ \A n \in DOMAIN heap :
       /\ new[n].parent = heap[n].parent
       /\ new[n].next = IF parent # Null /\ n = heap[parent].last THEN id ELSE heap[n].next
       /\ new[n].last = IF n = parent THEN id ELSE heap[n].last
       /\ new[n].child = IF n = parent /\ heap[parent].last = Null THEN id ELSE heap[n].child

LEMMA WithChildIs ==
    ASSUME NEW heap, NEW r, Tree(heap, r), HasRoom(heap), NEW parent \in Pointers(heap), NEW name
    PROVE  Joined(heap, WithChild(heap, parent, name), parent, Fresh(heap))
  <1> DEFINE id == Fresh(heap)
             new == WithChild(heap, parent, name)
             prev == IF parent = Null THEN Null ELSE heap[parent].last
  <1>0. Null \notin DOMAIN heap /\ id \in (1..MaxNodes) \ DOMAIN heap /\ id # Null
    BY NullIsNoNode, FreshIs, TreeAssumption DEF Tree, Null
  <1>1. prev # Null => prev \in DOMAIN heap /\ heap[prev].next = Null
    BY DEF Tree, Shape, Family, Pointers
  <1>2. new = [n \in DOMAIN heap \cup {id} |->
                 IF n = id
                   THEN Born(name, parent, IF prev = Null THEN Null ELSE heap[prev].next)
                   ELSE [heap[n] EXCEPT !.next  = IF n = prev THEN id ELSE @,
                                        !.last  = IF n = parent THEN id ELSE @,
                                        !.child = IF n = parent /\ prev = Null THEN id ELSE @]]
    BY DEF WithChild
  <1> HIDE DEF id, new, prev
  <1>3. DOMAIN new = DOMAIN heap \cup {id}
    BY <1>2
  <1>4. new[id] = Born(name, parent, Null)
    BY <1>1, <1>2, <1>3
  <1>5. ASSUME NEW n \in DOMAIN heap
        PROVE  /\ DOMAIN new[n] = NodeFields
               /\ new[n].parent = heap[n].parent
               /\ new[n].next = IF n = prev THEN id ELSE heap[n].next
               /\ new[n].last = IF n = parent THEN id ELSE heap[n].last
               /\ new[n].child = IF n = parent /\ prev = Null THEN id ELSE heap[n].child
    <2>1. DOMAIN heap[n] = NodeFields
      BY DEF Tree, Shape
    <2>2. new[n] = [heap[n] EXCEPT !.next  = IF n = prev THEN id ELSE @,
                                   !.last  = IF n = parent THEN id ELSE @,
                                   !.child = IF n = parent /\ prev = Null THEN id ELSE @]
      BY <1>0, <1>2, <1>3
    <2> QED
      BY <2>1, <2>2 DEF NodeFields
  <1>6. DOMAIN new[id] = NodeFields /\ new[id].parent = parent /\ new[id].child = Null
        /\ new[id].last = Null /\ new[id].next = Null
    BY <1>4 DEF Born, NodeFields
  <1>7. \A n \in DOMAIN heap : (n = prev) <=> (parent # Null /\ n = heap[parent].last)
    BY <1>0 DEF prev
  <1>8. \A n \in DOMAIN heap : n = parent => (prev = Null <=> heap[parent].last = Null)
    BY <1>0 DEF prev
  <1> QED
    BY <1>0, <1>3, <1>5, <1>6, <1>7, <1>8 DEF Joined, id, new

LEMMA NewFamily ==
    ASSUME NEW heap, NEW r, Tree(heap, r), NEW parent \in DOMAIN heap, NEW new, NEW id,
           Joined(heap, new, parent, id)
    PROVE  Shape(new, r) /\ Family(new, r)
  <1> DEFINE l == heap[parent].last
  <1>0. /\ Null \notin DOMAIN heap /\ r \in DOMAIN heap /\ r # Null /\ id # Null /\ parent # Null
        /\ parent \in Pointers(heap)
    BY NullIsNoNode, TreeAssumption DEF Tree, Shape, Joined, Null, Pointers
  <1>1. Shape(new, r)
    BY <1>0 DEF Tree, Shape, Joined, Pointers
  <1>2. /\ new[id].parent = parent /\ new[id].child = Null
        /\ new[id].last = Null /\ new[id].next = Null
        /\ DOMAIN new = DOMAIN heap \cup {id} /\ id \notin DOMAIN heap
    BY DEF Joined
  <1>3. ASSUME NEW n \in DOMAIN heap
        PROVE  /\ new[n].parent = heap[n].parent
               /\ new[n].next = IF n = l THEN id ELSE heap[n].next
               /\ new[n].last = IF n = parent THEN id ELSE heap[n].last
               /\ new[n].child = IF n = parent /\ l = Null THEN id ELSE heap[n].child
    BY <1>0 DEF Joined
  <1>4. ASSUME NEW n \in DOMAIN heap
        PROVE  /\ heap[n].parent \in Pointers(heap)
               /\ heap[n].parent = Null <=> n = r
               /\ heap[n].child # Null => heap[n].child \in DOMAIN heap /\ heap[heap[n].child].parent = n
               /\ heap[n].next # Null => heap[n].next \in DOMAIN heap /\ heap[heap[n].next].parent = heap[n].parent
               /\ heap[n].last # Null => heap[n].last \in DOMAIN heap /\ heap[heap[n].last].parent = n
                                          /\ heap[heap[n].last].next = Null
               /\ heap[n].child = Null <=> heap[n].last = Null
               /\ n # r /\ heap[n].next = Null => heap[heap[n].parent].last = n
               /\ n = r => heap[n].next = Null
    BY DEF Tree, Shape, Family, Pointers
  <1>5. l # Null => l \in DOMAIN heap /\ heap[l].parent = parent /\ heap[l].next = Null /\ l # r
    BY <1>0, <1>4
  <1> HIDE DEF l
  <1>6. ASSUME NEW n \in DOMAIN new
        PROVE  /\ new[n].parent = Null <=> n = r
               /\ new[n].child # Null => new[new[n].child].parent = n
               /\ new[n].next # Null => new[new[n].next].parent = new[n].parent
    <2>1. CASE n = id
      BY <1>0, <1>2, <2>1
    <2>2. CASE n \in DOMAIN heap
      <3>1. new[n].parent = Null <=> n = r
        BY <1>3, <1>4, <2>2
      <3>2. new[n].child # Null => new[new[n].child].parent = n
        BY <1>2, <1>3, <1>4, <2>2
      <3>3. new[n].next # Null => new[new[n].next].parent = new[n].parent
        BY <1>0, <1>2, <1>3, <1>4, <1>5, <2>2
      <3> QED
        BY <3>1, <3>2, <3>3
    <2> QED
      BY <1>2, <2>1, <2>2
  <1>7. ASSUME NEW n \in DOMAIN new
        PROVE  /\ new[n].last # Null => new[new[n].last].parent = n /\ new[new[n].last].next = Null
               /\ new[n].child = Null <=> new[n].last = Null
               /\ n # r /\ new[n].next = Null => new[new[n].parent].last = n
               /\ n = r => new[n].next = Null
    <2>1. CASE n = id
      BY <1>0, <1>2, <1>3, <2>1
    <2>2. CASE n \in DOMAIN heap
      <3>1. new[n].last # Null => new[new[n].last].parent = n /\ new[new[n].last].next = Null
        <4>1. CASE n = parent
          BY <1>2, <1>3, <4>1
        <4>2. CASE n # parent
          BY <1>0, <1>2, <1>3, <1>4, <1>5, <2>2, <4>2
        <4> QED
          BY <4>1, <4>2
      <3>2. new[n].child = Null <=> new[n].last = Null
        BY <1>0, <1>3, <1>4, <2>2 DEF l
      <3>3. n # r /\ new[n].next = Null => new[new[n].parent].last = n
        <4> SUFFICES ASSUME n # r, new[n].next = Null PROVE new[new[n].parent].last = n
          OBVIOUS
        <4>1. n # l /\ heap[n].next = Null
          BY <1>0, <1>3, <2>2
        <4>2. heap[n].parent \in DOMAIN heap /\ heap[heap[n].parent].last = n
          BY <1>4, <2>2, <4>1 DEF Pointers
        <4>3. heap[n].parent # parent
          BY <4>1, <4>2 DEF l
        <4> QED
          BY <1>3, <2>2, <4>2, <4>3
      <3>4. n = r => new[n].next = Null
        BY <1>0, <1>3, <1>4, <1>5, <2>2
      <3> QED
        BY <3>1, <3>2, <3>3, <3>4
    <2> QED
      BY <1>2, <2>1, <2>2
  <1>8. Family(new, r)
    BY <1>6, <1>7 DEF Family
  <1> QED
    BY <1>1, <1>8

LEMMA NewReached ==
    ASSUME NEW heap, NEW r, Tree(heap, r), NEW parent \in DOMAIN heap, NEW new, NEW id,
           Joined(heap, new, parent, id)
    PROVE  Reached(new, r)
  <1> DEFINE l == heap[parent].last
  <1>0. Null \notin DOMAIN heap /\ r \in DOMAIN heap /\ parent # Null /\ id # Null
    BY NullIsNoNode, TreeAssumption DEF Tree, Shape, Joined, Null
  <1>1. DOMAIN new = DOMAIN heap \cup {id} /\ id \notin DOMAIN heap
    BY DEF Joined
  <1>2. ASSUME NEW n \in DOMAIN heap
        PROVE  /\ new[n].next = IF n = l THEN id ELSE heap[n].next
               /\ new[n].child = IF n = parent /\ l = Null THEN id ELSE heap[n].child
               /\ heap[n].next \in Pointers(heap) /\ heap[n].child \in Pointers(heap)
    BY <1>0 DEF Joined, Tree, Shape
  <1>3. /\ l # Null => l \in DOMAIN heap /\ heap[l].next = Null
        /\ l = Null => heap[parent].child = Null
    BY DEF Tree, Shape, Family, Pointers
  <1> HIDE DEF l
  <1>4. ASSUME NEW S \in SUBSET DOMAIN new, r \in S,
               \A m \in S : new[m].child \in S \cup {Null} /\ new[m].next \in S \cup {Null}
        PROVE  S = DOMAIN new
    <2> DEFINE T == S \ {id}
    <2>1. ASSUME NEW m \in T PROVE heap[m].child \in T \cup {Null} /\ heap[m].next \in T \cup {Null}
      <3>1. m \in DOMAIN heap
        BY <1>1
      <3>2. heap[m].child # id /\ heap[m].next # id
        BY <1>0, <1>1, <1>2, <3>1 DEF Pointers
      <3>3. heap[m].child \in S \cup {Null}
        BY <1>2, <1>3, <1>4, <3>1
      <3>4. heap[m].next \in S \cup {Null}
        BY <1>0, <1>2, <1>3, <1>4, <3>1
      <3> QED
        BY <3>2, <3>3, <3>4
    <2>2. T = DOMAIN heap
      <3>1. r \in T /\ T \in SUBSET DOMAIN heap
        BY <1>0, <1>1, <1>4
      <3> HIDE DEF T
      <3> QED
        BY <2>1, <3>1 DEF Tree, Reached
    <2>3. id \in S
      <3>1. CASE l = Null
        BY <1>0, <1>2, <1>4, <2>2, <3>1
      <3>2. CASE l # Null
        BY <1>0, <1>2, <1>3, <1>4, <2>2, <3>2
      <3> QED
        BY <3>1, <3>2
    <2> QED
      BY <1>1, <2>2, <2>3
  <1> QED
    BY <1>4 DEF Reached

LEMMA NewEnds ==
    ASSUME NEW heap, NEW r, Tree(heap, r), NEW parent \in DOMAIN heap, NEW new, NEW id,
           Joined(heap, new, parent, id)
    PROVE  Ends(DOMAIN new, NextOf(new)) /\ Ends(DOMAIN new, ParentOf(new))
  <1> DEFINE l == heap[parent].last
  <1>0. Null \notin DOMAIN heap /\ parent # Null /\ id # Null /\ id \notin DOMAIN heap /\ Null \notin DOMAIN new
    BY NullIsNoNode, TreeAssumption DEF Tree, Shape, Joined, Null
  <1>1. DOMAIN new = DOMAIN heap \cup {id} /\ new[id].next = Null /\ new[id].parent = parent
    BY DEF Joined
  <1>2. ASSUME NEW n \in DOMAIN heap
        PROVE  /\ new[n].next = IF n = l THEN id ELSE heap[n].next
               /\ new[n].parent = heap[n].parent
               /\ heap[n].next # id /\ heap[n].parent # id
    BY <1>0 DEF Joined, Tree, Shape, Pointers
  <1>3. \A S \in SUBSET DOMAIN heap : S # {} => \E m \in S : heap[m].next \notin S
    BY DEF Tree, Ends, NextOf
  <1>4. \A S \in SUBSET DOMAIN heap : S # {} => \E m \in S : heap[m].parent \notin S
    BY DEF Tree, Ends, ParentOf
  <1> HIDE DEF l
  <1>5. ASSUME NEW S \in SUBSET DOMAIN new, S # {} PROVE \E m \in S : new[m].next \notin S
    <2>1. CASE id \in S
      BY <1>0, <1>1, <2>1
    <2>2. CASE id \notin S
      <3>1. PICK m \in S : heap[m].next \notin S
        BY <1>1, <1>3, <1>5, <2>2
      <3> QED
        BY <1>1, <1>2, <2>2, <3>1
    <2> QED
      BY <2>1, <2>2
  <1>6. ASSUME NEW S \in SUBSET DOMAIN new, S # {} PROVE \E m \in S : new[m].parent \notin S
    <2> DEFINE T == S \ {id}
    <2>1. CASE T = {}
      BY <1>0, <1>1, <1>6, <2>1
    <2>2. CASE T # {}
      <3>1. PICK m \in T : heap[m].parent \notin T
        BY <1>1, <1>4, <2>2
      <3>2. m \in DOMAIN heap
        BY <1>1
      <3> QED
        BY <1>2, <3>1, <3>2
    <2> QED
      BY <2>1, <2>2
  <1> QED
    BY <1>5, <1>6 DEF Ends, NextOf, ParentOf

LEMMA WithChildTree ==
    ASSUME NEW heap, NEW r, Tree(heap, r), HasRoom(heap), NEW parent \in Pointers(heap),
           parent = Null => r = Null, NEW name
    PROVE  /\ Tree(WithChild(heap, parent, name), IF r = Null THEN Fresh(heap) ELSE r)
           /\ Joined(heap, WithChild(heap, parent, name), parent, Fresh(heap))
           /\ SameParents(heap, WithChild(heap, parent, name))
  <1> DEFINE id == Fresh(heap)
             new == WithChild(heap, parent, name)
  <1>0. Joined(heap, new, parent, id)
    BY WithChildIs
  <1> HIDE DEF id, new
  <1>1. SameParents(heap, new)
    BY <1>0 DEF Joined, SameParents
  <1>2. CASE parent = Null
    <2>1. DOMAIN heap = {} /\ r = Null
      BY <1>2 DEF Tree, Shape
    <2>2. DOMAIN new = {id} /\ id \in 1..MaxNodes /\ id # Null
      BY <1>0, <2>1, TreeAssumption DEF Joined, Null
    <2>3. DOMAIN new[id] = NodeFields /\ new[id].parent = Null /\ new[id].child = Null
          /\ new[id].last = Null /\ new[id].next = Null
      BY <1>0, <1>2, <2>2 DEF Joined
    <2>4. Shape(new, id) /\ Family(new, id) /\ Reached(new, id)
      BY <2>2, <2>3 DEF Shape, Family, Reached, Pointers
    <2>5. Ends(DOMAIN new, NextOf(new)) /\ Ends(DOMAIN new, ParentOf(new))
      BY <2>2, <2>3 DEF Ends, NextOf, ParentOf
    <2> QED
      BY <1>0, <1>1, <2>1, <2>4, <2>5 DEF Tree, id, new
  <1>3. CASE parent # Null
    <2>1. parent \in DOMAIN heap /\ r # Null
      BY <1>3 DEF Tree, Shape, Pointers
    <2>2. Tree(new, r)
      BY <1>0, <2>1, NewFamily, NewReached, NewEnds DEF Tree
    <2> QED
      BY <1>0, <1>1, <2>1, <2>2 DEF id, new
  <1> QED
    BY <1>2, <1>3

(* Names and values do not matter.                                         *)
SameLinks(heap, new) ==
  /\ DOMAIN new = DOMAIN heap
  /\ \A n \in DOMAIN heap :
       /\ DOMAIN new[n] = NodeFields
       /\ new[n].parent = heap[n].parent /\ new[n].next = heap[n].next
       /\ new[n].child = heap[n].child /\ new[n].last = heap[n].last

LEMMA SameLinksTree ==
    ASSUME NEW heap, NEW r, Tree(heap, r), NEW new, SameLinks(heap, new)
    PROVE  Tree(new, r) /\ SameParents(heap, new)
  <1>1. SameParents(heap, new)
    BY DEF SameLinks, SameParents
  <1>2. Shape(new, r)
    BY DEF Tree, SameLinks, Shape, Pointers
  <1>3. ASSUME NEW n \in DOMAIN heap
        PROVE  /\ heap[n].child # Null => heap[n].child \in DOMAIN heap
               /\ heap[n].next # Null => heap[n].next \in DOMAIN heap
               /\ heap[n].last # Null => heap[n].last \in DOMAIN heap
               /\ n # r => heap[n].parent \in DOMAIN heap
    BY DEF Tree, Shape, Family, Pointers
  <1>4. Family(new, r)
    BY <1>3 DEF Tree, SameLinks, Family
  <1>5. Reached(new, r)
    BY DEF Tree, SameLinks, Reached
  <1>6. NextOf(new) = NextOf(heap) /\ ParentOf(new) = ParentOf(heap)
    BY DEF SameLinks, NextOf, ParentOf
  <1> QED
    BY <1>1, <1>2, <1>4, <1>5, <1>6 DEF Tree, SameLinks

LEMMA WriteValue ==
    ASSUME NEW heap, NEW r, Tree(heap, r), NEW n, NEW v
    PROVE  SameLinks(heap, [heap EXCEPT ![n].value = v])
  <1> DEFINE new == [heap EXCEPT ![n].value = v]
  <1>1. DOMAIN new = DOMAIN heap
    OBVIOUS
  <1>2. ASSUME NEW m \in DOMAIN heap
        PROVE  /\ DOMAIN new[m] = NodeFields
               /\ new[m].parent = heap[m].parent /\ new[m].next = heap[m].next
               /\ new[m].child = heap[m].child /\ new[m].last = heap[m].last
    <2>1. DOMAIN heap[m] = NodeFields
      BY DEF Tree, Shape
    <2>2. new[m] = IF m = n THEN [heap[m] EXCEPT !.value = v] ELSE heap[m]
      OBVIOUS
    <2> QED
      BY <2>1, <2>2 DEF NodeFields
  <1> QED
    BY <1>1, <1>2 DEF SameLinks

(* What is freed is all there is below the node.                           *)
LEMMA AllBelowRoot ==
    ASSUME NEW heap, NEW r, Tree(heap, r), r # Null
    PROVE  Subtree(heap, r) = DOMAIN heap
  <1>1. ASSUME NEW S \in SUBSET DOMAIN heap, Closed(heap, r, S) PROVE S = DOMAIN heap
    <2>1. heap[r].next = Null
      BY DEF Tree, Family, Shape
    <2>2. r \in S /\ \A m \in S : heap[m].child \in S \cup {Null} /\ heap[m].next \in S \cup {Null}
      BY <1>1, <2>1 DEF Closed
    <2> QED
      BY <2>2 DEF Tree, Reached
  <1> QED
    BY <1>1 DEF Subtree

LEMMA AllBelowOnlyChild ==
    ASSUME NEW heap, NEW r, Tree(heap, r), r # Null,
           heap[r].child # Null, heap[heap[r].child].next = Null
    PROVE  Subtree(heap, heap[r].child) = DOMAIN heap \ {r}
  <1> DEFINE c == heap[r].child
  <1>0. c \in DOMAIN heap /\ heap[c].parent = r /\ r \in DOMAIN heap /\ heap[r].next = Null /\ c # r
        /\ Null \notin DOMAIN heap
    BY NullIsNoNode DEF Tree, Shape, Family, Pointers
  <1>1. ASSUME NEW S \in SUBSET DOMAIN heap, Closed(heap, c, S) PROVE DOMAIN heap \ {r} \subseteq S
    <2> DEFINE T == S \cup {r}
    <2>1. T \in SUBSET DOMAIN heap /\ r \in T
      BY <1>0
    <2>2. ASSUME NEW m \in T PROVE heap[m].child \in T \cup {Null} /\ heap[m].next \in T \cup {Null}
      BY <1>0, <1>1, <2>2 DEF Closed
    <2>3. T = DOMAIN heap
      <3> HIDE DEF T
      <3> QED
        BY <2>1, <2>2 DEF Tree, Reached
    <2> QED
      BY <2>3
  <1>2. Closed(heap, c, DOMAIN heap \ {r})
    <2>1. ASSUME NEW m \in DOMAIN heap
          PROVE  /\ heap[m].child \in Pointers(heap) /\ heap[m].child # r
                 /\ heap[m].next \in Pointers(heap) /\ (m # r => heap[m].next # r)
      BY <1>0 DEF Tree, Shape, Family
    <2> QED
      BY <1>0, <2>1 DEF Closed, Pointers
  <1> QED
    BY <1>1, <1>2 DEF Subtree

LEMMA OnlyRootTree ==
    ASSUME NEW heap, NEW r, r \in 1..MaxNodes, DOMAIN heap = {r}, DOMAIN heap[r] = NodeFields,
           heap[r].parent = Null, heap[r].child = Null, heap[r].last = Null, heap[r].next = Null
    PROVE  Tree(heap, r)
  <1>0. r # Null
    BY TreeAssumption DEF Null
  <1>1. Shape(heap, r) /\ Family(heap, r) /\ Reached(heap, r)
    BY <1>0 DEF Shape, Family, Reached, Pointers
  <1>2. Ends(DOMAIN heap, NextOf(heap)) /\ Ends(DOMAIN heap, ParentOf(heap))
    BY <1>0 DEF Ends, NextOf, ParentOf
  <1> QED
    BY <1>1, <1>2 DEF Tree

LEMMA NoTree ==
    ASSUME NEW heap, DOMAIN heap = {}
    PROVE  Tree(heap, Null)
  BY DEF Tree, Shape, Family, Reached, Ends

(* A message and the labels below it: the list of the root is as it was.   *)
SameTop(heap, new, r) ==
  /\ new[r].child = heap[r].child
  /\ heap[r].child # Null => new[heap[r].child].next = heap[heap[r].child].next

LEMMA JoinedBelow ==
    ASSUME NEW heap, NEW r, Tree(heap, r), NEW parent \in DOMAIN heap, parent # r,
           NEW new, NEW id, Joined(heap, new, parent, id)
    PROVE  SameTop(heap, new, r)
  <1>1. r \in DOMAIN heap /\ Null \notin DOMAIN heap /\ parent # Null
    BY NullIsNoNode DEF Tree, Shape
  <1>2. new[r].child = heap[r].child
    BY <1>1 DEF Joined
  <1>3. ASSUME heap[r].child # Null PROVE new[heap[r].child].next = heap[heap[r].child].next
    <2>1. heap[r].child \in DOMAIN heap /\ heap[heap[r].child].parent = r
      BY <1>1, <1>3 DEF Tree, Shape, Family, Pointers
    <2>2. heap[parent].last # Null => heap[heap[parent].last].parent = parent
      BY <1>1 DEF Tree, Family
    <2>3. heap[r].child # heap[parent].last
      BY <1>3, <2>1, <2>2
    <2> QED
      BY <2>1, <2>3 DEF Joined
  <1> QED
    BY <1>2, <1>3 DEF SameTop

(* Where push goes: one below the node it starts from.                     *)
LEMMA PushGoesDown ==
    ASSUME Tree(node, root), NEW from \in DOMAIN node, NEW name, PushTo(from, name), root' = root
    PROVE  /\ Tree(node', root') /\ current' \in DOMAIN node'
           /\ Below(node', current') = Below(node, from) + 1
           /\ from # root => SameTop(node, node', root)
  <1>1. CASE Named(node, from, name) # {}
    <2> DEFINE kids == Children(node, from)
               N == Named(node, from, name)
    <2>1. kids \in Seq(DOMAIN node) /\ Elems(kids) = { m \in DOMAIN node : node[m].parent = from }
      BY ChildrenAre
    <2>2. N \in SUBSET (1..Len(kids)) /\ Len(kids) \in Nat
      BY <2>1 DEF Named
    <2>3. Match(N) \in N
      <3> HIDE DEF N, kids
      <3>1. \E i \in N : \A j \in N : i <= j
        BY <1>1, <2>2, LeastExists DEF N
      <3> QED
        BY <3>1 DEF Match
    <2>4. node' = node /\ current' = kids[Match(N)]
      BY <1>1 DEF PushTo
    <2>5. current' \in DOMAIN node /\ node[current'].parent = from
      <3> HIDE DEF N, kids
      <3>1. current' \in Elems(kids)
        BY <2>2, <2>3, <2>4 DEF Elems
      <3> QED
        BY <2>1, <3>1
    <2>6. Below(node, current') = Below(node, from) + 1
      BY <2>5, Depths
    <2> QED
      BY <2>4, <2>5, <2>6 DEF SameTop
  <1>2. CASE Named(node, from, name) = {}
    <2> DEFINE new == WithChild(node, from, name)
               id == Fresh(node)
    <2>0. root # Null /\ from \in Pointers(node) /\ from # Null
      BY NullIsNoNode DEF Tree, Shape, Pointers
    <2>1. node' = new /\ current' = id /\ HasRoom(node)
      BY <1>2 DEF PushTo
    <2>2. Tree(new, root) /\ Joined(node, new, from, id) /\ SameParents(node, new)
      BY <2>0, <2>1, WithChildTree
    <2> HIDE DEF new, id
    <2>3. id \in DOMAIN new /\ new[id].parent = from
      BY <2>2 DEF Joined
    <2>4. Below(new, id) = Below(new, from) + 1
      BY <2>2, <2>3, Depths
    <2>5. Below(new, from) = Below(node, from)
      BY <2>0, <2>2, DepthsStay
    <2> QED
      BY <2>1, <2>2, <2>3, <2>4, <2>5, JoinedBelow
  <1> QED
    BY <1>1, <1>2
(* The way down to a node.                                                 *)

LEMMA PathIs ==
    ASSUME NEW heap, NEW r, Tree(heap, r), NEW n \in DOMAIN heap
    PROVE  /\ heap[n].parent \in Pointers(heap)
           /\ PathTo(heap, n) \in Seq(DOMAIN heap)
           /\ PathTo(heap, heap[n].parent) \in Seq(DOMAIN heap)
           /\ PathTo(heap, n) = Append(PathTo(heap, heap[n].parent), n)
           /\ PathTo(heap, Null) = << >>
  <1>1. PICK f : IsPaths(heap, f) /\ \A k : PathTo(heap, k) = f[k]
    BY PathToIsPath DEF Tree
  <1>2. heap[n].parent \in Pointers(heap) /\ n \in Pointers(heap)
    BY DEF Tree, Shape, Pointers
  <1>3. f[n] = Append(f[heap[n].parent], n) /\ f[Null] = << >>
    BY <1>1 DEF IsPaths
  <1>4. f[n] \in Seq(DOMAIN heap) /\ f[heap[n].parent] \in Seq(DOMAIN heap)
    BY <1>1, <1>2 DEF IsPaths
  <1> QED
    BY <1>1, <1>2, <1>3, <1>4

(* On it, each node is as deep as its place.                               *)
LEMMA PathGoesDown ==
    ASSUME NEW heap, NEW r, Tree(heap, r), NEW n \in DOMAIN heap
    PROVE  \A i \in 1..Len(PathTo(heap, n)) :
              PathTo(heap, n)[i] \in DOMAIN heap /\ Below(heap, PathTo(heap, n)[i]) = i
  <1> DEFINE D == DOMAIN heap
             nx == ParentOf(heap)
             Goes(m) == \A i \in 1..Len(PathTo(heap, m)) :
                          PathTo(heap, m)[i] \in D /\ Below(heap, PathTo(heap, m)[i]) = i
             P == {m \in D : Goes(m)} \cup {Null}
  <1>1. nx \in [D -> D \cup {Null}] /\ Ends(D, nx) /\ \A m \in D : nx[m] = heap[m].parent
    BY ChainsOf DEF Tree, Pointers, ParentOf
  <1>2. ASSUME NEW m \in D, nx[m] \in P PROVE Goes(m)
    <2> DEFINE p == heap[m].parent
    <2>1. /\ PathTo(heap, m) = Append(PathTo(heap, p), m)
          /\ PathTo(heap, p) \in Seq(D) /\ PathTo(heap, Null) = << >>
      BY PathIs
    <2>2. p = Null \/ Goes(p)
      BY <1>1, <1>2
    <2>3. PICK s, t : s = PathTo(heap, p) /\ t = PathTo(heap, m)
      OBVIOUS
    <2>4. \A i \in 1..Len(s) : s[i] \in D /\ Below(heap, s[i]) = i
      BY <2>1, <2>2, <2>3
    <2>5. Below(heap, m) = Len(t)
      BY <2>3 DEF Below
    <2> HIDE DEF D
    <2>6. Len(t) = Len(s) + 1 /\ Len(s) \in Nat /\ t[Len(s) + 1] = m /\ \A i \in 1..Len(s) : t[i] = s[i]
      BY <2>1, <2>3
    <2>7. \A i \in 1..Len(t) : i = Len(t) \/ i \in 1..Len(s)
      BY <2>6
    <2>8. \A i \in 1..Len(t) : t[i] \in D /\ Below(heap, t[i]) = i
      BY <2>4, <2>5, <2>6, <2>7
    <2> QED
      BY <2>3, <2>8
  <1>3. Inherited(D, Null, nx, P)
    BY <1>2 DEF Inherited
  <1>4. D \subseteq P
    <2> HIDE DEF P, D, nx
    <2> QED
      BY <1>1, <1>3, ChainInduction
  <1>5. n \in P /\ n # Null
    BY <1>4, NullIsNoNode DEF Tree
  <1> QED
    BY <1>5

(* The lists of other nodes stay when a son is added.                      *)
LEMMA ChildrenStay ==
    ASSUME NEW heap, NEW r, Tree(heap, r), NEW parent \in DOMAIN heap, NEW new, NEW id,
           Joined(heap, new, parent, id), NEW n \in DOMAIN heap, n # parent
    PROVE  Children(new, n) = Children(heap, n)
  <1> DEFINE D == { m \in DOMAIN heap : heap[m].parent = n }
             nx == [m \in D |-> heap[m].next]
  <1>0. Null \notin DOMAIN heap /\ parent # Null /\ Tree(new, r)
    BY NullIsNoNode, NewFamily, NewReached, NewEnds DEF Tree
  <1>1. PICK f : IsLists(heap, f) /\ \A m : Children(heap, m) = f[heap[m].child]
    BY ChildrenIsList DEF Tree
  <1>2. PICK g : IsLists(new, g) /\ \A m : Children(new, m) = g[new[m].child]
    BY <1>0, ChildrenIsList DEF Tree
  <1>3. ASSUME NEW m \in D
        PROVE  /\ heap[m].next \in D \cup {Null} /\ new[m].next = heap[m].next
               /\ m \in DOMAIN heap /\ m \in DOMAIN new
    <2>1. heap[m].next \in Pointers(heap) /\ (heap[m].next # Null => heap[heap[m].next].parent = n)
      BY DEF Tree, Shape, Family
    <2>2. heap[parent].last # Null => heap[heap[parent].last].parent = parent
      BY DEF Tree, Family
    <2>3. heap[parent].last # m
      BY <1>0, <2>2
    <2> QED
      BY <2>1, <2>3 DEF Joined, Pointers
  <1>4. nx \in [D -> D \cup {Null}] /\ \A m \in D : nx[m] = heap[m].next
    BY <1>3
  <1>5. Ends(D, nx)
    <2>1. \A S \in SUBSET DOMAIN heap : S # {} => \E m \in S : heap[m].next \notin S
      BY DEF Tree, Ends, NextOf
    <2> QED
      BY <2>1 DEF Ends
  <1> HIDE DEF nx
  <1>6. Agreeing(D, Null, nx, g, f)
    <2>1. g[Null] = f[Null]
      BY <1>1, <1>2 DEF IsLists
    <2>2. ASSUME NEW m \in D, g[nx[m]] = f[nx[m]] PROVE g[m] = f[m]
      <3>0. /\ m \in DOMAIN heap /\ heap[m].next = nx[m]
            /\ m \in DOMAIN new /\ new[m].next = nx[m]
        BY <1>3, <1>4
      <3>1. f[m] = <<m>> \o f[nx[m]]
        BY <1>1, <3>0 DEF IsLists
      <3>2. g[m] = <<m>> \o g[nx[m]]
        BY <1>2, <3>0 DEF IsLists
      <3> QED
        BY <2>2, <3>1, <3>2
    <2> HIDE DEF D
    <2> QED
      BY <2>1, <2>2 DEF Agreeing
  <1>7. Alike(D, Null, g, f)
    <2> HIDE DEF D
    <2> QED
      BY <1>4, <1>5, <1>6, ChainUnique
  <1>8. new[n].child = heap[n].child /\ heap[n].child \in D \cup {Null}
    <2>1. heap[n].child \in Pointers(heap) /\ (heap[n].child # Null => heap[heap[n].child].parent = n)
      BY DEF Tree, Shape, Family
    <2> QED
      BY <2>1 DEF Joined, Pointers
  <1> QED
    BY <1>1, <1>2, <1>7, <1>8 DEF Alike
-----------------------------------------------------------------------------
(* Steps of the parser and of the cursor.                                  *)

SameNames(heap, new) == \A m \in DOMAIN heap : new[m].name = heap[m].name

LEMMA WithChildNames ==
    ASSUME NEW heap, NEW r, Tree(heap, r), HasRoom(heap), NEW parent, NEW name
    PROVE  /\ SameNames(heap, WithChild(heap, parent, name))
           /\ WithChild(heap, parent, name)[Fresh(heap)].name = name
  <1> DEFINE id == Fresh(heap)
             new == WithChild(heap, parent, name)
             prev == IF parent = Null THEN Null ELSE heap[parent].last
  <1>1. id \notin DOMAIN heap
    BY FreshIs DEF Tree
  <1>2. new = [n \in DOMAIN heap \cup {id} |->
                 IF n = id
                   THEN Born(name, parent, IF prev = Null THEN Null ELSE heap[prev].next)
                   ELSE [heap[n] EXCEPT !.next  = IF n = prev THEN id ELSE @,
                                        !.last  = IF n = parent THEN id ELSE @,
                                        !.child = IF n = parent /\ prev = Null THEN id ELSE @]]
    BY DEF WithChild
  <1> HIDE DEF id, new, prev
  <1>3. new[id].name = name
    BY <1>2 DEF Born
  <1>4. ASSUME NEW n \in DOMAIN heap PROVE new[n].name = heap[n].name
    <2>1. DOMAIN heap[n] = NodeFields
      BY DEF Tree, Shape
    <2>2. new[n] = [heap[n] EXCEPT !.next  = IF n = prev THEN id ELSE @,
                                   !.last  = IF n = parent THEN id ELSE @,
                                   !.child = IF n = parent /\ prev = Null THEN id ELSE @]
      BY <1>1, <1>2
    <2> QED
      BY <2>1, <2>2 DEF NodeFields
  <1> QED
    BY <1>3, <1>4 DEF SameNames, id, new

(* What expat's handlers keep, at the depth they count.                    *)
AtDepth(heap, r, n, d) ==
  /\ Tree(heap, r) /\ n \in Pointers(heap)
  /\ d \in Nat /\ Below(heap, n) = d

LEMMA StartElementDeeper ==
    ASSUME AtDepth(node, root, current, depth), depth = 0 => root = Null, NEW name, StartElement(name)
    PROVE  AtDepth(node', root', current', depth')
  <1> DEFINE new == WithChild(node, current, name)
             id == Fresh(node)
             r == IF root = Null THEN id ELSE root
  <1>1. /\ HasRoom(node) /\ node' = new /\ current' = id /\ root' = r /\ depth' = depth + 1
    BY DEF StartElement
  <1>2. current = Null => root = Null
    BY OnlyNullIsAtTop DEF AtDepth
  <1>3. Tree(new, r) /\ Joined(node, new, current, id) /\ SameParents(node, new)
    BY <1>1, <1>2, WithChildTree DEF AtDepth
  <1> HIDE DEF new, id, r
  <1>4. id \in DOMAIN new /\ new[id].parent = current
    BY <1>3 DEF Joined
  <1>5. Below(new, id) = Below(new, current) + 1
    BY <1>3, <1>4, Depths
  <1>6. Below(new, current) = Below(node, current)
    BY <1>3, DepthsStay DEF AtDepth
  <1>7. Tree(node', root') /\ current' \in Pointers(node') /\ Below(node', current') = Below(node, current) + 1
    BY <1>1, <1>3, <1>4, <1>5, <1>6 DEF Pointers
  <1>8. depth' \in Nat /\ depth' = Below(node, current) + 1
    BY <1>1 DEF AtDepth
  <1> QED
    BY <1>7, <1>8 DEF AtDepth

LEMMA CharDataStays ==
    ASSUME AtDepth(node, root, current, depth), NEW s, CharData(s)
    PROVE  AtDepth(node', root', current', depth') /\ root' = root /\ depth' = depth
  <1>1. PICK v : /\ node' = node \/ node' = [node EXCEPT ![current].value = v]
                 /\ root' = root /\ current' = current /\ depth' = depth
    <2>1. node' = node \/ node' = [node EXCEPT ![current].value = node[current].value \o Leading(node[current].value, s)]
      BY DEF CharData
    <2>2. root' = root /\ current' = current /\ depth' = depth
      BY DEF CharData
    <2> QED
      BY <2>1, <2>2
  <1>2. CASE node' = node
    BY <1>1, <1>2
  <1>3. CASE node' = [node EXCEPT ![current].value = v]
    <2>1. PICK new : new = [node EXCEPT ![current].value = v]
      OBVIOUS
    <2>2. SameLinks(node, new)
      BY <2>1, WriteValue DEF AtDepth
    <2>3. Tree(new, root) /\ SameParents(node, new)
      BY <2>2, SameLinksTree DEF AtDepth
    <2>4. Below(new, current) = Below(node, current)
      BY <2>3, DepthsStay DEF AtDepth
    <2>5. Pointers(new) = Pointers(node)
      BY <2>2 DEF SameLinks, Pointers
    <2>6. AtDepth(new, root, current, depth)
      BY <2>3, <2>4, <2>5 DEF AtDepth
    <2> QED
      BY <1>1, <1>3, <2>1, <2>6
  <1> QED
    BY <1>1, <1>2, <1>3

LEMMA EndElementHigher ==
    ASSUME AtDepth(node, root, current, depth), depth # 0, EndElement
    PROVE  AtDepth(node', root', current', depth') /\ root' = root /\ depth' = depth - 1
  <1>1. PICK v : v = Trimmed(node[current].value)
    OBVIOUS
  <1>2. PICK new : new = [node EXCEPT ![current].value = v]
    OBVIOUS
  <1>3. node' = new /\ current' = node[current].parent /\ root' = root /\ depth' = depth - 1
    BY <1>1, <1>2 DEF EndElement
  <1>4. SameLinks(node, new)
    BY <1>2, WriteValue DEF AtDepth
  <1>5. Tree(new, root) /\ SameParents(node, new)
    BY <1>4, SameLinksTree DEF AtDepth
  <1>6. current \in DOMAIN node
    BY OnlyNullIsAtTop DEF AtDepth, Pointers
  <1>7. node[current].parent \in Pointers(node) /\ Below(node, current) = Below(node, node[current].parent) + 1
    BY <1>6, Depths DEF AtDepth, Tree, Shape
  <1>8. Below(node, node[current].parent) \in Nat
    BY <1>7, Depths DEF AtDepth
  <1>9. Below(new, node[current].parent) = Below(node, node[current].parent)
    BY <1>5, <1>7, DepthsStay DEF AtDepth
  <1>10. Pointers(new) = Pointers(node)
    BY <1>4 DEF SameLinks, Pointers
  <1>11. PICK p : p = node[current].parent
    OBVIOUS
  <1>12. AtDepth(new, root, p, depth - 1)
    BY <1>5, <1>7, <1>8, <1>9, <1>10, <1>11 DEF AtDepth
  <1> QED
    BY <1>3, <1>11, <1>12

(* A label moves the cursor to a child of that name, and changes no list   *)
(* but the one it walks.                                                   *)
LEMMA PushIs ==
    ASSUME Tree(node, root), NEW from \in DOMAIN node, NEW name, PushTo(from, name)
    PROVE  /\ SameParents(node, node') /\ SameNames(node, node')
           /\ node'[current'].parent = from /\ node'[current'].name = name
           /\ \A n \in DOMAIN node : n # from => Children(node', n) = Children(node, n)
  <1>1. CASE Named(node, from, name) # {}
    <2> DEFINE kids == Children(node, from)
               N == Named(node, from, name)
    <2>1. kids \in Seq(DOMAIN node) /\ Elems(kids) = { m \in DOMAIN node : node[m].parent = from }
      BY ChildrenAre
    <2>2. N \in SUBSET (1..Len(kids)) /\ Len(kids) \in Nat
      BY <2>1 DEF Named
    <2>3. Match(N) \in N
      <3> HIDE DEF N, kids
      <3>1. \E i \in N : \A j \in N : i <= j
        BY <1>1, <2>2, LeastExists DEF N
      <3> QED
        BY <3>1 DEF Match
    <2>4. node' = node /\ current' = kids[Match(N)]
      BY <1>1 DEF PushTo
    <2>5. node[current'].name = name
      BY <2>3, <2>4 DEF Named
    <2>6. node[current'].parent = from
      <3> HIDE DEF N, kids
      <3>1. current' \in Elems(kids)
        BY <2>2, <2>3, <2>4 DEF Elems
      <3> QED
        BY <2>1, <3>1
    <2>7. SameParents(node, node) /\ SameNames(node, node)
      BY DEF SameParents, SameNames
    <2> QED
      BY <2>4, <2>5, <2>6, <2>7
  <1>2. CASE Named(node, from, name) = {}
    <2>0. root # Null /\ from \in Pointers(node) /\ from # Null
      BY NullIsNoNode DEF Tree, Shape, Pointers
    <2>1. PICK new, id : new = WithChild(node, from, name) /\ id = Fresh(node)
      OBVIOUS
    <2>2. node' = new /\ current' = id /\ HasRoom(node)
      BY <1>2, <2>1 DEF PushTo
    <2>3. Tree(new, root) /\ Joined(node, new, from, id) /\ SameParents(node, new)
      BY <2>0, <2>1, <2>2, WithChildTree
    <2>4. SameNames(node, new) /\ new[id].name = name
      BY <2>1, <2>2, WithChildNames
    <2>5. new[id].parent = from
      BY <2>3 DEF Joined
    <2>6. \A n \in DOMAIN node : n # from => Children(new, n) = Children(node, n)
      BY <2>3, ChildrenStay
    <2> QED
      BY <2>2, <2>3, <2>4, <2>5, <2>6
  <1> QED
    BY <1>1, <1>2

-----------------------------------------------------------------------------
(* What is below a node, as a value.                                       *)

\* Among some nodes there is one that has no child among them.
LEMMA LowestExists ==
    ASSUME NEW heap, NEW r, Tree(heap, r), NEW S \in SUBSET DOMAIN heap, S # {}
    PROVE  \E m \in S : \A k \in S : heap[k].parent # m
  <1> DEFINE N == DOMAIN heap
             Deep(m) == { n \in N : Below(heap, n) >= Below(heap, m) }
             F == { Deep(m) : m \in S }
  <1>1. IsWellFoundedOn(StrictSubsetOrdering(N), SUBSET N)
    <2>1. 1..MaxNodes \in SUBSET (1..MaxNodes) /\ IsFiniteSet(1..MaxNodes)
      BY TreeAssumption, FS_Interval
    <2>2. IsFiniteSet(N)
      BY <2>1, FS_Subset DEF Tree, Shape
    <2> QED
      BY <2>2, FS_StrictSubsetOrderingWellFounded, FS_FiniteSubsetsOfFinite
  <1>2. F \subseteq SUBSET N /\ F # {}
    OBVIOUS
  <1>3. PICK X \in F : \A Y \in F : <<Y, X>> \notin StrictSubsetOrdering(N)
    <2> HIDE DEF N, F
    <2> QED
      BY <1>1, <1>2, WFMin
  <1>4. PICK m \in S : X = Deep(m)
    BY <1>3
  <1>5. ASSUME NEW k \in S, heap[k].parent = m PROVE FALSE
    <2>1. Below(heap, k) = Below(heap, m) + 1 /\ Below(heap, m) \in Nat /\ k \in N /\ m \in N
      BY <1>5, Depths DEF Pointers
    <2>2. \A n \in N : Below(heap, n) \in Nat
      BY Depths DEF Pointers
    <2>3. Deep(k) \subseteq Deep(m) /\ m \in Deep(m) /\ m \notin Deep(k)
      <3>1. \A n \in N : Below(heap, n) >= Below(heap, k) => Below(heap, n) >= Below(heap, m)
        BY <2>1, <2>2
      <3>2. Below(heap, m) >= Below(heap, m) /\ ~(Below(heap, m) >= Below(heap, k))
        BY <2>1
      <3> QED
        BY <2>1, <3>1, <3>2
    <2>4. Deep(k) \in F /\ Deep(k) \in SUBSET N /\ Deep(m) \in SUBSET N
      OBVIOUS
    <2> HIDE DEF Deep, F, N
    <2> QED
      BY <1>3, <1>4, <2>3, <2>4 DEF StrictSubsetOrdering
  <1> QED
    BY <1>5

\* What m is, when b says what its children are.
Elem(heap, b, m) ==
  [name |-> heap[m].name, text |-> heap[m].value,
   kids |-> [i \in 1..Len(Children(heap, m)) |-> b[Children(heap, m)[i]]]]

\* b says it of some nodes and of all there is below them.
Solves(heap, b) ==
  /\ DOMAIN b \subseteq DOMAIN heap
  /\ \A m \in DOMAIN b : Elems(Children(heap, m)) \subseteq DOMAIN b /\ b[m] = Elem(heap, b, m)

\* The nodes S, and all there is below them, are the same in two heaps.
SameBelow(heap, new, S) ==
  \A m \in S : /\ new[m].name = heap[m].name /\ new[m].value = heap[m].value
               /\ Children(new, m) = Children(heap, m) /\ Elems(Children(heap, m)) \subseteq S

LEMMA SolutionsAgree ==
    ASSUME NEW heap, NEW r, Tree(heap, r), NEW new, NEW S, SameBelow(heap, new, S),
           NEW b, Solves(heap, b), NEW c, Solves(new, c), S \subseteq DOMAIN b, S \subseteq DOMAIN c
    PROVE  \A m \in S : c[m] = b[m]
  <1> DEFINE T == { m \in S : c[m] # b[m] }
  <1>1. SUFFICES ASSUME T # {} PROVE FALSE
    OBVIOUS
  <1>2. PICK m \in T : \A k \in T : heap[k].parent # m
    <2>1. T \in SUBSET DOMAIN heap
      BY DEF Solves
    <2> HIDE DEF T
    <2> QED
      BY <1>1, <2>1, LowestExists
  <1>3. m \in DOMAIN heap /\ m \in S /\ c[m] # b[m]
    BY DEF Solves
  <1>4. PICK s : s = Children(heap, m)
    OBVIOUS
  <1>5. s \in Seq(DOMAIN heap) /\ Elems(s) = { k \in DOMAIN heap : heap[k].parent = m }
        /\ Children(new, m) = s /\ Elems(s) \subseteq S
    BY <1>3, <1>4, ChildrenAre DEF SameBelow
  <1>6. \A i \in 1..Len(s) : c[s[i]] = b[s[i]]
    <2>1. \A i \in 1..Len(s) : s[i] \in S /\ heap[s[i]].parent = m
      BY <1>5 DEF Elems
    <2> QED
      BY <1>2, <2>1
  <1>7. [i \in 1..Len(s) |-> c[s[i]]] = [i \in 1..Len(s) |-> b[s[i]]]
    BY <1>6
  <1>8. c[m] = Elem(new, c, m) /\ b[m] = Elem(heap, b, m)
    BY <1>3 DEF Solves
  <1>9. Elem(new, c, m) = Elem(heap, b, m)
    <2> HIDE DEF T
    <2>1. new[m].name = heap[m].name /\ new[m].value = heap[m].value
      BY <1>3 DEF SameBelow
    <2> QED
      BY <1>4, <1>5, <1>7, <2>1 DEF Elem
  <1> QED
    BY <1>3, <1>8, <1>9

LEMMA SolutionExists ==
    ASSUME NEW heap, NEW r, Tree(heap, r)
    PROVE  \E b : Solves(heap, b) /\ DOMAIN b = DOMAIN heap
  <1> DEFINE D == DOMAIN heap
             P == { m \in D : \E b : Solves(heap, b) /\ m \in DOMAIN b }
             v == [m \in P |-> (CHOOSE b : Solves(heap, b) /\ m \in DOMAIN b)[m]]
  <1>1. \A b : Solves(heap, b) => DOMAIN b \subseteq P /\ \A m \in DOMAIN b : v[m] = b[m]
    <2> SUFFICES ASSUME NEW b, Solves(heap, b), NEW m \in DOMAIN b PROVE m \in P /\ v[m] = b[m]
      OBVIOUS
    <2>1. m \in P
      BY DEF Solves
    <2>2. PICK c : c = (CHOOSE a : Solves(heap, a) /\ m \in DOMAIN a)
      OBVIOUS
    <2>3. Solves(heap, c) /\ m \in DOMAIN c
      BY <2>2
    <2>4. v[m] = c[m]
      BY <2>1, <2>2
    <2> DEFINE S == DOMAIN b \cap DOMAIN c
    <2>5. SameBelow(heap, heap, S)
      BY <2>3 DEF SameBelow, Solves
    <2>6. c[m] = b[m]
      <3>1. S \subseteq DOMAIN b /\ S \subseteq DOMAIN c /\ m \in S
        BY <2>3
      <3> HIDE DEF S
      <3> QED
        BY <2>3, <2>5, <3>1, SolutionsAgree
    <2> QED
      BY <2>1, <2>4, <2>6
  <1>2. DOMAIN v = P /\ P \subseteq D
    OBVIOUS
  <1> HIDE DEF v
  <1>3. \A m \in P : Elems(Children(heap, m)) \subseteq P /\ v[m] = Elem(heap, v, m)
    <2> TAKE m \in P
    <2>1. PICK b : Solves(heap, b) /\ m \in DOMAIN b
      OBVIOUS
    <2>2. Elems(Children(heap, m)) \subseteq DOMAIN b /\ b[m] = Elem(heap, b, m)
      BY <2>1 DEF Solves
    <2>3. DOMAIN b \subseteq P /\ \A k \in DOMAIN b : v[k] = b[k]
      BY <1>1, <2>1
    <2>4. \A i \in 1..Len(Children(heap, m)) : v[Children(heap, m)[i]] = b[Children(heap, m)[i]]
      BY <2>2, <2>3 DEF Elems
    <2>5. [i \in 1..Len(Children(heap, m)) |-> v[Children(heap, m)[i]]]
            = [i \in 1..Len(Children(heap, m)) |-> b[Children(heap, m)[i]]]
      BY <2>4
    <2>6. Elem(heap, v, m) = Elem(heap, b, m)
      BY <2>5 DEF Elem
    <2> HIDE DEF P
    <2> QED
      BY <2>1, <2>2, <2>3, <2>6
  <1>4. Solves(heap, v)
    <2> HIDE DEF P
    <2> QED
      BY <1>2, <1>3 DEF Solves
  <1>5. ASSUME D \ P # {} PROVE FALSE
    <2>1. PICK m \in D \ P : \A k \in D \ P : heap[k].parent # m
      <3> HIDE DEF P
      <3> QED
        BY <1>5, LowestExists
    <2>2. Elems(Children(heap, m)) \subseteq P
      <3> HIDE DEF P
      <3> QED
        BY <2>1, ChildrenAre
    <2>3. PICK c : c = [k \in P \cup {m} |-> IF k = m THEN Elem(heap, v, m) ELSE v[k]]
      OBVIOUS
    <2>4. DOMAIN c = P \cup {m} /\ c[m] = Elem(heap, v, m) /\ \A k \in P : c[k] = v[k]
      <3> HIDE DEF P
      <3> QED
        BY <2>1, <2>3
    <2>5. ASSUME NEW k \in P \cup {m}
          PROVE  Elems(Children(heap, k)) \subseteq DOMAIN c /\ c[k] = Elem(heap, c, k)
      <3> HIDE DEF P
      <3>1. Elems(Children(heap, k)) \subseteq P /\ c[k] = Elem(heap, v, k)
        BY <1>3, <2>2, <2>4
      <3>2. \A i \in 1..Len(Children(heap, k)) : c[Children(heap, k)[i]] = v[Children(heap, k)[i]]
        BY <2>4, <3>1 DEF Elems
      <3>3. [i \in 1..Len(Children(heap, k)) |-> c[Children(heap, k)[i]]]
              = [i \in 1..Len(Children(heap, k)) |-> v[Children(heap, k)[i]]]
        BY <3>2
      <3>4. Elem(heap, c, k) = Elem(heap, v, k)
        BY <3>3 DEF Elem
      <3> QED
        BY <2>4, <3>1, <3>4
    <2>6. Solves(heap, c) /\ m \in DOMAIN c
      <3> HIDE DEF P
      <3> QED
        BY <1>2, <2>1, <2>4, <2>5 DEF Solves
    <2> QED
      BY <2>1, <2>6
  <1> QED
    <2>1. P = D
      BY <1>5
    <2> HIDE DEF P
    <2> QED
      BY <1>2, <1>4, <2>1

\* The value of a node is made of the values of its children.
LEMMA ValueIs ==
    ASSUME NEW heap, NEW r, Tree(heap, r)
    PROVE  \A n \in DOMAIN heap :
             Value(heap, n) = [name |-> heap[n].name, text |-> heap[n].value,
                               kids |-> [i \in 1..Len(Children(heap, n)) |-> Value(heap, Children(heap, n)[i])]]
  <1> DEFINE Eq(b) == b = [m \in DOMAIN heap |->
                             [name |-> heap[m].name, text |-> heap[m].value,
                              kids |-> [i \in 1..Len(Children(heap, m)) |-> b[Children(heap, m)[i]]]]]
             h == CHOOSE b : Eq(b)
  <1>1. \A n : Value(heap, n) = h[n]
    BY DEF Value
  <1>2. PICK b : Solves(heap, b) /\ DOMAIN b = DOMAIN heap
    BY SolutionExists
  <1>3. PICK c : c = [m \in DOMAIN heap |-> b[m]]
    OBVIOUS
  <1>4. Eq(c)
    <2>1. \A m \in DOMAIN heap : b[m] = Elem(heap, b, m) /\ c[m] = b[m] /\ Elems(Children(heap, m)) \subseteq DOMAIN heap
      BY <1>2, <1>3 DEF Solves
    <2>2. ASSUME NEW m \in DOMAIN heap
          PROVE  c[m] = [name |-> heap[m].name, text |-> heap[m].value,
                         kids |-> [i \in 1..Len(Children(heap, m)) |-> c[Children(heap, m)[i]]]]
      <3>1. \A i \in 1..Len(Children(heap, m)) : c[Children(heap, m)[i]] = b[Children(heap, m)[i]]
        BY <2>1 DEF Elems
      <3>2. [i \in 1..Len(Children(heap, m)) |-> c[Children(heap, m)[i]]]
              = [i \in 1..Len(Children(heap, m)) |-> b[Children(heap, m)[i]]]
        BY <3>1
      <3> QED
        BY <2>1, <3>2 DEF Elem
    <2> QED
      BY <1>3, <2>2
  <1>5. Eq(h)
    <2> HIDE DEF Eq
    <2> QED
      BY <1>4
  <1>6. \A n \in DOMAIN heap : h[n] = [name |-> heap[n].name, text |-> heap[n].value,
                                       kids |-> [i \in 1..Len(Children(heap, n)) |-> h[Children(heap, n)[i]]]]
    <2> HIDE DEF h
    <2> QED
      BY <1>5
  <1> HIDE DEF h
  <1> QED
    BY <1>1, <1>6

LEMMA ValuesStay ==
    ASSUME NEW heap, NEW r, Tree(heap, r), NEW new, NEW q, Tree(new, q), NEW S,
           S \subseteq DOMAIN heap, S \subseteq DOMAIN new, SameBelow(heap, new, S)
    PROVE  \A n \in S : Value(new, n) = Value(heap, n)
  <1> DEFINE Values(hp) == [n \in DOMAIN hp |-> Value(hp, n)]
  <1>1. ASSUME NEW hp, NEW t, Tree(hp, t) PROVE Solves(hp, Values(hp)) /\ DOMAIN Values(hp) = DOMAIN hp
    <2>1. ASSUME NEW m \in DOMAIN hp
          PROVE  Elems(Children(hp, m)) \subseteq DOMAIN hp /\ Values(hp)[m] = Elem(hp, Values(hp), m)
      <3>1. Elems(Children(hp, m)) \subseteq DOMAIN hp
        BY <1>1, ChildrenAre
      <3>2. \A i \in 1..Len(Children(hp, m)) : Values(hp)[Children(hp, m)[i]] = Value(hp, Children(hp, m)[i])
        BY <3>1 DEF Elems
      <3>3. [i \in 1..Len(Children(hp, m)) |-> Values(hp)[Children(hp, m)[i]]]
              = [i \in 1..Len(Children(hp, m)) |-> Value(hp, Children(hp, m)[i])]
        BY <3>2
      <3>4. Values(hp)[m] = Value(hp, m)
        OBVIOUS
      <3> HIDE DEF Values
      <3> QED
        BY <1>1, <3>1, <3>3, <3>4, ValueIs DEF Elem
    <2>2. DOMAIN Values(hp) = DOMAIN hp
      OBVIOUS
    <2> HIDE DEF Values
    <2> QED
      BY <2>1, <2>2 DEF Solves
  <1>2. \A n \in S : Values(new)[n] = Value(new, n) /\ Values(heap)[n] = Value(heap, n)
    OBVIOUS
  <1> HIDE DEF Values
  <1>3. Solves(heap, Values(heap)) /\ Solves(new, Values(new))
        /\ DOMAIN Values(heap) = DOMAIN heap /\ DOMAIN Values(new) = DOMAIN new
    BY <1>1
  <1>4. \A n \in S : Values(new)[n] = Values(heap)[n]
    BY <1>3, SolutionsAgree
  <1> QED
    BY <1>2, <1>4

-----------------------------------------------------------------------------
(* The lists of children, more precisely: in order, and what is put behind.*)

\* A list whose elements are each other's next.
Linked(heap, s) ==
  \A j \in 1..Len(s) : heap[s[j]].next = IF j = Len(s) THEN Null ELSE s[j + 1]

LEMMA ListsAreLinked ==
    ASSUME NEW heap, NEW r, Tree(heap, r), NEW f, IsLists(heap, f)
    PROVE  \A m \in DOMAIN heap : Linked(heap, f[m]) /\ f[m] # << >> /\ f[m][1] = m
  <1> DEFINE D == DOMAIN heap
             nx == NextOf(heap)
             P == {m \in D : Linked(heap, f[m]) /\ f[m] # << >> /\ f[m][1] = m} \cup {Null}
  <1>1. nx \in [D -> D \cup {Null}] /\ Ends(D, nx) /\ \A m \in D : nx[m] = heap[m].next
    BY ChainsOf DEF Tree, Pointers, NextOf
  <1>2. ASSUME NEW m \in D, nx[m] \in P PROVE m \in P
    <2>1. PICK k, s : k = heap[m].next /\ s = f[k]
      OBVIOUS
    <2>2. f[m] = <<m>> \o s /\ s \in Seq(D) /\ f[m] \in Seq(D)
      BY <2>1 DEF IsLists, Tree, Shape, Pointers
    <2>3. Len(f[m]) = Len(s) + 1 /\ f[m][1] = m /\ f[m] # << >>
          /\ \A j \in 1..Len(s) : f[m][j + 1] = s[j]
      BY <2>2
    <2>4. k \in P
      BY <1>1, <1>2, <2>1
    <2>5. CASE k = Null
      <3>1. s = << >> /\ heap[m].next = Null
        BY <2>1, <2>5 DEF IsLists
      <3>2. Len(f[m]) = 1 /\ f[m][1] = m
        BY <2>3, <3>1
      <3>3. \A j \in 1..1 : heap[f[m][j]].next = Null
        BY <3>1, <3>2
      <3>4. Linked(heap, f[m])
        BY <3>2, <3>3 DEF Linked
      <3> QED
        BY <2>3, <3>4
    <2>6. CASE k # Null
      <3>1. Linked(heap, s) /\ s # << >> /\ s[1] = k
        BY <2>1, <2>4, <2>6
      <3>2. ASSUME NEW j \in 1..Len(f[m])
            PROVE  heap[f[m][j]].next = IF j = Len(f[m]) THEN Null ELSE f[m][j + 1]
        <4>1. CASE j = 1
          BY <2>1, <2>2, <2>3, <3>1, <4>1
        <4>2. CASE j # 1
          <5>1. PICK i \in 1..Len(s) : j = i + 1
            BY <2>2, <2>3, <4>2
          <5>2. heap[s[i]].next = IF i = Len(s) THEN Null ELSE s[i + 1]
            BY <3>1 DEF Linked
          <5>3. i # Len(s) => i + 1 \in 1..Len(s)
            BY <2>2
          <5>4. i # Len(s) => f[m][j + 1] = s[i + 1]
            BY <2>3, <5>1, <5>3
          <5>5. j = Len(f[m]) <=> i = Len(s)
            BY <2>2, <2>3, <5>1
          <5> QED
            BY <2>3, <5>1, <5>2, <5>4, <5>5
        <4> QED
          BY <4>1, <4>2
      <3> QED
        BY <2>3, <3>2 DEF Linked
    <2> QED
      BY <2>5, <2>6
  <1>3. Inherited(D, Null, nx, P)
    BY <1>2 DEF Inherited
  <1>4. D \subseteq P
    <2> HIDE DEF D, nx, P
    <2> QED
      BY <1>1, <1>3, ChainInduction
  <1>5. Null \notin D
    BY NullIsNoNode DEF Tree
  <1> QED
    BY <1>4, <1>5

LEMMA ChildrenAreLinked ==
    ASSUME NEW heap, NEW r, Tree(heap, r), NEW n \in DOMAIN heap
    PROVE  Linked(heap, Children(heap, n))
  <1>1. PICK f : IsLists(heap, f) /\ \A m : Children(heap, m) = f[heap[m].child]
    BY ChildrenIsList DEF Tree
  <1>2. CASE heap[n].child = Null
    <2>1. Children(heap, n) = << >>
      BY <1>1, <1>2 DEF IsLists
    <2> QED
      BY <2>1 DEF Linked
  <1>3. CASE heap[n].child \in DOMAIN heap
    BY <1>1, <1>3, ListsAreLinked
  <1> QED
    BY <1>2, <1>3 DEF Tree, Shape, Pointers

\* Only the last child is last.
LEMMA LastIsLast ==
    ASSUME NEW heap, NEW r, Tree(heap, r), NEW n \in DOMAIN heap,
           NEW j \in 1..Len(Children(heap, n)), Children(heap, n)[j] = heap[n].last
    PROVE  j = Len(Children(heap, n))
  <1>1. PICK s : s = Children(heap, n)
    OBVIOUS
  <1>2. s \in Seq(DOMAIN heap) /\ s # << >> /\ heap[n].last = s[Len(s)] /\ Linked(heap, s)
    BY <1>1, ChildrenAre, ChildrenAreLinked
  <1>3. SUFFICES ASSUME j # Len(s) PROVE FALSE
    BY <1>1
  <1>4. heap[s[j]].next = s[j + 1] /\ s[j + 1] \in DOMAIN heap /\ heap[s[Len(s)]].next = Null
    BY <1>1, <1>2, <1>3 DEF Linked
  <1> QED
    BY <1>1, <1>2, <1>4, NullIsNoNode DEF Tree

\* A new child is put behind the others.
LEMMA ChildrenAppend ==
    ASSUME NEW heap, NEW r, Tree(heap, r), NEW parent \in DOMAIN heap, NEW new, NEW id,
           Joined(heap, new, parent, id)
    PROVE  Children(new, parent) = Append(Children(heap, parent), id)
  <1> DEFINE D == { m \in DOMAIN heap : heap[m].parent = parent }
             nx == [m \in D |-> heap[m].next]
  <1>0. Null \notin DOMAIN heap /\ parent # Null /\ Tree(new, r)
    BY NullIsNoNode, NewFamily, NewReached, NewEnds DEF Tree
  <1>1. PICK f : IsLists(heap, f) /\ \A m : Children(heap, m) = f[heap[m].child]
    BY ChildrenIsList DEF Tree
  <1>2. PICK g : IsLists(new, g) /\ \A m : Children(new, m) = g[new[m].child]
    BY <1>0, ChildrenIsList DEF Tree
  <1> DEFINE P == { m \in D : g[m] = Append(f[m], id) } \cup {Null}
  <1>3. id \in DOMAIN new /\ g[id] = <<id>>
    <2>1. id \in DOMAIN new /\ new[id].next = Null
      BY DEF Joined
    <2>2. g[id] = <<id>> \o g[Null] /\ g[Null] = << >>
      BY <1>2, <2>1 DEF IsLists
    <2> QED
      BY <2>1, <2>2
  <1>4. ASSUME NEW m \in D
        PROVE  /\ heap[m].next \in D \cup {Null} /\ m \in DOMAIN heap /\ m \in DOMAIN new
               /\ new[m].next = IF heap[m].next = Null THEN id ELSE heap[m].next
    <2>1. heap[m].next \in Pointers(heap) /\ (heap[m].next # Null => heap[heap[m].next].parent = parent)
      BY DEF Tree, Shape, Family
    <2>2. m # r /\ (heap[m].next = Null => heap[parent].last = m)
          /\ (heap[parent].last # Null => heap[heap[parent].last].next = Null)
      BY <1>0 DEF Tree, Family
    <2>3. heap[m].next = Null <=> heap[parent].last = m
      BY <1>0, <2>2
    <2> QED
      BY <1>0, <2>1, <2>3 DEF Joined, Pointers
  <1>5. nx \in [D -> D \cup {Null}] /\ \A m \in D : nx[m] = heap[m].next
    BY <1>4
  <1>6. Ends(D, nx)
    <2>1. \A S \in SUBSET DOMAIN heap : S # {} => \E m \in S : heap[m].next \notin S
      BY DEF Tree, Ends, NextOf
    <2> QED
      BY <2>1 DEF Ends
  <1>7. ASSUME NEW m \in D, nx[m] \in P PROVE m \in P
    <2>1. PICK k : k = heap[m].next
      OBVIOUS
    <2>2. f[m] = <<m>> \o f[k] /\ f[k] \in Seq(DOMAIN heap)
      BY <1>1, <1>4, <2>1 DEF IsLists, Pointers
    <2>3. CASE k = Null
      <3>1. f[k] = << >> /\ new[m].next = id
        BY <1>1, <1>4, <2>1, <2>3 DEF IsLists
      <3>2. g[m] = <<m>> \o <<id>>
        BY <1>2, <1>3, <1>4, <3>1 DEF IsLists
      <3>3. g[m] = Append(f[m], id)
        BY <2>2, <3>1, <3>2
      <3> QED
        BY <3>3
    <2>4. CASE k # Null
      <3>1. new[m].next = k /\ k \in P
        BY <1>4, <1>5, <1>7, <2>1, <2>4
      <3>2. g[k] = Append(f[k], id)
        BY <2>4, <3>1
      <3>3. g[m] = <<m>> \o Append(f[k], id)
        BY <1>2, <1>4, <3>1, <3>2 DEF IsLists
      <3>4. g[m] = Append(f[m], id)
        BY <2>2, <3>3
      <3> QED
        BY <3>4
    <2> QED
      BY <2>3, <2>4
  <1>8. D \subseteq P
    <2>1. Inherited(D, Null, nx, P)
      BY <1>7 DEF Inherited
    <2> HIDE DEF D, nx, P
    <2> QED
      BY <1>5, <1>6, <2>1, ChainInduction
  <1>9. CASE heap[parent].child = Null
    <2>1. new[parent].child = id /\ Children(heap, parent) = << >>
      BY <1>1, <1>9 DEF Tree, Family, Joined, IsLists
    <2>2. Append(<< >>, id) = <<id>>
      OBVIOUS
    <2> QED
      BY <1>2, <1>3, <2>1, <2>2
  <1>10. CASE heap[parent].child # Null
    <2>1. heap[parent].child \in D /\ heap[parent].last # Null
      BY <1>10 DEF Tree, Shape, Family, Pointers
    <2>2. new[parent].child = heap[parent].child
      BY <2>1 DEF Joined
    <2>3. g[heap[parent].child] = Append(f[heap[parent].child], id)
      BY <1>0, <1>8, <2>1
    <2> QED
      BY <1>1, <1>2, <2>2, <2>3
  <1> QED
    BY <1>9, <1>10

LEMMA SameLinksChildren ==
    ASSUME NEW heap, NEW r, Tree(heap, r), NEW new, SameLinks(heap, new)
    PROVE  \A n \in DOMAIN heap : Children(new, n) = Children(heap, n)
  <1>1. Tree(new, r)
    BY SameLinksTree
  <1>2. PICK f : IsLists(heap, f) /\ \A m : Children(heap, m) = f[heap[m].child]
    BY ChildrenIsList DEF Tree
  <1>3. PICK g : IsLists(new, g) /\ \A m : Children(new, m) = g[new[m].child]
    BY <1>1, ChildrenIsList DEF Tree
  <1> DEFINE nx == NextOf(heap)
             D == DOMAIN heap
  <1>4. nx \in [D -> D \cup {Null}] /\ Ends(D, nx) /\ \A m \in D : nx[m] = heap[m].next
    BY ChainsOf DEF Tree, Pointers, NextOf
  <1>5. Agreeing(D, Null, nx, g, f)
    <2>1. g[Null] = f[Null]
      BY <1>2, <1>3 DEF IsLists
    <2>2. ASSUME NEW m \in D, g[nx[m]] = f[nx[m]] PROVE g[m] = f[m]
      <3>1. f[m] = <<m>> \o f[nx[m]]
        BY <1>2, <1>4 DEF IsLists
      <3>2. m \in DOMAIN new /\ new[m].next = nx[m]
        BY <1>4 DEF SameLinks
      <3>3. g[m] = <<m>> \o g[nx[m]]
        BY <1>3, <3>2 DEF IsLists
      <3> QED
        BY <2>2, <3>1, <3>3
    <2> HIDE DEF nx, D
    <2> QED
      BY <2>1, <2>2 DEF Agreeing
  <1> HIDE DEF nx, D
  <1>6. Alike(D, Null, g, f)
    BY <1>4, <1>5, ChainUnique
  <1> QED
    BY <1>2, <1>3, <1>6 DEF Alike, D, SameLinks, Tree, Shape, Pointers

-----------------------------------------------------------------------------
(* The nodes on the way to n, and the others.                              *)

LEMMA PathParents ==
    ASSUME NEW heap, NEW r, Tree(heap, r), NEW n \in Pointers(heap)
    PROVE  \A i \in 1..Len(PathTo(heap, n)) :
             heap[PathTo(heap, n)[i]].parent = IF i = 1 THEN Null ELSE PathTo(heap, n)[i - 1]
  <1> DEFINE D == DOMAIN heap
             nx == ParentOf(heap)
             Up(s) == \A i \in 1..Len(s) : heap[s[i]].parent = IF i = 1 THEN Null ELSE s[i - 1]
             P == { m \in D \cup {Null} : Up(PathTo(heap, m)) }
  <1>1. PICK f : IsPaths(heap, f) /\ \A m : PathTo(heap, m) = f[m]
    BY PathToIsPath DEF Tree
  <1>2. nx \in [D -> D \cup {Null}] /\ Ends(D, nx) /\ \A m \in D : nx[m] = heap[m].parent
    BY ChainsOf DEF Tree, Pointers, ParentOf
  <1>3. Null \in P
    <2>1. f[Null] = << >>
      BY <1>1 DEF IsPaths
    <2> QED
      BY <1>1, <2>1
  <1>4. ASSUME NEW m \in D, nx[m] \in P PROVE m \in P
    <2>1. PICK p, s : p = heap[m].parent /\ s = f[p]
      OBVIOUS
    <2>2. f[m] = Append(s, m) /\ s \in Seq(D) /\ p \in D \cup {Null}
      BY <1>1, <1>2, <2>1 DEF IsPaths, Pointers
    <2>3. Up(s)
      BY <1>1, <1>2, <1>4, <2>1
    <2>4. s = << >> \/ (s # << >> /\ s[Len(s)] = p)
      <3>1. CASE p = Null
        BY <1>1, <2>1, <3>1 DEF IsPaths
      <3>2. CASE p \in D
        <4>1. s = Append(f[heap[p].parent], p)
          BY <1>1, <2>1, <3>2 DEF IsPaths
        <4>2. f[heap[p].parent] \in Seq(D)
          BY <1>1, <1>2, <3>2 DEF IsPaths, Pointers
        <4> QED
          BY <4>1, <4>2
      <3> QED
        BY <2>2, <3>1, <3>2
    <2>5. s = << >> => p = Null
      <3>1. p \in D => f[p] = Append(f[heap[p].parent], p) /\ f[heap[p].parent] \in Seq(D)
        BY <1>1, <1>2 DEF IsPaths, Pointers
      <3>2. p \in D => f[p] # << >>
        BY <3>1
      <3> QED
        BY <2>1, <2>2, <3>2
    <2>6. ASSUME NEW i \in 1..Len(f[m])
          PROVE  heap[f[m][i]].parent = IF i = 1 THEN Null ELSE f[m][i - 1]
      <3>0. Len(f[m]) = Len(s) + 1 /\ Len(s) \in Nat /\ f[m][Len(s) + 1] = m /\ \A j \in 1..Len(s) : f[m][j] = s[j]
        BY <2>2
      <3>1. CASE i \in 1..Len(s)
        <4>1. heap[s[i]].parent = IF i = 1 THEN Null ELSE s[i - 1]
          BY <2>3, <3>1
        <4>2. i # 1 => i - 1 \in 1..Len(s)
          BY <3>0, <3>1
        <4> QED
          BY <3>0, <3>1, <4>1, <4>2
      <3>2. CASE i = Len(s) + 1
        <4>1. f[m][i] = m /\ heap[m].parent = p
          BY <2>1, <3>0, <3>2
        <4>2. CASE s = << >>
          BY <2>5, <3>0, <3>2, <4>1, <4>2
        <4>3. CASE s # << >>
          <5>1. Len(s) # 0 /\ i - 1 = Len(s) /\ Len(s) \in 1..Len(s)
            BY <2>2, <3>0, <3>2, <4>3
          <5>2. f[m][i - 1] = p /\ i # 1
            BY <2>4, <3>0, <4>3, <5>1
          <5> QED
            BY <4>1, <5>2
        <4> QED
          BY <4>2, <4>3
      <3> QED
        BY <3>0, <3>1, <3>2
    <2>7. Up(f[m])
      BY <2>6
    <2> QED
      BY <1>1, <2>7
  <1>5. Inherited(D, Null, nx, P)
    <2> HIDE DEF P, D, nx
    <2> QED
      BY <1>3, <1>4 DEF Inherited
  <1>6. D \subseteq P
    <2> HIDE DEF D, nx, P
    <2> QED
      BY <1>2, <1>5, ChainInduction
  <1>7. n \in P
    BY <1>3, <1>6 DEF Pointers
  <1> QED
    BY <1>7

Off(heap, n) == DOMAIN heap \ Elems(PathTo(heap, n))

LEMMA PathLies ==
    ASSUME NEW heap, NEW r, Tree(heap, r), NEW n \in Pointers(heap)
    PROVE  /\ PathTo(heap, n) \in Seq(DOMAIN heap) /\ Len(PathTo(heap, n)) = Below(heap, n)
           /\ \A i \in 1..Len(PathTo(heap, n)) : /\ PathTo(heap, n)[i] \in DOMAIN heap
                                                 /\ Below(heap, PathTo(heap, n)[i]) = i
           /\ PathTo(heap, n) # << >> => /\ PathTo(heap, n)[Len(PathTo(heap, n))] = n
                                         /\ PathTo(heap, n)[1] = r /\ r # Null
  <1>1. CASE n = Null
    <2>1. PathTo(heap, Null) = << >>
      <3>1. PICK f : IsPaths(heap, f) /\ \A m : PathTo(heap, m) = f[m]
        BY PathToIsPath DEF Tree
      <3> QED
        BY <3>1 DEF IsPaths
    <2> QED
      BY <1>1, <2>1 DEF Below
  <1>2. CASE n \in DOMAIN heap
    <2>1. PICK p, s : p = PathTo(heap, n) /\ s = PathTo(heap, heap[n].parent)
      OBVIOUS
    <2>2. p \in Seq(DOMAIN heap) /\ s \in Seq(DOMAIN heap) /\ p = Append(s, n)
      BY <1>2, <2>1, PathIs
    <2>3. \A i \in 1..Len(p) : p[i] \in DOMAIN heap /\ Below(heap, p[i]) = i
      BY <1>2, <2>1, PathGoesDown
    <2>4. Len(p) # 0 /\ p[Len(p)] = n
      BY <2>2
    <2>5. 1 \in 1..Len(p)
      BY <2>2, <2>4
    <2>6. Below(heap, p[1]) = 1 /\ p[1] \in Pointers(heap)
      BY <2>3, <2>5 DEF Pointers
    <2>7. p[1] = r /\ r # Null
      BY <2>6, OnlyNullIsAtTop
    <2> QED
      BY <2>1, <2>2, <2>3, <2>4, <2>7 DEF Below
  <1> QED
    BY <1>1, <1>2 DEF Pointers

\* What is below a node that is not on the way to n is not on it either.
LEMMA OffStaysOff ==
    ASSUME NEW heap, NEW r, Tree(heap, r), NEW n \in Pointers(heap), NEW m \in Off(heap, n)
    PROVE  Elems(Children(heap, m)) \subseteq Off(heap, n)
  <1>1. PICK p : p = PathTo(heap, n)
    OBVIOUS
  <1>2. m \in DOMAIN heap /\ m \notin Elems(p)
    BY <1>1 DEF Off
  <1>3. SUFFICES ASSUME NEW k \in DOMAIN heap, heap[k].parent = m, k \in Elems(p) PROVE FALSE
    BY <1>1, <1>2, ChildrenAre DEF Off
  <1>4. PICK i \in 1..Len(p) : k = p[i]
    BY <1>3 DEF Elems
  <1>5. heap[k].parent = IF i = 1 THEN Null ELSE p[i - 1]
    BY <1>1, <1>4, PathParents
  <1>6. m # Null
    BY <1>2, NullIsNoNode DEF Tree
  <1>7. p \in Seq(DOMAIN heap)
    BY <1>1, PathLies
  <1>8. m = p[i - 1] /\ i - 1 \in 1..Len(p)
    BY <1>3, <1>5, <1>6, <1>7
  <1> QED
    BY <1>2, <1>8 DEF Elems

\* Neither are the children of a node on it, but for the next one.
LEMMA BesidePath ==
    ASSUME NEW heap, NEW r, Tree(heap, r), NEW n \in Pointers(heap),
           NEW i \in 1..Len(PathTo(heap, n)), NEW k \in DOMAIN heap,
           heap[k].parent = PathTo(heap, n)[i],
           i = Len(PathTo(heap, n)) \/ k # PathTo(heap, n)[i + 1]
    PROVE  k \in Off(heap, n)
  <1>1. PICK p : p = PathTo(heap, n)
    OBVIOUS
  <1>2. /\ p \in Seq(DOMAIN heap) /\ i \in 1..Len(p) /\ heap[k].parent = p[i]
        /\ \A j \in 1..Len(p) : p[j] \in DOMAIN heap /\ Below(heap, p[j]) = j
    BY <1>1, PathLies
  <1>3. SUFFICES ASSUME k \in Elems(p) PROVE FALSE
    BY <1>1 DEF Off
  <1>4. PICK j \in 1..Len(p) : k = p[j]
    BY <1>3 DEF Elems
  <1>5. Below(heap, k) = Below(heap, p[i]) + 1
    BY <1>2, Depths
  <1>6. j = i + 1
    BY <1>2, <1>4, <1>5
  <1> QED
    BY <1>1, <1>2, <1>4, <1>6
=============================================================================
