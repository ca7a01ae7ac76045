----------------------------- MODULE XdrXml_proofs -----------------------------
(***************************************************************************)
(* The tree behind an XML stream, for documents, messages, labels and heaps*)
(* of any size: its lists stay linked, the cursor is as deep as it should  *)
(* be, nothing is left behind, and what the callback is shown is the       *)
(* document that was sent (XmlDocument).                                   *)
(***************************************************************************)
EXTENDS XdrXml, XdrXmlTree_proofs

-----------------------------------------------------------------------------
(* The lists of TreeLinked from the pointers of Tree.                       *)

LEMMA TreeIsLinked ==
    Tree(node, root) /\ current \in Pointers(node) => TreeLinked
  <1> SUFFICES ASSUME Tree(node, root), current \in Pointers(node) PROVE TreeLinked
    OBVIOUS
  <1>1. {root, current} \subseteq DOMAIN node \cup {Null}
    BY DEF Tree, Shape, Pointers
  <1>2. ASSUME NEW n \in DOMAIN node
        PROVE  /\ {node[n].parent, node[n].child, node[n].last, node[n].next} \subseteq DOMAIN node \cup {Null}
               /\ node[n].last = (IF Children(node, n) = << >> THEN Null
                                  ELSE Children(node, n)[Len(Children(node, n))])
               /\ { Children(node, n)[i] : i \in 1..Len(Children(node, n)) }
                    = { m \in DOMAIN node : node[m].parent = n }
    <2>1. {node[n].parent, node[n].child, node[n].last, node[n].next} \subseteq DOMAIN node \cup {Null}
      BY DEF Tree, Shape, Pointers
    <2> QED
      BY <2>1, ChildrenAre DEF Elems
  <1> QED
    BY <1>1, <1>2 DEF TreeLinked

-----------------------------------------------------------------------------
(* The invariant: the tree, what the phases of a stream have to do with it,*)
(* and where the cursor is.                                                *)

TreeInv == Tree(node, root) /\ current \in Pointers(node)

(* A stream has one message at a time, the first child of the root.        *)
OneMessage(heap, r) ==
  r # Null => heap[r].child = Null \/ heap[heap[r].child].next = Null

PhaseInv ==
  /\ level \in Nat /\ depth \in Nat
  /\ ~calling => level = 0
  /\ closed => ~calling /\ root = Null
  /\ calling => root # Null
  /\ calling /\ streaming => depth = 1 /\ node[root].child # Null
  /\ doc # << >> /\ ~closed => depth = 0 /\ root # Null
  /\ calling /\ ~streaming /\ level = 0 => current \in {Null, root}
  /\ streaming => OneMessage(node, root)

CursorInv ==
  IF ~calling THEN Below(node, current) = depth
  ELSE IF streaming THEN Below(node, current) = 2 + level
  ELSE level > 0 => Below(node, current) = 1 + level

IInv == TreeInv /\ PhaseInv /\ CursorInv /\ NothingLeft

LEMMA CursorIs == Tree(node, root) /\ CursorInv => CursorDepth
  <1> SUFFICES ASSUME Tree(node, root), CursorInv PROVE CursorDepth
    OBVIOUS
  <1>1. Below(node, Null) = 0
    BY Depths
  <1>2. (IF current = Null THEN 0 ELSE Len(PathTo(node, current))) = Below(node, current)
    BY <1>1 DEF Below
  <1> QED
    BY <1>2 DEF CursorInv, CursorDepth

LEMMA XmlStarts == Init => IInv
  <1> SUFFICES ASSUME Init PROVE IInv
    OBVIOUS
  <1>1. DOMAIN node = {} /\ root = Null /\ current = Null /\ depth = 0
    BY DEF Init, TreeInit
  <1>2. Tree(node, root)
    BY <1>1, NoTree
  <1>3. Below(node, current) = 0
    BY <1>1, <1>2, Depths
  <1> QED
    BY <1>1, <1>2, <1>3 DEF IInv, TreeInv, PhaseInv, OneMessage, CursorInv, NothingLeft, Init, Pointers

(* What holds while the input is parsed.                                   *)
LEMMA WhileParsing ==
    ASSUME IInv, Parsing
    PROVE  /\ Below(node, current) = depth /\ depth \in Nat /\ level = 0
           /\ depth = 0 <=> current = Null
           /\ depth = 1 <=> (current = root /\ root # Null)
           /\ root # Null => root \in DOMAIN node
           /\ current # Null => current \in DOMAIN node /\ node[current].parent \in Pointers(node) /\ root # Null
                                /\ Below(node, node[current].parent) = depth - 1
  <1>1. Below(node, current) = depth /\ depth \in Nat /\ level = 0
    BY DEF IInv, PhaseInv, CursorInv, Parsing
  <1>2. Tree(node, root) /\ current \in Pointers(node)
    BY DEF IInv, TreeInv
  <1>3. current # Null => current \in DOMAIN node /\ node[current].parent \in Pointers(node) /\ root # Null
    BY <1>2 DEF Tree, Shape, Pointers
  <1>4. current # Null => /\ Below(node, node[current].parent) \in Nat
                          /\ depth = Below(node, node[current].parent) + 1
    BY <1>1, <1>2, <1>3, Depths
  <1> QED
    BY <1>1, <1>2, <1>3, <1>4, OnlyNullIsAtTop DEF Tree, Shape

LEMMA StartStep ==
    ASSUME IInv, NEW name, Start(name)
    PROVE  IInv'
  <1> DEFINE new == WithChild(node, current, name)
             id == Fresh(node)
  <1>0. Parsing /\ (depth = 0 => root = Null) /\ HasRoom(node) /\ UNCHANGED <<userVars, chars, seen, doc>>
        /\ node' = new /\ current' = id /\ root' = (IF root = Null THEN id ELSE root) /\ depth' = depth + 1
    BY DEF Start, StartElement
  <1>1. TreeInv
    BY DEF IInv
  <1>2. /\ Below(node, current) = depth /\ depth \in Nat /\ level = 0
        /\ depth = 0 <=> current = Null
        /\ depth = 1 <=> (current = root /\ root # Null)
        /\ root # Null => root \in DOMAIN node
        /\ current # Null => current \in DOMAIN node
    BY <1>0, WhileParsing
  <1>3. /\ Tree(new, root') /\ Joined(node, new, current, id) /\ SameParents(node, new)
    BY <1>0, <1>1, <1>2, WithChildTree DEF TreeInv
  <1> HIDE DEF new, id
  <1>4. id \in DOMAIN new /\ new[id].parent = current /\ id # Null /\ new[id].next = Null /\ new[id].child = Null
    BY <1>3, NullIsNoNode DEF Joined, Tree
  <1>5. TreeInv'
    BY <1>0, <1>3, <1>4 DEF TreeInv, Pointers
  <1>6. Below(new, id) = depth + 1
    <2>1. Below(new, id) = Below(new, current) + 1
      BY <1>3, <1>4, Depths
    <2>2. Below(new, current) = Below(node, current)
      BY <1>1, <1>3, DepthsStay DEF TreeInv
    <2> QED
      BY <1>2, <2>1, <2>2
  <1>7. CursorInv'
    BY <1>0, <1>6 DEF CursorInv, Parsing, userVars
  <1>8. doc = << >>
    BY <1>0, <1>2 DEF IInv, PhaseInv, Parsing
  <1>9. streaming => OneMessage(new, root')
    <2>1. CASE root = Null
      BY <1>0, <1>4, <2>1 DEF OneMessage
    <2>2. CASE root # Null /\ current = root /\ streaming
      <3>1. DOMAIN node = {root}
        BY <1>0, <1>2, <2>2 DEF IInv, NothingLeft, Parsing
      <3>2. node[root].last = Null
        BY <1>1, <2>2, <3>1 DEF TreeInv, Tree, Shape, Family, Pointers
      <3>3. new[root].child = id
        BY <1>2, <1>3, <2>2, <3>2 DEF Joined
      <3> QED
        BY <1>0, <1>4, <2>2, <3>3 DEF OneMessage
    <2>3. CASE root # Null /\ current # root
      <3>1. current # Null
        BY <1>0, <1>2, <2>3
      <3>2. SameTop(node, new, root)
        BY <1>1, <1>2, <1>3, <2>3, <3>1, JoinedBelow DEF TreeInv
      <3> QED
        BY <1>0, <2>3, <3>2 DEF IInv, PhaseInv, OneMessage, SameTop
    <2> QED
      BY <2>1, <2>2, <2>3
  <1>10. PhaseInv'
    <2>1. level' = 0 /\ depth' \in Nat /\ ~calling' /\ ~closed' /\ doc' = << >> /\ streaming' = streaming
      BY <1>0, <1>2, <1>8 DEF Parsing, userVars
    <2> QED
      BY <1>0, <1>9, <2>1 DEF PhaseInv
  <1>11. NothingLeft'
    <2>1. ASSUME depth' = 1 PROVE DOMAIN new = {root'}
      <3>1. root = Null /\ root' = id
        BY <1>0, <1>2, <2>1
      <3>2. DOMAIN node = {}
        BY <1>1, <3>1 DEF TreeInv, Tree, Shape
      <3> QED
        BY <1>3, <3>1, <3>2 DEF Joined
    <2> QED
      BY <1>0, <2>1 DEF NothingLeft, Parsing, userVars
  <1> QED
    BY <1>5, <1>7, <1>10, <1>11 DEF IInv

LEMMA DataStep ==
    ASSUME IInv, NEW s, Data(s)
    PROVE  IInv'
  <1>0. /\ Parsing /\ UNCHANGED <<userVars, seen, doc, root, current, depth>>
        /\ \/ node' = node
           \/ \E v : node' = [node EXCEPT ![current].value = v]
    BY DEF Data, CharData
  <1>1. TreeInv
    BY DEF IInv
  <1>2. CASE node' = node
    BY <1>0, <1>2 DEF IInv, TreeInv, PhaseInv, CursorInv, NothingLeft, OneMessage, userVars
  <1>3. CASE \E v : node' = [node EXCEPT ![current].value = v]
    <2>1. SameLinks(node, node')
      <3>1. PICK v : node' = [node EXCEPT ![current].value = v]
        BY <1>3
      <3>2. SameLinks(node, [node EXCEPT ![current].value = v])
        BY <1>1, WriteValue DEF TreeInv
      <3> QED
        BY <3>1, <3>2
    <2>2. Tree(node', root) /\ SameParents(node, node')
      BY <1>1, <2>1, SameLinksTree DEF TreeInv
    <2>3. Below(node', current) = Below(node, current)
      BY <1>1, <2>2, DepthsStay DEF TreeInv
    <2>4. streaming => OneMessage(node', root)
      <3>1. root # Null => root \in DOMAIN node /\ node[root].child \in DOMAIN node \cup {Null}
        BY <1>1 DEF TreeInv, Tree, Shape, Pointers
      <3> QED
        BY <2>1, <3>1 DEF IInv, PhaseInv, OneMessage, SameLinks
    <2>5. PhaseInv'
      BY <1>0, <2>4 DEF IInv, PhaseInv, userVars, Parsing
    <2>6. NothingLeft'
      BY <1>0, <2>1 DEF IInv, NothingLeft, userVars, SameLinks
    <2>7. TreeInv'
      BY <1>0, <1>1, <2>1, <2>2 DEF TreeInv, Pointers, SameLinks
    <2>8. CursorInv'
      BY <1>0, <2>3 DEF IInv, CursorInv, userVars
    <2> QED
      BY <2>5, <2>6, <2>7, <2>8 DEF IInv
  <1> QED
    BY <1>0, <1>2, <1>3

LEMMA EndStep ==
    ASSUME IInv, End
    PROVE  IInv'
  <1> DEFINE v == Trimmed(node[current].value)
  <1>0. /\ Parsing /\ depth > 0 /\ ~(streaming /\ depth = 2)
        /\ UNCHANGED <<userVars, chars, seen, root>>
        /\ node' = [node EXCEPT ![current].value = v]
        /\ current' = node[current].parent /\ depth' = depth - 1
        /\ doc' = doc \/ depth = 1
    BY DEF End, EndElement
  <1>1. TreeInv
    BY DEF IInv
  <1>2. /\ Below(node, current) = depth /\ depth \in Nat /\ level = 0
        /\ depth = 0 <=> current = Null
        /\ depth = 1 <=> (current = root /\ root # Null)
        /\ current # Null => current \in DOMAIN node /\ node[current].parent \in Pointers(node) /\ root # Null
                             /\ Below(node, node[current].parent) = depth - 1
    BY <1>0, WhileParsing
  <1>3. current # Null
    BY <1>0, <1>2
  <1>4. SameLinks(node, node')
    <2> HIDE DEF v
    <2>1. SameLinks(node, [node EXCEPT ![current].value = v])
      BY <1>1, WriteValue DEF TreeInv
    <2> QED
      BY <1>0, <2>1
  <1>5. Tree(node', root) /\ SameParents(node, node')
    BY <1>1, <1>4, SameLinksTree DEF TreeInv
  <1>6. Below(node', current') = depth - 1
    BY <1>0, <1>1, <1>2, <1>3, <1>5, DepthsStay DEF TreeInv
  <1>7. TreeInv'
    BY <1>0, <1>2, <1>3, <1>4, <1>5 DEF TreeInv, Pointers, SameLinks
  <1>8. CursorInv'
    BY <1>0, <1>6 DEF CursorInv, userVars, Parsing
  <1>9. streaming => OneMessage(node', root)
    <2>1. root # Null => root \in DOMAIN node /\ node[root].child \in DOMAIN node \cup {Null}
      BY <1>1 DEF TreeInv, Tree, Shape, Pointers
    <2> QED
      BY <1>4, <2>1 DEF IInv, PhaseInv, OneMessage, SameLinks
  <1>10. PhaseInv'
    <2>1. doc' # << >> => depth = 1
      BY <1>0, <1>2 DEF IInv, PhaseInv, Parsing
    <2>2. depth' \in Nat /\ (depth = 1 => depth' = 0) /\ level' = 0 /\ ~calling' /\ ~closed' /\ root' = root /\ root # Null
          /\ streaming' = streaming
      BY <1>0, <1>2, <1>3 DEF Parsing, userVars
    <2> QED
      BY <1>9, <2>1, <2>2 DEF PhaseInv
  <1>11. NothingLeft'
    BY <1>0, <1>2 DEF NothingLeft, Parsing, userVars
  <1> QED
    BY <1>7, <1>8, <1>10, <1>11 DEF IInv

LEMMA EndMessageStep ==
    ASSUME IInv, EndMessage
    PROVE  IInv'
  <1> DEFINE v == Trimmed(node[current].value)
             message == node[node[current].parent].child
  <1>0. /\ Parsing /\ streaming /\ depth = 2 /\ calling' = TRUE /\ depth' = depth - 1
        /\ UNCHANGED <<streaming, root, level, failed, closed, chars, doc>>
        /\ node' = [node EXCEPT ![current].value = v]
        /\ current' = message
    BY DEF EndMessage
  <1>1. TreeInv
    BY DEF IInv
  <1>2. /\ level = 0 /\ current \in DOMAIN node /\ root # Null
        /\ node[current].parent \in Pointers(node) /\ Below(node, node[current].parent) = 1
    BY <1>0, WhileParsing
  <1>3. node[current].parent = root /\ root \in DOMAIN node /\ current # root
    BY <1>0, <1>1, <1>2, WhileParsing, OnlyNullIsAtTop DEF TreeInv, Tree, Shape
  <1>4. message = node[root].child /\ message \in DOMAIN node /\ message # Null /\ node[message].parent = root
    <2>1. node[root].child # Null
      BY <1>1, <1>2, <1>3, ChildrenHaveFirst DEF TreeInv
    <2> QED
      BY <1>1, <1>3, <2>1 DEF TreeInv, Tree, Shape, Family, Pointers
  <1> HIDE DEF message
  <1>5. Below(node, message) = 2
    BY <1>1, <1>2, <1>3, <1>4, Depths DEF TreeInv
  <1>6. SameLinks(node, node')
    <2> HIDE DEF v
    <2>1. SameLinks(node, [node EXCEPT ![current].value = v])
      BY <1>1, WriteValue DEF TreeInv
    <2> QED
      BY <1>0, <2>1
  <1>7. Tree(node', root) /\ SameParents(node, node')
    BY <1>1, <1>6, SameLinksTree DEF TreeInv
  <1>8. Below(node', message) = 2
    BY <1>1, <1>4, <1>5, <1>7, DepthsStay DEF TreeInv, Pointers
  <1>9. TreeInv'
    BY <1>0, <1>4, <1>6, <1>7 DEF TreeInv, Pointers, SameLinks
  <1>10. CursorInv'
    BY <1>0, <1>2, <1>8 DEF CursorInv
  <1>11. OneMessage(node', root) /\ node'[root].child # Null
    BY <1>0, <1>3, <1>4, <1>6 DEF IInv, PhaseInv, OneMessage, SameLinks
  <1>12. PhaseInv'
    <2>1. doc = << >>
      BY <1>0 DEF IInv, PhaseInv, Parsing
    <2> QED
      BY <1>0, <1>2, <1>11, <2>1 DEF PhaseInv, Parsing
  <1>13. NothingLeft'
    BY <1>0 DEF NothingLeft, Parsing
  <1> QED
    BY <1>9, <1>10, <1>12, <1>13 DEF IInv

LEMMA DecodeStep ==
    ASSUME IInv, Decode
    PROVE  IInv'
  <1>0. /\ Parsing /\ ~streaming /\ doc # << >> /\ calling' = TRUE
        /\ UNCHANGED <<streaming, treeVars, level, failed, closed, histVars>>
    BY DEF Decode
  <1>1. level = 0 /\ depth = 0 /\ root # Null /\ current = Null
    BY <1>0, WhileParsing DEF IInv, PhaseInv, Parsing
  <1> QED
    BY <1>0, <1>1 DEF IInv, TreeInv, PhaseInv, CursorInv, NothingLeft, Parsing, treeVars, histVars

LEMMA ParseErrorStep ==
    ASSUME IInv, ParseError
    PROVE  IInv'
  BY DEF ParseError, IInv, TreeInv, PhaseInv, CursorInv, NothingLeft, treeVars, histVars

LEMMA PushStep ==
    ASSUME IInv, NEW name, Push(name)
    PROVE  IInv'
  <1> DEFINE from == IF current = Null THEN root ELSE current
  <1>0. calling /\ level' = level + 1 /\ UNCHANGED <<streaming, calling, failed, closed, histVars, root, depth>>
    BY DEF Push, LabelPush
  <1>1. TreeInv
    BY DEF IInv
  <1>2. root # Null /\ root \in DOMAIN node /\ from \in DOMAIN node /\ level \in Nat /\ Null \notin DOMAIN node
    BY <1>0, <1>1, NullIsNoNode DEF IInv, PhaseInv, TreeInv, Tree, Shape, Pointers
  <1>3. PushTo(from, name)
    BY <1>2 DEF Push, LabelPush
  <1>4. /\ streaming => Below(node, from) = 2 + level
        /\ ~streaming => Below(node, from) = 1 + level
    <2>1. Below(node, Null) = 0 /\ Below(node, root) = 1
      BY <1>1, <1>2, OnlyNullIsAtTop DEF TreeInv, Pointers
    <2>2. CASE streaming
      <3>1. Below(node, current) = 2 + level
        BY <1>0, <2>2 DEF IInv, CursorInv
      <3>2. current # Null
        BY <1>2, <2>1, <3>1
      <3> QED
        BY <2>2, <3>1, <3>2
    <2>3. CASE ~streaming /\ level = 0
      BY <1>0, <2>1, <2>3 DEF IInv, PhaseInv
    <2>4. CASE ~streaming /\ level # 0
      <3>1. Below(node, current) = 1 + level
        BY <1>0, <1>2, <2>4 DEF IInv, CursorInv
      <3>2. current # Null
        BY <1>2, <2>1, <3>1
      <3> QED
        BY <2>4, <3>1, <3>2
    <2> QED
      BY <2>2, <2>3, <2>4
  <1> HIDE DEF from
  <1>5. /\ Tree(node', root') /\ current' \in DOMAIN node'
        /\ Below(node', current') = Below(node, from) + 1
        /\ from # root => SameTop(node, node', root)
    BY <1>0, <1>1, <1>2, <1>3, PushGoesDown DEF TreeInv
  <1>6. TreeInv'
    BY <1>5 DEF TreeInv, Pointers
  <1>7. CursorInv'
    BY <1>0, <1>2, <1>4, <1>5 DEF CursorInv
  <1>8. streaming => SameTop(node, node', root)
    <2>1. Below(node, root) = 1
      BY <1>1, <1>2, OnlyNullIsAtTop DEF TreeInv, Pointers
    <2> QED
      BY <1>2, <1>4, <1>5, <2>1
  <1>9. PhaseInv'
    <2>1. level' \in Nat /\ level' # 0
      BY <1>0, <1>2
    <2>2. streaming => OneMessage(node', root) /\ node'[root].child # Null /\ depth = 1
      BY <1>0, <1>8 DEF IInv, PhaseInv, OneMessage, SameTop
    <2> QED
      BY <1>0, <1>2, <2>1, <2>2 DEF IInv, PhaseInv, histVars
  <1>10. NothingLeft'
    BY <1>0 DEF IInv, PhaseInv, NothingLeft
  <1> QED
    BY <1>6, <1>7, <1>9, <1>10 DEF IInv

LEMMA PopStep ==
    ASSUME IInv, Pop
    PROVE  IInv'
  <1>0. /\ calling /\ level > 0 /\ level' = level - 1 /\ current # Null /\ current' = node[current].parent
        /\ UNCHANGED <<streaming, calling, failed, closed, histVars, node, root, depth>>
    BY DEF Pop, LabelPop
  <1>1. TreeInv /\ level \in Nat
    BY DEF IInv, PhaseInv
  <1>2. current \in DOMAIN node /\ current' \in Pointers(node)
    BY <1>0, <1>1 DEF TreeInv, Tree, Shape, Pointers
  <1>3. Below(node, current') \in Nat /\ Below(node, current) = Below(node, current') + 1
    BY <1>0, <1>1, <1>2, Depths DEF TreeInv
  <1>4. /\ streaming => Below(node, current') = 1 + level
        /\ ~streaming => Below(node, current') = level
    BY <1>0, <1>1, <1>3 DEF IInv, CursorInv
  <1>5. ~streaming /\ level' = 0 => current' = root
    BY <1>0, <1>1, <1>2, <1>4, OnlyNullIsAtTop DEF TreeInv
  <1>6. TreeInv'
    BY <1>0, <1>1, <1>2 DEF TreeInv
  <1>7. CursorInv'
    BY <1>0, <1>1, <1>4 DEF CursorInv
  <1>8. PhaseInv'
    BY <1>0, <1>1, <1>5 DEF IInv, PhaseInv, histVars
  <1>9. NothingLeft'
    BY <1>0 DEF IInv, PhaseInv, NothingLeft
  <1> QED
    BY <1>6, <1>7, <1>8, <1>9 DEF IInv

LEMMA CallbackStep ==
    ASSUME IInv, CallbackReturns
    PROVE  IInv'
  <1>0. /\ calling /\ streaming /\ level = 0
        /\ node' = Forget(Freed(node, node[root].child))
        /\ current' = root /\ calling' = FALSE
        /\ UNCHANGED <<streaming, root, depth, level, failed, closed, histVars>>
    BY DEF CallbackReturns
  <1>1. TreeInv
    BY DEF IInv
  <1>2. root # Null /\ root \in 1..MaxNodes /\ root \in DOMAIN node /\ node[root].child # Null
        /\ node[node[root].child].next = Null /\ depth = 1 /\ ~closed
    BY <1>0, <1>1 DEF IInv, PhaseInv, OneMessage, TreeInv, Tree, Shape
  <1>3. Subtree(node, node[root].child) = DOMAIN node \ {root}
    BY <1>1, <1>2, AllBelowOnlyChild DEF TreeInv
  <1>4. /\ DOMAIN Freed(node, node[root].child) = {root}
        /\ Freed(node, node[root].child)[root] = node[root]
    BY <1>2, <1>3 DEF Freed
  <1>5. /\ DOMAIN node[root] = NodeFields /\ node[root].parent = Null /\ node[root].next = Null
    BY <1>1, <1>2 DEF TreeInv, Tree, Shape, Family
  <1>6. DOMAIN node' = {root} /\ node'[root] = [node[root] EXCEPT !.child = Null, !.last = Null]
    BY <1>0, <1>4 DEF Forget
  <1>7. DOMAIN node'[root] = NodeFields /\ node'[root].parent = Null /\ node'[root].next = Null
        /\ node'[root].child = Null /\ node'[root].last = Null
    BY <1>5, <1>6 DEF NodeFields
  <1>8. Tree(node', root)
    BY <1>2, <1>6, <1>7, OnlyRootTree
  <1>9. Below(node', root) = 1
    BY <1>2, <1>6, <1>8, OnlyNullIsAtTop DEF Pointers
  <1>10. TreeInv'
    BY <1>0, <1>6, <1>8 DEF TreeInv, Pointers
  <1>11. CursorInv'
    BY <1>0, <1>2, <1>9 DEF CursorInv
  <1>12. PhaseInv'
    BY <1>0, <1>2, <1>7 DEF IInv, PhaseInv, OneMessage, histVars
  <1>13. NothingLeft'
    BY <1>0, <1>2, <1>6 DEF NothingLeft
  <1> QED
    BY <1>10, <1>11, <1>12, <1>13 DEF IInv

LEMMA DestroyStep ==
    ASSUME IInv, Destroy
    PROVE  IInv'
  <1>0. /\ ~closed /\ node' = (IF root = Null THEN node ELSE Freed(node, root))
        /\ root' = Null /\ current' = Null /\ depth' = 0 /\ calling' = FALSE /\ closed' = TRUE
        /\ UNCHANGED <<streaming, level, failed, chars, seen, doc>>
        /\ calling => level = 0
    BY DEF Destroy
  <1>1. TreeInv /\ level = 0
    BY <1>0 DEF IInv, PhaseInv
  <1>2. DOMAIN node' = {}
    <2>1. CASE root = Null
      BY <1>0, <1>1, <2>1 DEF TreeInv, Tree, Shape
    <2>2. CASE root # Null
      <3>1. Subtree(node, root) = DOMAIN node
        BY <1>1, <2>2, AllBelowRoot DEF TreeInv
      <3> QED
        BY <1>0, <2>2, <3>1 DEF Freed
    <2> QED
      BY <2>1, <2>2
  <1>3. Tree(node', Null)
    BY <1>2, NoTree
  <1>4. Below(node', Null) = 0
    BY <1>3, Depths
  <1>5. TreeInv'
    BY <1>0, <1>3 DEF TreeInv, Pointers
  <1>6. CursorInv'
    BY <1>0, <1>4 DEF CursorInv
  <1>7. PhaseInv'
    BY <1>0, <1>1 DEF PhaseInv, OneMessage
  <1>8. NothingLeft'
    BY <1>0, <1>2 DEF NothingLeft
  <1> QED
    BY <1>5, <1>6, <1>7, <1>8 DEF IInv

-----------------------------------------------------------------------------
LEMMA XmlContinues == IInv /\ [Next]_vars => IInv'
  <1> SUFFICES ASSUME IInv, [Next]_vars PROVE IInv'
    OBVIOUS
  <1>1. CASE \E name \in Tags : Start(name)
    BY <1>1, StartStep
  <1>2. CASE \E name \in Names : Push(name)
    BY <1>2, PushStep
  <1>3. CASE \E s \in Pieces : Data(s)
    BY <1>3, DataStep
  <1>4. CASE End
    BY <1>4, EndStep
  <1>5. CASE EndMessage
    BY <1>5, EndMessageStep
  <1>6. CASE Decode
    BY <1>6, DecodeStep
  <1>7. CASE ParseError
    BY <1>7, ParseErrorStep
  <1>8. CASE Pop
    BY <1>8, PopStep
  <1>9. CASE CallbackReturns
    BY <1>9, CallbackStep
  <1>10. CASE Destroy
    BY <1>10, DestroyStep
  <1>11. CASE UNCHANGED vars
    BY <1>11 DEF IInv, TreeInv, PhaseInv, CursorInv, NothingLeft, vars, treeVars, userVars, histVars
  <1> QED
    BY <1>1, <1>2, <1>3, <1>4, <1>5, <1>6, <1>7, <1>8, <1>9, <1>10, <1>11 DEF Next

(* The invariant holds of every document and every use of the labels.      *)
THEOREM XmlInvariance == Spec => []IInv
  <1>1. Init => IInv
    BY XmlStarts
  <1>2. IInv /\ [Next]_vars => IInv'
    BY XmlContinues
  <1> QED
    BY <1>1, <1>2, PTL DEF Spec

(* However elements, labels and frees interleave, the lists of children    *)
(* stay linked (xdrxml_node_new_child, xdrxml_node_free, xdrxml_label).    *)
THEOREM TreeStaysLinked == Spec => []TreeLinked
  <1>1. IInv => TreeLinked
    BY TreeIsLinked DEF IInv, TreeInv
  <1> QED
    BY <1>1, XmlInvariance, PTL

(* Between two messages the tree is the root, and after xdrxml_destroy     *)
(* nothing, whatever nodes the labels of the callback appended.            *)
THEOREM MessagesAreFreed == Spec => []NothingLeft
  <1>1. IInv => NothingLeft
    BY DEF IInv
  <1> QED
    BY <1>1, XmlInvariance, PTL

(* The cursor xdrxml_label and the handlers of expat share is as deep as   *)
(* the open elements, or the labels that are pushed.                       *)
THEOREM CursorKeepsDepth == Spec => []CursorDepth
  <1>1. IInv => CursorDepth
    BY CursorIs DEF IInv, TreeInv
  <1> QED
    BY <1>1, XmlInvariance, PTL

-----------------------------------------------------------------------------
(* White space: what is kept piece by piece is what is kept of the whole.  *)

Black(s) == { i \in 1..Len(s) : s[i] \notin Space }

IsFirst(S, i) == i \in S /\ \A j \in S : i <= j
IsLast(S, i) == i \in S /\ \A j \in S : j <= i

LEMMA FirstAndLast ==
    ASSUME NEW k \in Nat, NEW S \in SUBSET (1..k), S # {}
    PROVE  (\E i \in S : IsFirst(S, i)) /\ (\E i \in S : IsLast(S, i))
  <1>1. \E i \in S : IsFirst(S, i)
    BY LeastExists DEF IsFirst
  <1>2. \E i \in S : IsLast(S, i)
    <2> DEFINE M == { k + 1 - i : i \in S }
    <2>1. M \in SUBSET (1..k) /\ M # {}
      <3>1. \A i \in S : k + 1 - i \in 1..k
        OBVIOUS
      <3> QED
        BY <3>1
    <2>2. PICK m \in M : \A j \in M : m <= j
      <3> HIDE DEF M
      <3> QED
        BY <2>1, LeastExists
    <2>3. PICK i \in S : m = k + 1 - i
      BY <2>2
    <2>4. ASSUME NEW j \in S PROVE j <= i
      <3>1. m <= k + 1 - j
        BY <2>2
      <3> QED
        BY <2>3, <3>1
    <2> QED
      BY <2>4 DEF IsLast
  <1> QED
    BY <1>1, <1>2

\* What is kept is what lies from the first black character on.
LEMMA LeadingIs ==
    ASSUME NEW S, NEW s \in Seq(S)
    PROVE  /\ \A v : v # << >> => Leading(v, s) = s
           /\ Black(s) = {} => Leading(<< >>, s) = << >>
           /\ \A i : IsFirst(Black(s), i) => Leading(<< >>, s) = SubSeq(s, i, Len(s))
  <1>1. ASSUME NEW v, v # << >> PROVE Leading(v, s) = s
    BY <1>1 DEF Leading
  <1>2. ASSUME Black(s) = {} PROVE Leading(<< >>, s) = << >>
    BY <1>2 DEF Leading, Black
  <1>3. ASSUME NEW i, IsFirst(Black(s), i) PROVE Leading(<< >>, s) = SubSeq(s, i, Len(s))
    <2> DEFINE T == Black(s)
    <2>1. T \in SUBSET Nat /\ T # {} /\ i \in T
      BY <1>3 DEF IsFirst, Black
    <2>2. \A j \in T : (\A k \in T : j <= k) => j = i
      BY <1>3, <2>1 DEF IsFirst
    <2>3. (CHOOSE j \in T : \A k \in T : j <= k) = i
      <3> HIDE DEF T
      <3> QED
        BY <1>3, <2>1, <2>2 DEF IsFirst, T
    <2>4. Leading(<< >>, s) = SubSeq(s, CHOOSE j \in T : \A k \in T : j <= k, Len(s))
      BY <2>1 DEF Leading, Black
    <2> QED
      BY <2>3, <2>4
  <1> QED
    BY <1>1, <1>2, <1>3

LEMMA LeadingJoins ==
    ASSUME NEW S, NEW s \in Seq(S), NEW t \in Seq(S)
    PROVE  Leading(<< >>, s \o t) = Leading(<< >>, s) \o Leading(Leading(<< >>, s), t)
  <1>1. s \o t \in Seq(S) /\ Len(s \o t) = Len(s) + Len(t) /\ Len(s) \in Nat /\ Len(t) \in Nat
    OBVIOUS
  <1>2. /\ \A i \in 1..Len(s) : (s \o t)[i] = s[i]
        /\ \A i \in 1..Len(t) : (s \o t)[Len(s) + i] = t[i]
    OBVIOUS
  <1>3. CASE Black(s) # {}
    <2>1. PICK i \in Black(s) : IsFirst(Black(s), i)
      <3>1. Black(s) \in SUBSET (1..Len(s))
        BY DEF Black
      <3> QED
        BY <1>1, <1>3, <3>1, FirstAndLast
    <2>2. i \in 1..Len(s)
      BY DEF Black
    <2>3. IsFirst(Black(s \o t), i)
      <3>1. i \in Black(s \o t)
        BY <1>1, <1>2, <2>2 DEF Black
      <3>2. ASSUME NEW j \in Black(s \o t) PROVE i <= j
        <4>1. CASE j \in 1..Len(s)
          BY <1>2, <2>1, <4>1 DEF Black, IsFirst
        <4>2. CASE j \notin 1..Len(s)
          BY <1>1, <2>2, <4>2 DEF Black
        <4> QED
          BY <4>1, <4>2
      <3> QED
        BY <3>1, <3>2 DEF IsFirst
    <2>4. Leading(<< >>, s) = SubSeq(s, i, Len(s)) /\ Leading(<< >>, s \o t) = SubSeq(s \o t, i, Len(s \o t))
      BY <1>1, <2>1, <2>3, LeadingIs
    <2>5. SubSeq(s, i, Len(s)) # << >>
      BY <1>1, <2>2
    <2>6. Leading(Leading(<< >>, s), t) = t
      BY <2>4, <2>5, LeadingIs
    <2>7. SubSeq(s \o t, i, Len(s \o t)) = SubSeq(s, i, Len(s)) \o t
      BY <1>1, <2>2
    <2> QED
      BY <2>4, <2>6, <2>7
  <1>4. CASE Black(s) = {}
    <2>1. Leading(<< >>, s) = << >>
      BY <1>4, LeadingIs
    <2>2. \A i \in 1..Len(s) : s[i] \in Space
      BY <1>4 DEF Black
    <2>3. CASE Black(t) = {}
      <3>1. Leading(<< >>, t) = << >>
        BY <2>3, LeadingIs
      <3>2. Black(s \o t) = {}
        <4>1. \A j \in 1..Len(s \o t) : j \in 1..Len(s) \/ (j - Len(s) \in 1..Len(t) /\ j = Len(s) + (j - Len(s)))
          BY <1>1
        <4>2. \A i \in 1..Len(t) : t[i] \in Space
          BY <2>3 DEF Black
        <4>3. \A j \in 1..Len(s \o t) : (s \o t)[j] \in Space
          BY <1>2, <2>2, <4>1, <4>2
        <4> QED
          BY <4>3 DEF Black
      <3>3. Leading(<< >>, s \o t) = << >>
        BY <1>1, <3>2, LeadingIs
      <3>4. Leading(Leading(<< >>, s), t) = << >>
        BY <2>1, <3>1
      <3>5. << >> \o << >> = << >>
        OBVIOUS
      <3> QED
        BY <2>1, <3>3, <3>4, <3>5
    <2>4. CASE Black(t) # {}
      <3>1. PICK i \in Black(t) : IsFirst(Black(t), i)
        <4>1. Black(t) \in SUBSET (1..Len(t))
          BY DEF Black
        <4> QED
          BY <1>1, <2>4, <4>1, FirstAndLast
      <3>2. i \in 1..Len(t)
        BY DEF Black
      <3>3. IsFirst(Black(s \o t), Len(s) + i)
        <4>1. Len(s) + i \in Black(s \o t)
          BY <1>1, <1>2, <3>2 DEF Black
        <4>2. ASSUME NEW j \in Black(s \o t) PROVE Len(s) + i <= j
          <5>1. j \in 1..Len(s \o t) /\ (s \o t)[j] \notin Space
            BY DEF Black
          <5>2. j \notin 1..Len(s)
            BY <1>2, <2>2, <5>1
          <5>3. PICK k \in 1..Len(t) : j = Len(s) + k
            <6>1. j - Len(s) \in 1..Len(t) /\ j = Len(s) + (j - Len(s))
              BY <1>1, <5>1, <5>2
            <6> QED
              BY <6>1
          <5>4. k \in Black(t)
            BY <1>2, <5>1, <5>3 DEF Black
          <5> QED
            BY <1>1, <3>1, <3>2, <5>3, <5>4 DEF IsFirst
        <4> QED
          BY <4>1, <4>2 DEF IsFirst
      <3>4. Leading(<< >>, t) = SubSeq(t, i, Len(t))
            /\ Leading(<< >>, s \o t) = SubSeq(s \o t, Len(s) + i, Len(s \o t))
        BY <1>1, <3>1, <3>3, LeadingIs
      <3>5. SubSeq(s \o t, Len(s) + i, Len(s \o t)) = SubSeq(t, i, Len(t))
        BY <1>1, <3>2
      <3>6. SubSeq(t, i, Len(t)) \in Seq(S)
        BY <3>2
      <3>7. << >> \o SubSeq(t, i, Len(t)) = SubSeq(t, i, Len(t))
        BY <3>6
      <3> QED
        BY <2>1, <3>4, <3>5, <3>7
    <2> QED
      BY <2>3, <2>4
  <1> QED
    BY <1>3, <1>4

LEMMA TrimmedIs ==
    ASSUME NEW S, NEW s \in Seq(S)
    PROVE  /\ Black(s) = {} => Trimmed(s) = << >> /\ Document!Trim(s) = << >>
           /\ \A i, j : IsFirst(Black(s), i) /\ IsLast(Black(s), j) =>
                Trimmed(s) = SubSeq(s, 1, j) /\ Document!Trim(s) = SubSeq(s, i, j)
  <1>1. ASSUME Black(s) = {} PROVE Trimmed(s) = << >> /\ Document!Trim(s) = << >>
    BY <1>1 DEF Trimmed, Document!Trim, Black
  <1>2. ASSUME NEW i, NEW j, IsFirst(Black(s), i), IsLast(Black(s), j)
        PROVE  Trimmed(s) = SubSeq(s, 1, j) /\ Document!Trim(s) = SubSeq(s, i, j)
    <2> DEFINE T == Black(s)
    <2>1. T \in SUBSET Nat /\ T # {} /\ i \in T /\ j \in T
      BY <1>2 DEF IsFirst, IsLast, Black
    <2>2. Trimmed(s) = SubSeq(s, 1, CHOOSE k \in T : \A l \in T : l <= k)
      BY <2>1 DEF Trimmed, Black
    <2>3. Document!Trim(s) = SubSeq(s, CHOOSE k \in T : \A l \in T : k <= l, CHOOSE k \in T : \A l \in T : l <= k)
      BY <2>1 DEF Document!Trim, Black
    <2>4. (\A k \in T : i <= k) /\ (\A k \in T : k <= j)
      BY <1>2 DEF IsFirst, IsLast
    <2> HIDE DEF T
    <2>5. \A k \in T : (\A l \in T : k <= l) => k = i
      BY <2>1, <2>4
    <2>6. \A k \in T : (\A l \in T : l <= k) => k = j
      BY <2>1, <2>4
    <2>7. (CHOOSE k \in T : \A l \in T : k <= l) = i
      BY <2>1, <2>4, <2>5
    <2>8. (CHOOSE k \in T : \A l \in T : l <= k) = j
      BY <2>1, <2>4, <2>6
    <2> QED
      BY <2>2, <2>3, <2>7, <2>8
  <1> QED
    BY <1>1, <1>2

\* Cut off at the front as it comes, and at the back when the element ends.
LEMMA LeadingTrimmed ==
    ASSUME NEW S, NEW s \in Seq(S)
    PROVE  Trimmed(Leading(<< >>, s)) = Document!Trim(s)
  <1>1. CASE Black(s) = {}
    <2>1. Leading(<< >>, s) = << >> /\ Document!Trim(s) = << >>
      BY <1>1, LeadingIs, TrimmedIs
    <2>2. Black(<< >>) = {}
      BY DEF Black
    <2>3. Trimmed(<< >>) = << >>
      <3>1. << >> \in Seq(S)
        OBVIOUS
      <3> QED
        BY <2>2, <3>1, TrimmedIs
    <2> QED
      BY <2>1, <2>3
  <1>2. CASE Black(s) # {}
    <2>1. Black(s) \in SUBSET (1..Len(s)) /\ Len(s) \in Nat
      BY DEF Black
    <2>2. PICK i \in Black(s) : IsFirst(Black(s), i)
      BY <1>2, <2>1, FirstAndLast
    <2>3. PICK j \in Black(s) : IsLast(Black(s), j)
      BY <1>2, <2>1, FirstAndLast
    <2>4. i \in 1..Len(s) /\ j \in 1..Len(s) /\ i <= j
      BY <2>1, <2>2, <2>3 DEF IsFirst
    <2>5. PICK v : v = SubSeq(s, i, Len(s))
      OBVIOUS
    <2>6. v \in Seq(S) /\ Len(v) = Len(s) - i + 1 /\ \A k \in 1..Len(v) : v[k] = s[k + i - 1]
      BY <2>1, <2>4, <2>5
    <2>7. Black(v) = { k \in 1..Len(v) : k + i - 1 \in Black(s) }
      <3>1. \A k \in 1..Len(v) : k + i - 1 \in 1..Len(s)
        BY <2>1, <2>4, <2>6
      <3> QED
        BY <2>6, <3>1 DEF Black
    <2>8. IsFirst(Black(v), 1)
      <3>1. 1 \in 1..Len(v) /\ 1 + i - 1 = i
        BY <2>1, <2>4, <2>6
      <3> QED
        BY <2>6, <2>7, <3>1 DEF IsFirst
    <2>9. IsLast(Black(v), j - i + 1)
      <3>1. j - i + 1 \in 1..Len(v) /\ (j - i + 1) + i - 1 = j
        BY <2>1, <2>4, <2>6
      <3>2. \A k \in 1..Len(v) : k + i - 1 \in Black(s) => k <= j - i + 1
        <4>1. \A k \in Black(s) : k <= j
          BY <2>3 DEF IsLast
        <4> QED
          BY <2>1, <2>4, <2>6, <4>1
      <3> QED
        BY <2>7, <3>1, <3>2 DEF IsLast
    <2>10. Trimmed(v) = SubSeq(v, 1, j - i + 1)
      BY <2>6, <2>8, <2>9, TrimmedIs
    <2>11. Document!Trim(s) = SubSeq(s, i, j)
      BY <2>2, <2>3, TrimmedIs
    <2>12. SubSeq(v, 1, j - i + 1) = SubSeq(s, i, j)
      BY <2>1, <2>4, <2>5, <2>6
    <2>13. Leading(<< >>, s) = v
      BY <2>2, <2>5, LeadingIs
    <2> QED
      BY <2>10, <2>11, <2>12, <2>13
  <1> QED
    BY <1>1, <1>2

LEMMA LeadingStays ==
    ASSUME NEW S, NEW s \in Seq(S)
    PROVE  Leading(<< >>, s) \in Seq(S) /\ Leading(<< >>, << >>) = << >>
  <1>1. Black(<< >>) = {} /\ << >> \in Seq(S)
    BY DEF Black
  <1>2. Leading(<< >>, << >>) = << >>
    BY <1>1, LeadingIs
  <1>3. CASE Black(s) = {}
    BY <1>1, <1>2, <1>3, LeadingIs
  <1>4. CASE Black(s) # {}
    <2>1. Black(s) \in SUBSET (1..Len(s)) /\ Len(s) \in Nat
      BY DEF Black
    <2>2. PICK i \in Black(s) : IsFirst(Black(s), i)
      BY <1>4, <2>1, FirstAndLast
    <2>3. Leading(<< >>, s) = SubSeq(s, i, Len(s)) /\ i \in 1..Len(s)
      BY <2>1, <2>2, LeadingIs
    <2>4. SubSeq(s, i, Len(s)) \in Seq(S)
      BY <2>3
    <2> QED
      BY <1>2, <2>3, <2>4
  <1> QED
    BY <1>2, <1>3, <1>4

-----------------------------------------------------------------------------
(* The document in the tree: the elements on the way to n are open.        *)

Rightmost(heap, n) ==
  \A i \in 1..(Len(PathTo(heap, n)) - 1) : heap[PathTo(heap, n)[i]].last = PathTo(heap, n)[i + 1]

Kept(heap, n, texts) ==
  \A i \in 1..Len(PathTo(heap, n)) : heap[PathTo(heap, n)[i]].value = Leading(<< >>, texts[i])

\* The first k children of m, and m with them.
Frame(heap, m, s, k) ==
  [name |-> heap[m].name, text |-> s, kids |-> [j \in 1..k |-> Value(heap, Children(heap, m)[j])]]

\* All the children of the innermost element are complete, and all but the
\* last of the others.
Shown(heap, n, i) ==
  IF i = Len(PathTo(heap, n)) THEN Len(Children(heap, PathTo(heap, n)[i]))
  ELSE Len(Children(heap, PathTo(heap, n)[i])) - 1

OpenOf(heap, n, texts) ==
  [i \in 1..Len(PathTo(heap, n)) |-> Frame(heap, PathTo(heap, n)[i], texts[i], Shown(heap, n, i))]

\* What is shown is not on the way to n.
LEMMA ShownIsOff ==
    ASSUME NEW heap, NEW r, Tree(heap, r), NEW n \in Pointers(heap), Rightmost(heap, n),
           NEW i \in 1..Len(PathTo(heap, n)), NEW j \in 1..Shown(heap, n, i)
    PROVE  /\ j \in 1..Len(Children(heap, PathTo(heap, n)[i]))
           /\ Children(heap, PathTo(heap, n)[i])[j] \in Off(heap, n)
  <1>1. PICK p, s : p = PathTo(heap, n) /\ s = Children(heap, p[i])
    OBVIOUS
  <1>2. p \in Seq(DOMAIN heap) /\ i \in 1..Len(p) /\ p[i] \in DOMAIN heap
    BY <1>1, PathLies
  <1>3. s \in Seq(DOMAIN heap) /\ Elems(s) = { k \in DOMAIN heap : heap[k].parent = p[i] }
    BY <1>1, <1>2, ChildrenAre
  <1>4. j \in 1..Len(s) /\ (i # Len(p) => j # Len(s))
    BY <1>1, <1>3 DEF Shown
  <1>5. s[j] \in DOMAIN heap /\ heap[s[j]].parent = p[i]
    BY <1>3, <1>4 DEF Elems
  <1>6. ASSUME i # Len(p) PROVE s[j] # p[i + 1]
    <2>1. heap[p[i]].last = p[i + 1]
      BY <1>1, <1>2, <1>6 DEF Rightmost
    <2>2. s[j] = heap[p[i]].last => j = Len(s)
      BY <1>1, <1>2, <1>4, LastIsLast
    <2> QED
      BY <1>4, <1>6, <2>1, <2>2
  <1>7. s[j] \in Off(heap, n)
    BY <1>1, <1>2, <1>5, <1>6, BesidePath
  <1> QED
    BY <1>1, <1>4, <1>7

\* The first k children of m are the same, and in S.
SameFirst(heap, new, m, k, S) ==
  /\ new[m].name = heap[m].name
  /\ \A j \in 1..k : Children(heap, m)[j] \in S /\ Children(new, m)[j] = Children(heap, m)[j]

LEMMA FrameStays ==
    ASSUME NEW heap, NEW r, Tree(heap, r), NEW new, NEW q, Tree(new, q), NEW S,
           S \subseteq DOMAIN heap, S \subseteq DOMAIN new, SameBelow(heap, new, S),
           NEW m, NEW s, NEW k, SameFirst(heap, new, m, k, S)
    PROVE  Frame(new, m, s, k) = Frame(heap, m, s, k)
  <1>1. \A j \in 1..k : Value(new, Children(new, m)[j]) = Value(heap, Children(heap, m)[j])
    BY ValuesStay DEF SameFirst
  <1>2. [j \in 1..k |-> Value(new, Children(new, m)[j])] = [j \in 1..k |-> Value(heap, Children(heap, m)[j])]
    BY <1>1
  <1> QED
    BY <1>2 DEF Frame, SameFirst

-----------------------------------------------------------------------------
(* A value is written.                                                     *)

Writes(heap, new, n, v) == new = [heap EXCEPT ![n].value = v]

LEMMA WriteIs ==
    ASSUME NEW heap, NEW r, Tree(heap, r), NEW n \in DOMAIN heap, NEW v, NEW new,
           Writes(heap, new, n, v)
    PROVE  /\ Tree(new, r) /\ SameLinks(heap, new) /\ DOMAIN new = DOMAIN heap
           /\ \A m \in DOMAIN heap : /\ Children(new, m) = Children(heap, m)
                                     /\ new[m].name = heap[m].name
                                     /\ new[m].value = IF m = n THEN v ELSE heap[m].value
           /\ \A m \in Pointers(heap) : PathTo(new, m) = PathTo(heap, m)
           /\ SameBelow(heap, new, Off(heap, n))
  <1>0. new = [heap EXCEPT ![n].value = v]
    BY DEF Writes
  <1>1. SameLinks(heap, new)
    BY <1>0, WriteValue
  <1>2. Tree(new, r) /\ SameParents(heap, new)
    BY <1>1, SameLinksTree
  <1>3. \A m \in DOMAIN heap : Children(new, m) = Children(heap, m)
    BY <1>1, SameLinksChildren
  <1>4. ASSUME NEW m \in DOMAIN heap
        PROVE  new[m].name = heap[m].name /\ new[m].value = IF m = n THEN v ELSE heap[m].value
    <2>1. DOMAIN heap[m] = NodeFields
      BY DEF Tree, Shape
    <2>2. new[m] = IF m = n THEN [heap[m] EXCEPT !.value = v] ELSE heap[m]
      BY <1>0
    <2> QED
      BY <2>1, <2>2 DEF NodeFields
  <1>5. \A m \in Pointers(heap) : PathTo(new, m) = PathTo(heap, m)
    BY <1>2, PathsStay
  <1>6. n \notin Off(heap, n)
    <2>1. PathTo(heap, n) \in Seq(DOMAIN heap) /\ PathTo(heap, n) = Append(PathTo(heap, heap[n].parent), n)
          /\ PathTo(heap, heap[n].parent) \in Seq(DOMAIN heap)
      BY PathIs
    <2>2. n = PathTo(heap, n)[Len(PathTo(heap, n))] /\ Len(PathTo(heap, n)) \in 1..Len(PathTo(heap, n))
      BY <2>1
    <2> QED
      BY <2>2 DEF Off, Elems
  <1>7. SameBelow(heap, new, Off(heap, n))
    <2>1. ASSUME NEW m \in Off(heap, n)
          PROVE  /\ new[m].name = heap[m].name /\ new[m].value = heap[m].value
                 /\ Children(new, m) = Children(heap, m) /\ Elems(Children(heap, m)) \subseteq Off(heap, n)
      <3>1. m \in DOMAIN heap /\ m # n
        BY <1>6 DEF Off
      <3>2. Elems(Children(heap, m)) \subseteq Off(heap, n)
        BY OffStaysOff DEF Pointers
      <3> QED
        BY <1>3, <1>4, <3>1, <3>2
    <2> QED
      BY <2>1 DEF SameBelow
  <1> QED
    BY <1>1, <1>2, <1>3, <1>4, <1>5, <1>7 DEF SameLinks

\* It does not show in the other elements.
LEMMA WriteStays ==
    ASSUME NEW heap, NEW r, Tree(heap, r), NEW n \in DOMAIN heap, NEW v, NEW new,
           Writes(heap, new, n, v), Rightmost(heap, n),
           NEW i \in 1..Len(PathTo(heap, n)), NEW s
    PROVE  Frame(new, PathTo(heap, n)[i], s, Shown(heap, n, i))
             = Frame(heap, PathTo(heap, n)[i], s, Shown(heap, n, i))
  <1>1. PICK m, k : m = PathTo(heap, n)[i] /\ k = Shown(heap, n, i)
    OBVIOUS
  <1>2. /\ Tree(new, r) /\ DOMAIN new = DOMAIN heap
        /\ \A x \in DOMAIN heap : Children(new, x) = Children(heap, x) /\ new[x].name = heap[x].name
        /\ SameBelow(heap, new, Off(heap, n))
    <2>1. /\ Tree(new, r) /\ SameLinks(heap, new) /\ DOMAIN new = DOMAIN heap
          /\ \A x \in DOMAIN heap : /\ Children(new, x) = Children(heap, x)
                                    /\ new[x].name = heap[x].name
                                    /\ new[x].value = IF x = n THEN v ELSE heap[x].value
          /\ \A x \in Pointers(heap) : PathTo(new, x) = PathTo(heap, x)
          /\ SameBelow(heap, new, Off(heap, n))
      BY WriteIs
    <2> QED
      BY <2>1
  <1>3. m \in DOMAIN heap
    BY <1>1, PathLies DEF Pointers
  <1>4. Off(heap, n) \subseteq DOMAIN heap
    BY DEF Off
  <1>5. \A j \in 1..k : Children(heap, m)[j] \in Off(heap, n)
    BY <1>1, ShownIsOff DEF Pointers
  <1>6. Frame(new, m, s, k) = Frame(heap, m, s, k)
    <2>1. PICK S : S = Off(heap, n)
      OBVIOUS
    <2>2. S \subseteq DOMAIN heap /\ S \subseteq DOMAIN new /\ SameBelow(heap, new, S)
      BY <1>2, <1>4, <2>1
    <2>3. new[m].name = heap[m].name
      BY <1>2, <1>3
    <2>4. \A j \in 1..k : Children(heap, m)[j] \in S /\ Children(new, m)[j] = Children(heap, m)[j]
      BY <1>2, <1>3, <1>5, <2>1
    <2>5. SameFirst(heap, new, m, k, S)
      BY <2>3, <2>4 DEF SameFirst
    <2> QED
      BY <1>2, <2>2, <2>5, FrameStays
  <1> QED
    BY <1>1, <1>6

-----------------------------------------------------------------------------
(* An element is opened, or an empty one appended.                         *)

LEMMA WithChildValues ==
    ASSUME NEW heap, NEW r, Tree(heap, r), HasRoom(heap), NEW parent, NEW name
    PROVE  /\ \A m \in DOMAIN heap : WithChild(heap, parent, name)[m].value = heap[m].value
           /\ WithChild(heap, parent, name)[Fresh(heap)].value = << >>
  <1> DEFINE id == Fresh(heap)
             new == WithChild(heap, parent, name)
             prev == IF parent = Null THEN Null ELSE heap[parent].last
  <1>1. id \notin DOMAIN heap
    BY FreshIs DEF Tree
  <1>2. new = [n \in DOMAIN heap \cup {id} |->
                 IF n = id
                   THEN Born(name, parent, IF prev = Null THEN Null ELSE heap[prev].next)
                   ELSE [heap[n] EXCEPT !.next  = IF n = prev THEN id ELSE @,
                                        !.last  = IF n = parent THEN id ELSE @,
                                        !.child = IF n = parent /\ prev = Null THEN id ELSE @]]
    BY DEF WithChild
  <1> HIDE DEF id, new, prev
  <1>3. new[id].value = << >>
    BY <1>2 DEF Born
  <1>4. ASSUME NEW n \in DOMAIN heap PROVE new[n].value = heap[n].value
    <2>1. DOMAIN heap[n] = NodeFields
      BY DEF Tree, Shape
    <2>2. new[n] = [heap[n] EXCEPT !.next  = IF n = prev THEN id ELSE @,
                                   !.last  = IF n = parent THEN id ELSE @,
                                   !.child = IF n = parent /\ prev = Null THEN id ELSE @]
      BY <1>1, <1>2
    <2> QED
      BY <2>1, <2>2 DEF NodeFields
  <1> QED
    BY <1>3, <1>4 DEF id, new

\* A childless node has no children.
LEMMA ChildrenNone ==
    ASSUME NEW heap, NEW r, Tree(heap, r), NEW n, heap[n].child = Null
    PROVE  Children(heap, n) = << >>
  <1>1. PICK f : IsLists(heap, f) /\ \A m : Children(heap, m) = f[heap[m].child]
    BY ChildrenIsList DEF Tree
  <1> QED
    BY <1>1 DEF IsLists

LEMMA ChildrenOne ==
    ASSUME NEW heap, NEW r, Tree(heap, r), NEW n, heap[n].child \in DOMAIN heap,
           heap[heap[n].child].next = Null
    PROVE  Children(heap, n) = <<heap[n].child>>
  <1>1. PICK f : IsLists(heap, f) /\ \A m : Children(heap, m) = f[heap[m].child]
    BY ChildrenIsList DEF Tree
  <1>2. f[heap[n].child] = <<heap[n].child>> \o f[Null] /\ f[Null] = << >>
    BY <1>1 DEF IsLists
  <1>3. <<heap[n].child>> \o << >> = <<heap[n].child>>
    OBVIOUS
  <1> QED
    BY <1>1, <1>2, <1>3

Grown(heap, new, parent, id) ==
  /\ Joined(heap, new, parent, id) /\ SameNames(heap, new)
  /\ \A m \in DOMAIN heap : new[m].value = heap[m].value

\* What hangs off the way to the new node is as it was.
LEMMA JoinedOff ==
    ASSUME NEW heap, NEW r, Tree(heap, r), NEW parent \in DOMAIN heap, NEW new, NEW id,
           Grown(heap, new, parent, id)
    PROVE  SameBelow(heap, new, Off(heap, parent))
  <1>1. parent \notin Off(heap, parent)
    <2>1. PathTo(heap, parent) # << >>
      <3>1. PathTo(heap, parent) = Append(PathTo(heap, heap[parent].parent), parent)
            /\ PathTo(heap, heap[parent].parent) \in Seq(DOMAIN heap)
        BY PathIs
      <3> QED
        BY <3>1
    <2>2. PathTo(heap, parent) \in Seq(DOMAIN heap) /\ PathTo(heap, parent)[Len(PathTo(heap, parent))] = parent
      BY <2>1, PathLies DEF Pointers
    <2>3. Len(PathTo(heap, parent)) \in 1..Len(PathTo(heap, parent))
      BY <2>1, <2>2
    <2> QED
      BY <2>2, <2>3 DEF Off, Elems
  <1>2. ASSUME NEW m \in Off(heap, parent)
        PROVE  /\ new[m].name = heap[m].name /\ new[m].value = heap[m].value
               /\ Children(new, m) = Children(heap, m) /\ Elems(Children(heap, m)) \subseteq Off(heap, parent)
    <2>1. m \in DOMAIN heap /\ m # parent
      BY <1>1 DEF Off
    <2>2. Elems(Children(heap, m)) \subseteq Off(heap, parent)
      BY OffStaysOff DEF Pointers
    <2>3. Children(new, m) = Children(heap, m)
      BY <2>1, ChildrenStay DEF Grown
    <2> QED
      BY <2>1, <2>2, <2>3 DEF SameNames, Grown
  <1> QED
    BY <1>2 DEF SameBelow

\* The elements that were open show what they did: their last child is new
\* or it is the next open element.
LEMMA JoinedStays ==
    ASSUME NEW heap, NEW r, Tree(heap, r), NEW parent \in DOMAIN heap, NEW new, NEW id,
           Grown(heap, new, parent, id), Rightmost(heap, parent),
           NEW i \in 1..Len(PathTo(heap, parent)), NEW s
    PROVE  /\ Len(Children(new, PathTo(heap, parent)[i])) - 1 = Shown(heap, parent, i)
           /\ Frame(new, PathTo(heap, parent)[i], s, Shown(heap, parent, i))
                = Frame(heap, PathTo(heap, parent)[i], s, Shown(heap, parent, i))
  <1>1. PICK p, m, k : p = PathTo(heap, parent) /\ m = p[i] /\ k = Shown(heap, parent, i)
    OBVIOUS
  <1>2. Tree(new, r)
    BY NewFamily, NewReached, NewEnds DEF Tree, Grown
  <1>3. p \in Seq(DOMAIN heap) /\ m \in DOMAIN heap /\ i \in 1..Len(p) /\ p[Len(p)] = parent
        /\ Below(heap, m) = i /\ Len(p) = Below(heap, parent)
    <2>1. i \in 1..Len(p) /\ parent \in Pointers(heap)
      BY <1>1 DEF Pointers
    <2>2. p # << >>
      BY <2>1
    <2> QED
      BY <1>1, <2>1, <2>2, PathLies
  <1>4. Children(heap, m) \in Seq(DOMAIN heap)
    BY <1>3, ChildrenAre
  <1>5. ASSUME i = Len(p)
        PROVE  Len(Children(new, m)) - 1 = k /\ \A j \in 1..k : Children(new, m)[j] = Children(heap, m)[j]
    <2>1. m = parent /\ k = Len(Children(heap, m))
      BY <1>1, <1>3, <1>5 DEF Shown
    <2>2. Children(new, m) = Append(Children(heap, m), id)
      BY <2>1, ChildrenAppend DEF Grown
    <2>3. PICK t : t = Children(heap, m)
      OBVIOUS
    <2>4. t \in Seq(DOMAIN heap) /\ k = Len(t) /\ Children(new, m) = Append(t, id)
      BY <1>4, <2>1, <2>2, <2>3
    <2>5. Len(Append(t, id)) - 1 = Len(t) /\ \A j \in 1..Len(t) : Append(t, id)[j] = t[j]
      BY <2>4
    <2> QED
      BY <2>3, <2>4, <2>5
  <1>6. ASSUME i # Len(p)
        PROVE  Len(Children(new, m)) - 1 = k /\ \A j \in 1..k : Children(new, m)[j] = Children(heap, m)[j]
    <2>1. m # parent /\ k = Len(Children(heap, m)) - 1
      BY <1>1, <1>3, <1>6 DEF Shown
    <2>2. Children(new, m) = Children(heap, m)
      BY <1>3, <2>1, ChildrenStay DEF Grown
    <2> QED
      BY <2>1, <2>2
  <1>7. PICK S : S = Off(heap, parent)
    OBVIOUS
  <1>8. \A j \in 1..k : Children(heap, m)[j] \in S
    BY <1>1, <1>7, ShownIsOff DEF Pointers
  <1>9. SameFirst(heap, new, m, k, S)
    BY <1>3, <1>5, <1>6, <1>8 DEF SameFirst, Grown, SameNames
  <1>10. S \subseteq DOMAIN heap /\ S \subseteq DOMAIN new /\ SameBelow(heap, new, S)
    <2>1. SameBelow(heap, new, S)
      BY <1>7, JoinedOff
    <2> QED
      BY <1>7, <2>1 DEF Off, Grown, Joined
  <1>11. Frame(new, m, s, k) = Frame(heap, m, s, k)
    BY <1>2, <1>9, <1>10, FrameStays
  <1> QED
    BY <1>1, <1>5, <1>6, <1>11

-----------------------------------------------------------------------------
(* The open elements, before and after.                                    *)

LEMMA OpenIsSeq ==
    ASSUME NEW heap, NEW r, Tree(heap, r), NEW n \in Pointers(heap), NEW texts
    PROVE  /\ Len(PathTo(heap, n)) \in Nat /\ Len(OpenOf(heap, n, texts)) = Len(PathTo(heap, n))
           /\ OpenOf(heap, n, texts) \in Seq(Elems(OpenOf(heap, n, texts)))
           /\ DOMAIN OpenOf(heap, n, texts) = 1..Len(PathTo(heap, n))
           /\ \A i \in 1..Len(PathTo(heap, n)) :
                OpenOf(heap, n, texts)[i] = Frame(heap, PathTo(heap, n)[i], texts[i], Shown(heap, n, i))
  <1>1. Len(PathTo(heap, n)) \in Nat
    BY Depths DEF Below
  <1>2. PICK d : d = Len(PathTo(heap, n))
    OBVIOUS
  <1>3. PICK S : S = { OpenOf(heap, n, texts)[i] : i \in 1..d }
    OBVIOUS
  <1>4. OpenOf(heap, n, texts) = [i \in 1..d |-> Frame(heap, PathTo(heap, n)[i], texts[i], Shown(heap, n, i))]
    BY <1>2 DEF OpenOf
  <1>5. OpenOf(heap, n, texts) \in [1..d -> S]
    BY <1>3, <1>4
  <1>6. OpenOf(heap, n, texts) \in Seq(S) /\ Len(OpenOf(heap, n, texts)) = d
    <2> HIDE DEF OpenOf
    <2>1. PICK o : o = OpenOf(heap, n, texts)
      OBVIOUS
    <2>2. o \in Seq(S) /\ Len(o) = d
      BY <1>1, <1>2, <1>5, <2>1
    <2> QED
      BY <2>1, <2>2
  <1> QED
    BY <1>1, <1>2, <1>3, <1>4, <1>6 DEF Elems

LEMMA GrownPath ==
    ASSUME NEW heap, NEW r, Tree(heap, r), NEW parent \in Pointers(heap), NEW new, NEW q, Tree(new, q),
           NEW id, Grown(heap, new, parent, id)
    PROVE  /\ id \in DOMAIN new /\ id \notin DOMAIN heap /\ Children(new, id) = << >>
           /\ PathTo(new, id) = Append(PathTo(heap, parent), id)
           /\ \A n \in Pointers(heap) : PathTo(new, n) = PathTo(heap, n)
  <1>1. /\ id \in DOMAIN new /\ id \notin DOMAIN heap /\ new[id].parent = parent /\ new[id].child = Null
        /\ SameParents(heap, new)
    BY DEF Grown, Joined, SameParents
  <1>2. \A n \in Pointers(heap) : PathTo(new, n) = PathTo(heap, n)
    BY <1>1, PathsStay
  <1>3. PathTo(new, id) = Append(PathTo(new, new[id].parent), id)
    BY <1>1, PathIs
  <1> QED
    BY <1>1, <1>2, <1>3, ChildrenNone

LEMMA OpenStart ==
    ASSUME NEW heap, NEW r, Tree(heap, r), NEW parent \in Pointers(heap), NEW new, NEW q, Tree(new, q),
           NEW id, Grown(heap, new, parent, id), Rightmost(heap, parent),
           NEW S, NEW texts \in Seq(S), NEW t, t \in S, Len(texts) = Len(PathTo(heap, parent))
    PROVE  OpenOf(new, id, Append(texts, t))
             = Append(OpenOf(heap, parent, texts), [name |-> new[id].name, text |-> t, kids |-> << >>])
  <1>1. PICK p, d : p = PathTo(heap, parent) /\ d = Len(p)
    OBVIOUS
  <1>2. p \in Seq(DOMAIN heap) /\ d \in Nat /\ d = Len(texts)
    BY <1>1, PathLies
  <1>3. PICK o, n : o = OpenOf(heap, parent, texts) /\ n = OpenOf(new, id, Append(texts, t))
    OBVIOUS
  <1>4. PathTo(new, id) = Append(p, id) /\ Children(new, id) = << >> /\ id \in DOMAIN new
    BY <1>1, GrownPath
  <1>5. Len(Append(p, id)) = d + 1 /\ Append(p, id)[d + 1] = id /\ \A i \in 1..d : Append(p, id)[i] = p[i]
    BY <1>1, <1>2
  <1>6. Len(Append(texts, t)) = d + 1 /\ Append(texts, t)[d + 1] = t /\ \A i \in 1..d : Append(texts, t)[i] = texts[i]
    BY <1>2
  <1>7. /\ DOMAIN o = 1..d /\ Len(o) = d /\ \A i \in 1..d : o[i] = Frame(heap, p[i], texts[i], Shown(heap, parent, i))
        /\ o \in Seq(Elems(o))
    BY <1>1, <1>3, OpenIsSeq
  <1>8. /\ DOMAIN n = 1..(d + 1)
        /\ \A i \in 1..(d + 1) : n[i] = Frame(new, Append(p, id)[i], Append(texts, t)[i], Shown(new, id, i))
    BY <1>3, <1>4, <1>5 DEF OpenOf
  <1>9. n[d + 1] = [name |-> new[id].name, text |-> t, kids |-> << >>]
    <2>1. d + 1 \in 1..(d + 1)
      BY <1>2
    <2>2. Shown(new, id, d + 1) = 0
      <3>1. Shown(new, id, d + 1) = Len(Children(new, id))
        BY <1>4, <1>5 DEF Shown
      <3> QED
        BY <1>4, <3>1
    <2>3. n[d + 1] = Frame(new, id, t, 0)
      BY <1>5, <1>6, <1>8, <2>1, <2>2
    <2>4. [j \in 1..0 |-> Value(new, Children(new, id)[j])] = << >>
      OBVIOUS
    <2> QED
      BY <2>3, <2>4 DEF Frame
  <1>10. ASSUME NEW i \in 1..d PROVE n[i] = o[i]
    <2>1. parent \in DOMAIN heap
      <3>1. PathTo(heap, parent) # << >>
        BY <1>1, <1>2
      <3>2. Len(PathTo(heap, parent)) = 0 <=> parent = Null
        BY OnlyNullIsAtTop DEF Below
      <3> QED
        BY <1>1, <1>2, <3>2 DEF Pointers
    <2>2. i \in 1..(d + 1) /\ i # d + 1
      BY <1>2
    <2>3. Shown(new, id, i) = Len(Children(new, p[i])) - 1
      BY <1>4, <1>5, <2>2 DEF Shown
    <2>4. /\ Len(Children(new, p[i])) - 1 = Shown(heap, parent, i)
          /\ Frame(new, p[i], texts[i], Shown(heap, parent, i)) = Frame(heap, p[i], texts[i], Shown(heap, parent, i))
      BY <1>1, <2>1, JoinedStays
    <2> QED
      BY <1>5, <1>6, <1>7, <1>8, <2>2, <2>3, <2>4
  <1>11. PICK e : e = [name |-> new[id].name, text |-> t, kids |-> << >>]
    OBVIOUS
  <1>12. /\ DOMAIN Append(o, e) = 1..(d + 1) /\ Append(o, e)[d + 1] = e
         /\ \A i \in 1..d : Append(o, e)[i] = o[i]
    BY <1>2, <1>7
  <1>13. \A i \in 1..(d + 1) : n[i] = Append(o, e)[i]
    <2>1. \A i \in 1..(d + 1) : i \in 1..d \/ i = d + 1
      BY <1>2
    <2> QED
      BY <1>9, <1>10, <1>11, <1>12, <2>1
  <1>14. n = [i \in 1..(d + 1) |-> n[i]]
    BY <1>3, <1>4, <1>5 DEF OpenOf
  <1>15. Append(o, e) = [i \in 1..(d + 1) |-> Append(o, e)[i]]
    <2>1. PICK U : U = { o[i] : i \in 1..d } \cup {e}
      OBVIOUS
    <2>2. PICK w : w = Append(o, e)
      OBVIOUS
    <2>3. o \in Seq(U)
      <3>1. o \in [1..d -> U]
        BY <1>3, <1>7, <2>1 DEF OpenOf
      <3> QED
        BY <1>2, <3>1
    <2>4. w \in [1..(d + 1) -> U]
      <3>1. e \in U
        BY <2>1
      <3>2. w \in Seq(U) /\ Len(w) = d + 1
        BY <1>2, <1>7, <2>2, <2>3, <3>1
      <3> QED
        BY <1>2, <3>2
    <2> QED
      BY <2>2, <2>4
  <1>16. n = Append(o, e)
    BY <1>13, <1>14, <1>15
  <1> QED
    BY <1>3, <1>11, <1>16

LEMMA StartKeeps ==
    ASSUME NEW heap, NEW r, Tree(heap, r), NEW parent \in Pointers(heap), NEW new, NEW q, Tree(new, q),
           NEW id, Grown(heap, new, parent, id), Rightmost(heap, parent), new[id].value = << >>,
           NEW S, NEW texts \in Seq(S), << >> \in S, Len(texts) = Len(PathTo(heap, parent)), Kept(heap, parent, texts)
    PROVE  Rightmost(new, id) /\ Kept(new, id, Append(texts, << >>))
  <1>1. PICK p, d : p = PathTo(heap, parent) /\ d = Len(p)
    OBVIOUS
  <1>2. p \in Seq(DOMAIN heap) /\ d \in Nat /\ d = Len(texts)
    BY <1>1, PathLies
  <1>3. PathTo(new, id) = Append(p, id)
    BY <1>1, GrownPath
  <1>4. Len(Append(p, id)) = d + 1 /\ Append(p, id)[d + 1] = id /\ \A i \in 1..d : Append(p, id)[i] = p[i]
    BY <1>1, <1>2
  <1>5. Len(Append(texts, << >>)) = d + 1 /\ Append(texts, << >>)[d + 1] = << >>
        /\ \A i \in 1..d : Append(texts, << >>)[i] = texts[i]
    BY <1>2
  <1>6. \A i \in 1..(d + 1) : i \in 1..d \/ i = d + 1
    BY <1>2
  <1>7. \A i \in 1..d : p[i] \in DOMAIN heap /\ Below(heap, p[i]) = i
    BY <1>1, PathLies
  <1>8. Kept(new, id, Append(texts, << >>))
    <2>1. \A i \in 1..d : new[p[i]].value = Leading(<< >>, texts[i])
      BY <1>1, <1>7 DEF Kept, Grown
    <2>2. Leading(<< >>, << >>) = << >>
      <3>1. << >> \in Seq(Chars)
        OBVIOUS
      <3> QED
        BY <3>1, LeadingStays
    <2>3. \A i \in 1..(d + 1) : new[Append(p, id)[i]].value = Leading(<< >>, Append(texts, << >>)[i])
      BY <1>4, <1>5, <1>6, <2>1, <2>2
    <2> QED
      BY <1>3, <1>4, <2>3 DEF Kept
  <1>9. Rightmost(new, id)
    <2>1. ASSUME NEW i \in 1..d PROVE new[p[i]].last = Append(p, id)[i + 1]
      <3>0. /\ p # << >> /\ p[d] = parent /\ parent # Null /\ d = Below(heap, parent)
        <4>1. p # << >>
          BY <1>1, <1>2
        <4>2. p[d] = parent /\ d = Below(heap, parent)
          BY <1>1, <4>1, PathLies
        <4>3. parent # Null
          BY <1>2, <4>2, Depths
        <4> QED
          BY <4>1, <4>2, <4>3
      <3>1. CASE i = d
        BY <1>4, <1>7, <3>0, <3>1 DEF Grown, Joined
      <3>2. CASE i # d
        <4>1. i \in 1..(d - 1) /\ i + 1 \in 1..d
          BY <1>2, <3>2
        <4>2. heap[p[i]].last = p[i + 1]
          BY <1>1, <4>1 DEF Rightmost
        <4>3. p[i] # parent
          BY <1>7, <3>0, <3>2
        <4> QED
          BY <1>4, <1>7, <4>1, <4>2, <4>3 DEF Grown, Joined
      <3> QED
        BY <3>1, <3>2
    <2>2. (d + 1) - 1 = d
      BY <1>2
    <2> QED
      BY <1>3, <1>4, <2>1, <2>2 DEF Rightmost
  <1> QED
    BY <1>8, <1>9

LEMMA SameItems ==
    ASSUME NEW S, NEW p \in Seq(S), NEW T, NEW q \in Seq(T), Len(p) = Len(q),
           \A i \in 1..Len(p) : p[i] = q[i]
    PROVE  p = q
  <1>1. Len(p) \in Nat
    OBVIOUS
  <1>2. p = [i \in 1..Len(p) |-> p[i]]
    OBVIOUS
  <1>3. q = [i \in 1..Len(q) |-> q[i]]
    OBVIOUS
  <1> QED
    BY <1>2, <1>3

WithText(frame, t) == [frame EXCEPT !.text = t]
LastText(texts, t) == [texts EXCEPT ![Len(texts)] = t]

\* The text of the innermost element grows.
LEMMA OpenData ==
    ASSUME NEW heap, NEW r, Tree(heap, r), NEW n \in DOMAIN heap, NEW v, NEW new, Writes(heap, new, n, v),
           Rightmost(heap, n), NEW S, NEW texts \in Seq(S), Len(texts) = Len(PathTo(heap, n)),
           NEW t, t \in S, NEW o, o = OpenOf(heap, n, texts)
    PROVE  OpenOf(new, n, LastText(texts, t))
             = Append(SubSeq(o, 1, Len(o) - 1), WithText(o[Len(o)], t))
  <1>0. PICK x : x = LastText(texts, t)
    OBVIOUS
  <1>1. PICK p, d : p = PathTo(heap, n) /\ d = Len(p)
    OBVIOUS
  <1>2. p \in Seq(DOMAIN heap) /\ d \in Nat /\ d = Len(texts) /\ n \in Pointers(heap)
    BY <1>1, PathLies DEF Pointers
  <1>3. d \in 1..d
    <2>1. Len(PathTo(heap, n)) = 0 <=> n = Null
      BY <1>2, OnlyNullIsAtTop DEF Below
    <2>2. Null \notin DOMAIN heap
      BY NullIsNoNode DEF Tree
    <2> QED
      BY <1>1, <1>2, <2>1, <2>2
  <1>4. x \in Seq(S) /\ x[d] = t /\ \A i \in 1..d : i # d => x[i] = texts[i]
    BY <1>0, <1>1, <1>2, <1>3 DEF LastText
  <1>5. /\ Len(o) = d /\ \A i \in 1..d : o[i] = Frame(heap, p[i], texts[i], Shown(heap, n, i))
        /\ o \in Seq(Elems(o))
    <2>1. /\ Len(OpenOf(heap, n, texts)) = Len(PathTo(heap, n))
          /\ OpenOf(heap, n, texts) \in Seq(Elems(OpenOf(heap, n, texts)))
          /\ \A i \in 1..Len(PathTo(heap, n)) :
               OpenOf(heap, n, texts)[i] = Frame(heap, PathTo(heap, n)[i], texts[i], Shown(heap, n, i))
      BY <1>2, OpenIsSeq
    <2> QED
      BY <1>1, <2>1
  <1>6. /\ Tree(new, r) /\ PathTo(new, n) = p /\ \A m \in DOMAIN heap : Children(new, m) = Children(heap, m)
        /\ n \in Pointers(new)
    BY <1>1, <1>2, WriteIs DEF Pointers
  <1>7. PICK w : w = OpenOf(new, n, x)
    OBVIOUS
  <1>8. /\ Len(w) = d /\ \A i \in 1..d : w[i] = Frame(new, p[i], x[i], Shown(new, n, i))
        /\ w \in Seq(Elems(w))
    <2>1. /\ Len(OpenOf(new, n, x)) = Len(PathTo(new, n))
          /\ OpenOf(new, n, x) \in Seq(Elems(OpenOf(new, n, x)))
          /\ \A i \in 1..Len(PathTo(new, n)) :
               OpenOf(new, n, x)[i] = Frame(new, PathTo(new, n)[i], x[i], Shown(new, n, i))
      <3>1. Tree(new, r) /\ n \in Pointers(new)
        BY <1>6
      <3> QED
        BY <3>1, OpenIsSeq
    <2> QED
      BY <1>1, <1>6, <1>7, <2>1
  <1>9. ASSUME NEW i \in 1..d PROVE w[i] = Frame(heap, p[i], x[i], Shown(heap, n, i))
    <2>1. p[i] \in DOMAIN heap
      BY <1>1, <1>2
    <2>2. Shown(new, n, i) = Shown(heap, n, i)
      BY <1>1, <1>6, <2>1 DEF Shown
    <2>3. Frame(new, p[i], x[i], Shown(heap, n, i)) = Frame(heap, p[i], x[i], Shown(heap, n, i))
      BY <1>1, WriteStays
    <2> QED
      BY <1>8, <2>2, <2>3
  <1>10. w[d] = WithText(o[d], t)
    <2>1. w[d] = Frame(heap, p[d], t, Shown(heap, n, d)) /\ o[d] = Frame(heap, p[d], texts[d], Shown(heap, n, d))
      BY <1>3, <1>4, <1>5, <1>9
    <2>2. PICK a, k : /\ w[d] = [name |-> a, text |-> t, kids |-> k]
                      /\ o[d] = [name |-> a, text |-> texts[d], kids |-> k]
      BY <2>1 DEF Frame
    <2> QED
      BY <2>2 DEF WithText
  <1>11. \A i \in 1..d : i # d => w[i] = o[i]
    BY <1>4, <1>5, <1>9
  <1>12. PICK e : e = WithText(o[d], t)
    OBVIOUS
  <1>13. PICK U : U = { o[i] : i \in 1..d } \cup {e}
    OBVIOUS
  <1>14. o \in Seq(U) /\ e \in U
    <2>1. \A i \in 1..Len(o) : o[i] \in U
      BY <1>5, <1>13
    <2> QED
      BY <1>5, <1>13, <2>1
  <1>15. PICK a : a = Append(SubSeq(o, 1, d - 1), e)
    OBVIOUS
  <1>16. a \in Seq(U) /\ Len(a) = d /\ a[d] = e /\ \A i \in 1..d : i # d => a[i] = o[i]
    <2>1. PICK b : b = SubSeq(o, 1, d - 1)
      OBVIOUS
    <2>2. b \in Seq(U) /\ Len(b) = d - 1 /\ \A i \in 1..(d - 1) : b[i] = o[i]
      BY <1>2, <1>3, <1>5, <1>14, <2>1
    <2>3. \A i \in 1..d : i # d => i \in 1..(d - 1)
      BY <1>2
    <2>4. a = Append(b, e)
      BY <1>15, <2>1
    <2> QED
      BY <1>2, <1>3, <1>14, <2>2, <2>3, <2>4
  <1>17. w = a
    <2>1. \A i \in 1..d : w[i] = a[i]
      BY <1>10, <1>11, <1>12, <1>16
    <2> QED
      BY <1>8, <1>16, <2>1, SameItems
  <1> QED
    BY <1>0, <1>1, <1>5, <1>7, <1>12, <1>15, <1>17

LEMMA DataKeeps ==
    ASSUME NEW heap, NEW r, Tree(heap, r), NEW n \in DOMAIN heap, NEW v, NEW new, Writes(heap, new, n, v),
           Rightmost(heap, n), NEW S, NEW texts \in Seq(S), Len(texts) = Len(PathTo(heap, n)),
           Kept(heap, n, texts), NEW t, t \in S, v = Leading(<< >>, t)
    PROVE  Rightmost(new, n) /\ Kept(new, n, LastText(texts, t))
  <1>0. PICK x : x = LastText(texts, t)
    OBVIOUS
  <1>1. PICK p, d : p = PathTo(heap, n) /\ d = Len(p)
    OBVIOUS
  <1>2. p \in Seq(DOMAIN heap) /\ d \in Nat /\ d = Len(texts) /\ n \in Pointers(heap)
    BY <1>1, PathLies DEF Pointers
  <1>3. d \in 1..d /\ p[d] = n
    <2>1. Len(PathTo(heap, n)) = 0 <=> n = Null
      BY <1>2, OnlyNullIsAtTop DEF Below
    <2>2. Null \notin DOMAIN heap
      BY NullIsNoNode DEF Tree
    <2>3. d # 0
      BY <1>1, <2>1, <2>2
    <2>4. p # << >>
      BY <1>1, <2>3
    <2> QED
      BY <1>1, <1>2, <2>3, <2>4, PathLies
  <1>4. x[d] = t /\ \A i \in 1..d : i # d => x[i] = texts[i]
    BY <1>0, <1>1, <1>2, <1>3 DEF LastText
  <1>5. /\ PathTo(new, n) = p /\ SameLinks(heap, new)
        /\ \A m \in DOMAIN heap : new[m].value = IF m = n THEN v ELSE heap[m].value
    BY <1>1, <1>2, WriteIs
  <1>6. \A i \in 1..d : p[i] \in DOMAIN heap /\ Below(heap, p[i]) = i
    BY <1>1, <1>2, PathLies
  <1>7. Rightmost(new, n)
    <2>1. \A i \in 1..(d - 1) : i \in 1..d
      BY <1>2
    <2> QED
      BY <1>1, <1>5, <1>6, <2>1 DEF Rightmost, SameLinks
  <1>8. \A i \in 1..d : new[p[i]].value = Leading(<< >>, x[i])
    <2> TAKE i \in 1..d
    <2>1. CASE i = d
      BY <1>3, <1>4, <1>5, <2>1
    <2>2. CASE i # d
      <3>1. p[i] # n
        BY <1>3, <1>6, <2>2
      <3>2. heap[p[i]].value = Leading(<< >>, texts[i])
        BY <1>1 DEF Kept
      <3> QED
        BY <1>4, <1>5, <1>6, <2>2, <3>1, <3>2
    <2> QED
      BY <2>1, <2>2
  <1> QED
    BY <1>0, <1>1, <1>5, <1>7, <1>8 DEF Kept

\* An element ends: its white space is cut off.
LEMMA FinishedIs ==
    ASSUME NEW heap, NEW r, Tree(heap, r), NEW n \in DOMAIN heap, NEW new,
           Writes(heap, new, n, Trimmed(heap[n].value)),
           Rightmost(heap, n), NEW S, NEW texts \in Seq(Seq(S)), Len(texts) = Len(PathTo(heap, n)),
           Kept(heap, n, texts), NEW o, o = OpenOf(heap, n, texts)
    PROVE  Value(new, n) = [o[Len(o)] EXCEPT !.text = Document!Trim(@)]
  <1>1. PICK p, d : p = PathTo(heap, n) /\ d = Len(p)
    OBVIOUS
  <1>2. p \in Seq(DOMAIN heap) /\ d \in Nat /\ n \in Pointers(heap)
    BY <1>1, PathLies DEF Pointers
  <1>3. d \in 1..d /\ p[d] = n
    <2>1. Len(PathTo(heap, n)) = 0 <=> n = Null
      BY <1>2, OnlyNullIsAtTop DEF Below
    <2>2. Null \notin DOMAIN heap
      BY NullIsNoNode DEF Tree
    <2>3. d # 0
      BY <1>1, <2>1, <2>2
    <2>4. p # << >>
      BY <1>1, <2>3
    <2> QED
      BY <1>1, <1>2, <2>3, <2>4, PathLies
  <1>4. Len(o) = d /\ o[d] = Frame(heap, n, texts[d], Shown(heap, n, d))
    <2>1. /\ Len(OpenOf(heap, n, texts)) = Len(PathTo(heap, n))
          /\ \A i \in 1..Len(PathTo(heap, n)) :
               OpenOf(heap, n, texts)[i] = Frame(heap, PathTo(heap, n)[i], texts[i], Shown(heap, n, i))
      BY <1>2, OpenIsSeq
    <2> QED
      BY <1>1, <1>3, <2>1
  <1>5. PICK v : v = Trimmed(heap[n].value)
    OBVIOUS
  <1>6. v = Document!Trim(texts[d])
    <2>1. heap[n].value = Leading(<< >>, texts[d])
      BY <1>1, <1>3 DEF Kept
    <2>2. texts[d] \in Seq(S)
      BY <1>1, <1>3
    <2> QED
      BY <1>5, <2>1, <2>2, LeadingTrimmed
  <1>7. Tree(new, r) /\ DOMAIN new = DOMAIN heap /\ Children(new, n) = Children(heap, n)
    BY <1>5, WriteIs
  <1>8. new[n].value = v
    BY <1>5, WriteIs
  <1>9. Shown(heap, n, d) = Len(Children(new, n))
    BY <1>1, <1>3, <1>7 DEF Shown
  <1>10. Frame(new, n, v, Shown(heap, n, d)) = Frame(heap, n, v, Shown(heap, n, d))
    <2>1. Writes(heap, new, n, v) /\ d \in 1..Len(PathTo(heap, n))
      BY <1>1, <1>3, <1>5
    <2>2. Frame(new, PathTo(heap, n)[d], v, Shown(heap, n, d)) = Frame(heap, PathTo(heap, n)[d], v, Shown(heap, n, d))
      BY <2>1, WriteStays
    <2> QED
      BY <1>1, <1>3, <2>2
  <1>11. Value(new, n) = Frame(new, n, v, Len(Children(new, n)))
    BY <1>7, <1>8, ValueIs DEF Frame
  <1>12. Value(new, n) = Frame(heap, n, v, Shown(heap, n, d))
    BY <1>9, <1>10, <1>11
  <1>13. PICK a, k : /\ Value(new, n) = [name |-> a, text |-> v, kids |-> k]
                     /\ o[d] = [name |-> a, text |-> texts[d], kids |-> k]
    BY <1>4, <1>12 DEF Frame
  <1> QED
    BY <1>4, <1>6, <1>13

WithKid(frame, e) == [frame EXCEPT !.kids = Append(@, e)]

LEMMA FrameAppend ==
    ASSUME NEW heap, NEW m, NEW s, NEW k \in Nat
    PROVE  Frame(heap, m, s, k + 1) = WithKid(Frame(heap, m, s, k), Value(heap, Children(heap, m)[k + 1]))
  <1> DEFINE V(j) == Value(heap, Children(heap, m)[j])
             T == { V(j) : j \in 1..(k + 1) }
             a == [j \in 1..k |-> V(j)]
             b == [j \in 1..(k + 1) |-> V(j)]
  <1>1. \A j \in 1..(k + 1) : V(j) \in T
    OBVIOUS
  <1> HIDE DEF V, T
  <1>2. a \in Seq(T) /\ Len(a) = k /\ \A j \in 1..k : a[j] = V(j)
    BY <1>1
  <1>3. b \in Seq(T) /\ Len(b) = k + 1 /\ \A j \in 1..(k + 1) : b[j] = V(j)
    BY <1>1
  <1>4. V(k + 1) \in T
    BY <1>1
  <1> HIDE DEF a, b
  <1>5. Append(a, V(k + 1)) \in Seq(T) /\ Len(Append(a, V(k + 1))) = k + 1
        /\ \A j \in 1..(k + 1) : Append(a, V(k + 1))[j] = V(j)
    BY <1>2, <1>4
  <1>6. b = Append(a, V(k + 1))
    BY <1>3, <1>5, SameItems
  <1>7. /\ Frame(heap, m, s, k) = [name |-> heap[m].name, text |-> s, kids |-> a]
        /\ Frame(heap, m, s, k + 1) = [name |-> heap[m].name, text |-> s, kids |-> b]
    BY DEF Frame, a, b, V
  <1>8. WithKid(Frame(heap, m, s, k), V(k + 1))
          = [name |-> heap[m].name, text |-> s, kids |-> Append(a, V(k + 1))]
    BY <1>7 DEF WithKid
  <1> QED
    BY <1>6, <1>7, <1>8 DEF V

LastKid(frames, e) == [frames EXCEPT ![Len(frames)].kids = Append(@, e)]

\* It becomes the last child of the one around it.
LEMMA OpenEnd ==
    ASSUME NEW heap, NEW r, Tree(heap, r), NEW n \in DOMAIN heap, NEW v, NEW new, Writes(heap, new, n, v),
           Rightmost(heap, n), NEW S, NEW texts \in Seq(S), Len(texts) = Len(PathTo(heap, n)),
           Len(texts) > 1
    PROVE  OpenOf(new, heap[n].parent, Front(texts)) = LastKid(Front(OpenOf(heap, n, texts)), Value(new, n))
  <1>0. PICK x, parent : x = Front(texts) /\ parent = heap[n].parent
    OBVIOUS
  <1>1. PICK o : o = OpenOf(heap, n, texts)
    OBVIOUS
  <1>2. PICK out : out = SubSeq(o, 1, Len(o) - 1)
    OBVIOUS
  <1>3. PICK p, u, d : p = PathTo(heap, n) /\ u = PathTo(heap, parent) /\ d = Len(u)
    OBVIOUS
  <1>4. /\ p \in Seq(DOMAIN heap) /\ u \in Seq(DOMAIN heap) /\ p = Append(u, n)
        /\ n \in Pointers(heap) /\ parent \in Pointers(heap)
    BY <1>0, <1>3, PathIs DEF Pointers
  <1>5. /\ d \in Nat /\ d \in 1..d /\ Len(p) = d + 1 /\ p[d + 1] = n /\ Len(texts) = d + 1
        /\ \A i \in 1..d : p[i] = u[i] /\ i \in 1..(d + 1) /\ i # d + 1
    BY <1>3, <1>4
  <1>6. x \in Seq(S) /\ Len(x) = d /\ \A i \in 1..d : x[i] = texts[i]
    BY <1>0, <1>5 DEF Front
  <1>7. /\ Len(o) = d + 1 /\ \A i \in 1..(d + 1) : o[i] = Frame(heap, p[i], texts[i], Shown(heap, n, i))
        /\ o \in Seq(Elems(o))
    <2>1. /\ Len(OpenOf(heap, n, texts)) = Len(PathTo(heap, n))
          /\ OpenOf(heap, n, texts) \in Seq(Elems(OpenOf(heap, n, texts)))
          /\ \A i \in 1..Len(PathTo(heap, n)) :
               OpenOf(heap, n, texts)[i] = Frame(heap, PathTo(heap, n)[i], texts[i], Shown(heap, n, i))
      BY <1>4, OpenIsSeq
    <2> QED
      BY <1>3, <1>5, <1>1, <2>1
  <1>8. /\ Tree(new, r) /\ PathTo(new, parent) = u /\ parent \in Pointers(new)
        /\ \A m \in DOMAIN heap : Children(new, m) = Children(heap, m)
    BY <1>3, <1>4, WriteIs DEF Pointers
  <1>9. PICK w : w = OpenOf(new, parent, x)
    OBVIOUS
  <1>10. /\ Len(w) = d /\ \A i \in 1..d : w[i] = Frame(new, u[i], x[i], Shown(new, parent, i))
        /\ w \in Seq(Elems(w))
    <2>1. /\ Len(OpenOf(new, parent, x)) = Len(PathTo(new, parent))
          /\ OpenOf(new, parent, x) \in Seq(Elems(OpenOf(new, parent, x)))
          /\ \A i \in 1..Len(PathTo(new, parent)) :
               OpenOf(new, parent, x)[i] = Frame(new, PathTo(new, parent)[i], x[i], Shown(new, parent, i))
      <3>1. Tree(new, r) /\ parent \in Pointers(new)
        BY <1>8
      <3> QED
        BY <3>1, OpenIsSeq
    <2> QED
      BY <1>3, <1>8, <1>9, <2>1
  <1>11. ASSUME NEW i \in 1..d
        PROVE  /\ Shown(heap, n, i) = Len(Children(heap, u[i])) - 1
               /\ Frame(new, u[i], x[i], Shown(heap, n, i)) = o[i]
               /\ Shown(new, parent, i) = IF i = d THEN Len(Children(heap, u[i])) ELSE Len(Children(heap, u[i])) - 1
    <2>1. u[i] \in DOMAIN heap /\ i \in 1..Len(PathTo(heap, n))
      BY <1>3, <1>4, <1>5
    <2>2. Shown(heap, n, i) = Len(Children(heap, u[i])) - 1
      BY <1>3, <1>5 DEF Shown
    <2>3. Frame(new, p[i], texts[i], Shown(heap, n, i)) = Frame(heap, p[i], texts[i], Shown(heap, n, i))
      <3>1. Frame(new, PathTo(heap, n)[i], texts[i], Shown(heap, n, i))
              = Frame(heap, PathTo(heap, n)[i], texts[i], Shown(heap, n, i))
        BY <2>1, WriteStays
      <3> QED
        BY <1>3, <3>1
    <2>4. Shown(new, parent, i) = IF i = d THEN Len(Children(heap, u[i])) ELSE Len(Children(heap, u[i])) - 1
      BY <1>3, <1>8, <2>1 DEF Shown
    <2>5. Frame(new, u[i], x[i], Shown(heap, n, i)) = o[i]
      BY <1>5, <1>6, <1>7, <2>3
    <2> QED
      BY <2>2, <2>4, <2>5
  <1>12. \A i \in 1..d : i # d => w[i] = o[i]
    BY <1>10, <1>11
  <1>13. w[d] = WithKid(o[d], Value(new, n))
    <2>1. PICK c, k : c = Children(heap, u[d]) /\ k = Shown(heap, n, d)
      OBVIOUS
    <2>2. u[d] \in DOMAIN heap
      BY <1>4, <1>5
    <2>3. u[d] = parent
      <3>1. u # << >>
        BY <1>3, <1>5
      <3> QED
        BY <1>3, <1>4, <3>1, PathLies
    <2>4. /\ c \in Seq(DOMAIN heap) /\ Elems(c) = { m \in DOMAIN heap : heap[m].parent = parent }
          /\ c # << >> => heap[parent].last = c[Len(c)]
      BY <2>1, <2>2, <2>3, ChildrenAre
    <2>5. n \in Elems(c)
      BY <1>0, <2>4
    <2>6. c # << >>
      BY <2>5 DEF Elems
    <2>7. k \in Nat /\ k + 1 = Len(c)
      BY <1>5, <1>11, <2>1, <2>4, <2>6
    <2>8. heap[p[d]].last = p[d + 1]
      <3>1. d \in 1..(Len(PathTo(heap, n)) - 1)
        BY <1>3, <1>5
      <3> QED
        BY <1>3, <3>1 DEF Rightmost
    <2>9. c[k + 1] = n
      BY <1>5, <2>3, <2>4, <2>6, <2>7, <2>8
    <2>10. Children(new, u[d])[k + 1] = n
      BY <1>8, <2>1, <2>2, <2>9
    <2>11. w[d] = Frame(new, u[d], x[d], k + 1)
      <3>1. Shown(new, parent, d) = Len(c)
        BY <1>5, <1>11, <2>1
      <3> QED
        BY <1>5, <1>10, <2>7, <3>1
    <2>12. o[d] = Frame(new, u[d], x[d], k)
      BY <1>5, <1>11, <2>1
    <2>13. Frame(new, u[d], x[d], k + 1)
             = WithKid(Frame(new, u[d], x[d], k), Value(new, Children(new, u[d])[k + 1]))
      BY <2>7, FrameAppend
    <2> QED
      BY <2>10, <2>11, <2>12, <2>13
  <1>14. out \in Seq(Elems(o)) /\ Len(out) = d /\ \A i \in 1..d : out[i] = o[i]
    BY <1>5, <1>7, <1>2
  <1>15. PICK e : e = WithKid(o[d], Value(new, n))
    OBVIOUS
  <1>16. LastKid(out, Value(new, n)) = [out EXCEPT ![d] = e]
    <2>1. out[d] = o[d]
      BY <1>5, <1>14
    <2>2. Len(out) = d
      BY <1>14
    <2> QED
      BY <1>15, <2>1, <2>2 DEF WithKid, LastKid
  <1>17. PICK U : U = Elems(o) \cup {e}
    OBVIOUS
  <1>18. PICK q : q = [out EXCEPT ![d] = e]
    OBVIOUS
  <1>19. q \in Seq(U) /\ Len(q) = d /\ \A i \in 1..d : q[i] = IF i = d THEN e ELSE o[i]
    <2>1. \A i \in 1..Len(out) : out[i] \in U
      BY <1>14, <1>17
    <2>2. out \in Seq(U) /\ e \in U
      BY <1>14, <1>17, <2>1
    <2>3. out \in [1..d -> U]
      <3>1. out \in Seq(U) /\ Len(out) = d
        BY <1>14, <2>2
      <3>2. \A y \in Seq(U) : y \in [1..Len(y) -> U]
        OBVIOUS
      <3> QED
        BY <3>1, <3>2
    <2>4. q \in [1..d -> U] /\ \A i \in 1..d : q[i] = IF i = d THEN e ELSE out[i]
      BY <1>5, <1>18, <2>2, <2>3
    <2> QED
      BY <1>5, <1>14, <2>4
  <1>20. w = q
    <2>1. \A i \in 1..d : w[i] = q[i]
      BY <1>12, <1>13, <1>15, <1>19
    <2> QED
      BY <1>10, <1>19, <2>1, SameItems
  <1> QED
    BY <1>0, <1>9, <1>16, <1>18, <1>20, <1>1, <1>2 DEF Front

LEMMA EndKeeps ==
    ASSUME NEW heap, NEW r, Tree(heap, r), NEW n \in DOMAIN heap, NEW v, NEW new, Writes(heap, new, n, v),
           Rightmost(heap, n), NEW S, NEW texts \in Seq(S), Len(texts) = Len(PathTo(heap, n)), Kept(heap, n, texts)
    PROVE  Rightmost(new, heap[n].parent) /\ Kept(new, heap[n].parent, Front(texts))
  <1>0. PICK x, parent : x = Front(texts) /\ parent = heap[n].parent
    OBVIOUS
  <1>1. PICK p, u, d : p = PathTo(heap, n) /\ u = PathTo(heap, parent) /\ d = Len(u)
    OBVIOUS
  <1>2. /\ p \in Seq(DOMAIN heap) /\ u \in Seq(DOMAIN heap) /\ p = Append(u, n)
        /\ n \in Pointers(heap) /\ parent \in Pointers(heap)
    BY <1>0, <1>1, PathIs DEF Pointers
  <1>3. d \in Nat /\ Len(p) = d + 1 /\ p[d + 1] = n /\ Len(texts) = d + 1 /\ \A i \in 1..d : p[i] = u[i] /\ i \in 1..(d + 1)
    BY <1>1, <1>2
  <1>4. x \in Seq(S) /\ Len(x) = d /\ \A i \in 1..d : x[i] = texts[i]
    BY <1>0, <1>3 DEF Front
  <1>5. /\ PathTo(new, parent) = u /\ SameLinks(heap, new)
        /\ \A m \in DOMAIN heap : new[m].value = IF m = n THEN v ELSE heap[m].value
    BY <1>1, <1>2, WriteIs
  <1>6. \A i \in 1..(d + 1) : p[i] \in DOMAIN heap /\ Below(heap, p[i]) = i
    <2>1. \A i \in 1..Len(PathTo(heap, n)) :
            PathTo(heap, n)[i] \in DOMAIN heap /\ Below(heap, PathTo(heap, n)[i]) = i
      BY <1>2, PathLies
    <2> QED
      BY <1>1, <1>3, <2>1
  <1>7. Rightmost(new, parent)
    <2>1. ASSUME NEW i \in 1..(d - 1) PROVE new[u[i]].last = u[i + 1]
      <3>1. i \in 1..d /\ i + 1 \in 1..d
        BY <1>3
      <3>2. heap[p[i]].last = p[i + 1]
        BY <1>1, <1>3, <3>1 DEF Rightmost
      <3> QED
        BY <1>3, <1>5, <1>6, <3>1, <3>2 DEF SameLinks
    <2> QED
      BY <1>1, <1>5, <2>1 DEF Rightmost
  <1>8. \A i \in 1..d : new[u[i]].value = Leading(<< >>, x[i])
    <2> TAKE i \in 1..d
    <2>1. i \in 1..(d + 1) /\ i # d + 1 /\ d + 1 \in 1..(d + 1)
      BY <1>3
    <2>2. p[i] # n /\ p[i] \in DOMAIN heap
      BY <1>3, <1>6, <2>1
    <2>3. heap[p[i]].value = Leading(<< >>, texts[i])
      BY <1>1, <1>3, <2>1 DEF Kept
    <2> QED
      BY <1>3, <1>4, <1>5, <2>2, <2>3
  <1> QED
    BY <1>0, <1>1, <1>5, <1>7, <1>8 DEF Kept

-----------------------------------------------------------------------------
(* The document, step by step. While the parser runs, each open element is *)
(* the last child of the one around it (Rightmost) and its node holds the  *)
(* character data so far without the white space in front (Kept).          *)

DocInv ==
  /\ raw \in Seq(Seq(Chars)) /\ Len(raw) = depth
  /\ depth > 0 => raw[1] = << >> /\ node[root].value = << >>
  /\ calling /\ ~streaming => depth = 0
  /\ ~calling => Rightmost(node, current) /\ Kept(node, current, raw)

Shows(heap, r, n, d, over, busy, texts) ==
  IF d = 0 \/ over THEN << >>
  ELSE IF busy THEN <<[name |-> heap[r].name, text |-> texts[1], kids |-> << >>]>>
  ELSE OpenOf(heap, n, texts)

LEMMA OpenShows ==
    /\ OpenElements = Shows(node, root, current, depth, closed, calling, raw)
    /\ OpenElements' = Shows(node', root', current', depth', closed', calling', raw')
  <1> DEFINE Busy(heap, r, texts) ==
               [i \in 1..Len(<<r>>) |->
                  [name |-> heap[<<r>>[i]].name, text |-> texts[i],
                   kids |-> [j \in 1..0 |-> Value(heap, Children(heap, <<r>>[i])[j])]]]
  <1>1. ASSUME NEW heap, NEW r, NEW texts
        PROVE  Busy(heap, r, texts) = <<[name |-> heap[r].name, text |-> texts[1], kids |-> << >>]>>
    <2>1. Len(<<r>>) = 1 /\ <<r>>[1] = r
      OBVIOUS
    <2>2. \A i \in 1..1 : i = 1
      OBVIOUS
    <2>3. [j \in 1..0 |-> Value(heap, Children(heap, r)[j])] = << >>
      OBVIOUS
    <2>4. Busy(heap, r, texts) = [i \in 1..1 |-> [name |-> heap[r].name, text |-> texts[1], kids |-> << >>]]
      BY <2>1, <2>2, <2>3
    <2> QED
      BY <2>4
  <1>2. OpenElements = IF depth = 0 \/ closed THEN << >>
                       ELSE IF calling THEN Busy(node, root, raw) ELSE OpenOf(node, current, raw)
    BY DEF OpenElements, OpenOf, Frame, Shown
  <1>3. OpenElements' = IF depth' = 0 \/ closed' THEN << >>
                        ELSE IF calling' THEN Busy(node', root', raw') ELSE OpenOf(node', current', raw')
    BY DEF OpenElements, OpenOf, Frame, Shown
  <1> HIDE DEF Busy
  <1> QED
    BY <1>1, <1>2, <1>3 DEF Shows

\* While the parser runs, the open elements are the ones down to current.
LEMMA ParsingShows ==
    ASSUME IInv, ~calling, ~closed
    PROVE  /\ OpenElements = OpenOf(node, current, raw)
           /\ Tree(node, root) /\ current \in Pointers(node)
           /\ depth = Len(PathTo(node, current)) /\ depth \in Nat
  <1>1. /\ Tree(node, root) /\ current \in Pointers(node)
        /\ depth = Len(PathTo(node, current)) /\ depth \in Nat
    BY DEF IInv, TreeInv, PhaseInv, CursorInv, Below
  <1>2. CASE depth = 0
    <2>1. OpenOf(node, current, raw) = << >>
      BY <1>1, <1>2 DEF OpenOf
    <2> QED
      BY <1>1, <1>2, <2>1, OpenShows DEF Shows
  <1> QED
    BY <1>1, <1>2, OpenShows DEF Shows

LEMMA DocStarts == Init => DocInv
  <1> SUFFICES ASSUME Init PROVE DocInv
    OBVIOUS
  <1>1. node = << >> /\ root = Null /\ current = Null /\ depth = 0 /\ raw = << >> /\ ~calling
    BY DEF Init, TreeInit
  <1>2. Tree(node, root) /\ current \in Pointers(node)
    BY XmlStarts DEF IInv, TreeInv
  <1>3. Len(PathTo(node, current)) = 0
    BY <1>1, <1>2, Depths DEF Below
  <1>4. Rightmost(node, current) /\ Kept(node, current, raw)
    BY <1>3 DEF Rightmost, Kept
  <1>5. << >> \in Seq(Seq(Chars)) /\ Len(<< >>) = 0
    OBVIOUS
  <1> QED
    BY <1>1, <1>4, <1>5 DEF DocInv

LEMMA StartRefines ==
    ASSUME IInv, DocInv, NEW name \in Tags, Start(name)
    PROVE  DocInv' /\ Document!StartTag(name)
  <1>0. PICK new, id : new = WithChild(node, current, name) /\ id = Fresh(node)
    OBVIOUS
  <1>1. /\ ~calling /\ ~closed /\ (depth = 0 => root = Null) /\ HasRoom(node)
        /\ UNCHANGED <<streaming, calling, closed, seen, doc>>
        /\ node' = new /\ current' = id /\ root' = (IF root = Null THEN id ELSE root) /\ depth' = depth + 1
        /\ raw' = Append(raw, << >>)
    BY <1>0 DEF Start, StartElement, Parsing, userVars
  <1>2. /\ Tree(node, root) /\ current \in Pointers(node) /\ depth = Len(PathTo(node, current)) /\ depth \in Nat
        /\ OpenElements = OpenOf(node, current, raw)
    BY <1>1, ParsingShows
  <1>3. current = Null => root = Null
    BY <1>1, <1>2, Depths DEF Below
  <1>4. Tree(new, root') /\ Joined(node, new, current, id)
    BY <1>0, <1>1, <1>2, <1>3, WithChildTree
  <1>5. Grown(node, new, current, id) /\ new[id].name = name /\ new[id].value = << >>
    BY <1>0, <1>1, <1>2, <1>4, WithChildNames, WithChildValues DEF Grown
  <1>6. /\ raw \in Seq(Seq(Chars)) /\ Len(raw) = depth /\ << >> \in Seq(Chars)
        /\ Rightmost(node, current) /\ Kept(node, current, raw)
        /\ depth > 0 => raw[1] = << >> /\ node[root].value = << >>
    BY <1>1 DEF DocInv
  <1>7. Rightmost(new, id) /\ Kept(new, id, raw')
    BY <1>1, <1>2, <1>4, <1>5, <1>6, StartKeeps
  <1>8. OpenOf(new, id, raw') = Append(OpenOf(node, current, raw), [name |-> name, text |-> << >>, kids |-> << >>])
    <2>1. OpenOf(new, id, Append(raw, << >>))
            = Append(OpenOf(node, current, raw), [name |-> new[id].name, text |-> << >>, kids |-> << >>])
      <3>1. PICK S : S = Seq(Chars)
        OBVIOUS
      <3>2. raw \in Seq(S) /\ << >> \in S /\ Len(raw) = Len(PathTo(node, current))
        BY <1>2, <1>6, <3>1
      <3> QED
        BY <1>2, <1>4, <1>5, <1>6, <3>2, OpenStart
    <2> QED
      BY <1>1, <1>5, <2>1
  <1>9. OpenElements' = OpenOf(new, id, raw')
    <2>1. depth' # 0 /\ ~closed' /\ ~calling'
      BY <1>1, <1>2
    <2> QED
      BY <1>1, <2>1, OpenShows DEF Shows
  <1>10. DocInv'
    <2>1. raw' \in Seq(Seq(Chars)) /\ Len(raw') = depth' /\ raw'[1] = << >>
      BY <1>1, <1>2, <1>6
    <2>2. node'[root'].value = << >>
      <3>1. CASE root = Null
        BY <1>1, <1>5, <3>1
      <3>2. CASE root # Null
        <4>1. root \in DOMAIN node /\ depth > 0
          BY <1>1, <1>2, <3>2 DEF Tree, Shape
        <4> QED
          BY <1>1, <1>5, <1>6, <3>2, <4>1 DEF Grown
      <3> QED
        BY <3>1, <3>2
    <2> QED
      BY <1>1, <1>7, <2>1, <2>2 DEF DocInv
  <1>11. doc = << >>
    <2>1. doc # << >> => depth = 0 /\ root # Null
      BY <1>1 DEF IInv, PhaseInv
    <2> QED
      BY <1>1, <2>1
  <1>12. Document!StartTag(name)
    BY <1>1, <1>2, <1>8, <1>9, <1>11 DEF Document!StartTag, Document!Element
  <1> QED
    BY <1>10, <1>12

\* The element the parser stands in.
LEMMA InnermostIs ==
    ASSUME IInv, DocInv, Parsing, depth > 0
    PROVE  /\ current \in DOMAIN node /\ root # Null /\ root \in DOMAIN node
           /\ depth = 1 <=> current = root
           /\ node[current].parent = Null <=> depth = 1
           /\ raw \in Seq(Seq(Chars)) /\ Len(raw) = Len(PathTo(node, current)) /\ depth \in 1..depth
           /\ Rightmost(node, current) /\ Kept(node, current, raw)
           /\ Len(OpenElements) = depth /\ OpenElements[depth].text = raw[depth]
           /\ node[current].value = Leading(<< >>, raw[depth])
  <1>1. /\ Tree(node, root) /\ current \in Pointers(node) /\ depth = Len(PathTo(node, current)) /\ depth \in Nat
        /\ OpenElements = OpenOf(node, current, raw)
    BY ParsingShows DEF Parsing
  <1>2. /\ current \in DOMAIN node /\ root # Null /\ root \in DOMAIN node /\ (depth = 1 <=> current = root)
    BY WhileParsing
  <1>3. node[current].parent = Null <=> depth = 1
    BY <1>1, <1>2 DEF Tree, Family
  <1>4. raw \in Seq(Seq(Chars)) /\ Len(raw) = depth /\ depth \in 1..depth
        /\ Rightmost(node, current) /\ Kept(node, current, raw)
    BY <1>1 DEF DocInv, Parsing
  <1>5. /\ Len(OpenOf(node, current, raw)) = Len(PathTo(node, current))
        /\ \A i \in 1..Len(PathTo(node, current)) :
             OpenOf(node, current, raw)[i] = Frame(node, PathTo(node, current)[i], raw[i], Shown(node, current, i))
    BY <1>1, OpenIsSeq
  <1>6. OpenElements[depth].text = raw[depth]
    <2>1. OpenElements[depth] = Frame(node, PathTo(node, current)[depth], raw[depth], Shown(node, current, depth))
      BY <1>1, <1>4, <1>5
    <2> QED
      BY <2>1 DEF Frame
  <1>7. PathTo(node, current)[depth] = current
    <2>1. PathTo(node, current) # << >>
      BY <1>1, <1>4
    <2> QED
      BY <1>1, <2>1, PathLies
  <1>8. node[current].value = Leading(<< >>, raw[depth])
    BY <1>1, <1>4, <1>7 DEF Kept
  <1> QED
    BY <1>1, <1>2, <1>3, <1>4, <1>5, <1>6, <1>8

LEMMA DataRefines ==
    ASSUME IInv, DocInv, NEW s \in Pieces, Data(s)
    PROVE  DocInv' /\ Document!Text(s)
  <1>1. /\ Parsing /\ depth > 0 /\ UNCHANGED <<streaming, calling, closed, seen, doc, root, current, depth>>
        /\ node' = IF node[current].parent = Null THEN node
                   ELSE [node EXCEPT ![current].value = @ \o Leading(@, s)]
        /\ raw' = IF depth = 1 THEN raw ELSE [raw EXCEPT ![depth] = @ \o s]
    BY DEF Data, CharData, userVars
  <1>2. /\ current \in DOMAIN node /\ root # Null /\ root \in DOMAIN node
        /\ depth = 1 <=> current = root
        /\ node[current].parent = Null <=> depth = 1
        /\ raw \in Seq(Seq(Chars)) /\ Len(raw) = Len(PathTo(node, current)) /\ depth \in 1..depth
        /\ Rightmost(node, current) /\ Kept(node, current, raw)
        /\ Len(OpenElements) = depth /\ OpenElements[depth].text = raw[depth]
        /\ node[current].value = Leading(<< >>, raw[depth])
    BY <1>1, InnermostIs
  <1>3. s \in Seq(Chars)
    BY DEF Pieces
  <1>4. CASE depth = 1
    <2>1. node' = node /\ raw' = raw
      BY <1>1, <1>2, <1>4
    <2>2. OpenElements' = OpenElements
      BY <1>1, <2>1, OpenShows
    <2>3. DocInv'
      BY <1>1, <2>1 DEF DocInv
    <2> QED
      BY <1>1, <1>2, <1>4, <2>2, <2>3 DEF Document!Text
  <1>5. CASE depth # 1
    <2>1. PICK t, v : t = raw[depth] \o s /\ v = node[current].value \o Leading(node[current].value, s)
      OBVIOUS
    <2>2. Len(raw) = depth
      BY <1>1 DEF DocInv
    <2>3. Writes(node, node', current, v) /\ raw' = LastText(raw, t)
      BY <1>1, <1>2, <1>5, <2>1, <2>2 DEF Writes, LastText
    <2>4. t \in Seq(Chars) /\ raw[depth] \in Seq(Chars)
      BY <1>2, <1>3, <2>1, <2>2
    <2>5. v = Leading(<< >>, t)
      BY <1>2, <1>3, <2>1, <2>4, LeadingJoins
    <2>6. /\ Tree(node, root) /\ current \in Pointers(node) /\ depth = Len(PathTo(node, current)) /\ depth \in Nat
          /\ OpenElements = OpenOf(node, current, raw)
      BY <1>1, ParsingShows DEF Parsing
    <2>7. Rightmost(node', current) /\ Kept(node', current, raw')
      <3>1. PICK S : S = Seq(Chars)
        OBVIOUS
      <3>2. raw \in Seq(S) /\ t \in S
        BY <1>2, <2>4, <3>1
      <3>3. Rightmost(node', current) /\ Kept(node', current, LastText(raw, t))
        BY <1>2, <2>3, <2>5, <2>6, <3>2, DataKeeps
      <3> QED
        BY <2>3, <3>3
    <2>8. PICK o : o = OpenElements
      OBVIOUS
    <2>9. OpenOf(node', current, raw') = Append(SubSeq(o, 1, Len(o) - 1), WithText(o[Len(o)], t))
      <3>1. PICK S : S = Seq(Chars)
        OBVIOUS
      <3>2. raw \in Seq(S) /\ t \in S
        BY <1>2, <2>4, <3>1
      <3>3. o = OpenOf(node, current, raw)
        BY <2>6, <2>8
      <3>4. OpenOf(node', current, LastText(raw, t))
              = Append(SubSeq(o, 1, Len(o) - 1), WithText(o[Len(o)], t))
        <4>1. /\ Tree(node, root) /\ current \in DOMAIN node /\ Writes(node, node', current, v)
              /\ Rightmost(node, current) /\ Len(raw) = Len(PathTo(node, current))
          BY <1>2, <2>3, <2>6
        <4> QED
          BY <3>2, <3>3, <4>1, OpenData
      <3> QED
        BY <2>3, <3>4
    <2>10. OpenElements' = OpenOf(node', current, raw')
      <3>1. depth' # 0 /\ ~closed' /\ ~calling' /\ current' = current
        BY <1>1, <1>2 DEF Parsing
      <3> QED
        BY <3>1, OpenShows DEF Shows
    <2>11. WithText(o[Len(o)], t) = [o[Len(o)] EXCEPT !.text = @ \o s]
      BY <1>2, <2>1, <2>8 DEF WithText
    <2>12. Document!Text(s)
      BY <1>1, <1>2, <1>5, <2>8, <2>9, <2>10, <2>11 DEF Document!Text, Document!Outer, Document!Top
    <2>13. DocInv'
      <3>1. raw' \in Seq(Seq(Chars)) /\ Len(raw') = depth /\ raw'[1] = raw[1]
        BY <1>2, <1>5, <2>2, <2>3, <2>4 DEF LastText
      <3>2. node'[root].value = node[root].value
        <4>1. \A m \in DOMAIN node : node'[m].value = IF m = current THEN v ELSE node[m].value
          BY <1>2, <2>3, <2>6, WriteIs
        <4> QED
          BY <1>2, <1>5, <4>1
      <3> QED
        BY <1>1, <2>7, <3>1, <3>2 DEF DocInv
    <2> QED
      BY <2>12, <2>13
  <1> QED
    BY <1>4, <1>5

LEMMA EndRefines ==
    ASSUME IInv, DocInv, End
    PROVE  DocInv' /\ Document!EndTag
  <1>0. PICK v, parent : v = Trimmed(node[current].value) /\ parent = node[current].parent
    OBVIOUS
  <1>1. /\ Parsing /\ depth > 0 /\ ~(streaming /\ depth = 2)
        /\ UNCHANGED <<streaming, calling, closed, seen, root>>
        /\ node' = [node EXCEPT ![current].value = v] /\ current' = parent /\ depth' = depth - 1
        /\ raw' = Front(raw)
        /\ doc' = IF depth = 1 THEN <<Value(node', root)>> ELSE doc
    BY <1>0 DEF End, EndElement, userVars
  <1>2. /\ current \in DOMAIN node /\ root # Null /\ root \in DOMAIN node
        /\ depth = 1 <=> current = root
        /\ raw \in Seq(Seq(Chars)) /\ Len(raw) = Len(PathTo(node, current)) /\ depth \in 1..depth
        /\ Rightmost(node, current) /\ Kept(node, current, raw) /\ Len(OpenElements) = depth
    BY <1>1, InnermostIs
  <1>3. /\ Tree(node, root) /\ current \in Pointers(node) /\ depth = Len(PathTo(node, current)) /\ depth \in Nat
        /\ OpenElements = OpenOf(node, current, raw)
    BY <1>1, ParsingShows DEF Parsing
  <1>4. Writes(node, node', current, v) /\ Writes(node, node', current, Trimmed(node[current].value))
    BY <1>0, <1>1 DEF Writes
  <1>5. PICK o : o = OpenElements
    OBVIOUS
  <1>6. Value(node', current) = [o[Len(o)] EXCEPT !.text = Document!Trim(@)]
    <2>1. o = OpenOf(node, current, raw)
      BY <1>3, <1>5
    <2>2. /\ Tree(node, root) /\ current \in DOMAIN node /\ Rightmost(node, current) /\ Kept(node, current, raw)
          /\ Len(raw) = Len(PathTo(node, current)) /\ raw \in Seq(Seq(Chars))
      BY <1>2, <1>3
    <2> QED
      BY <1>4, <2>1, <2>2, FinishedIs
  <1>7. Document!Finished = Value(node', current)
    BY <1>5, <1>6 DEF Document!Finished, Document!Top
  <1>8. Rightmost(node', parent) /\ Kept(node', parent, raw')
    <2>1. Rightmost(node', node[current].parent) /\ Kept(node', node[current].parent, Front(raw))
      BY <1>2, <1>3, <1>4, EndKeeps
    <2> QED
      BY <1>0, <1>1, <2>1
  <1>9. raw' \in Seq(Seq(Chars)) /\ Len(raw') = depth' /\ Len(raw) = depth
    BY <1>1, <1>2, <1>3 DEF Front
  <1>10. CASE depth = 1
    <2>1. OpenElements' = << >>
      BY <1>1, <1>10, OpenShows DEF Shows
    <2>2. Document!Outer = << >>
      BY <1>2, <1>10 DEF Document!Outer
    <2>3. Document!EndTag
      BY <1>1, <1>2, <1>7, <1>10, <2>1, <2>2 DEF Document!EndTag
    <2>4. DocInv'
      BY <1>1, <1>8, <1>9, <1>10 DEF DocInv, Parsing
    <2> QED
      BY <2>3, <2>4
  <1>11. CASE depth # 1
    <2>1. PICK out : out = Front(o)
      OBVIOUS
    <2>2. OpenOf(node', parent, raw') = LastKid(out, Value(node', current))
      <3>1. OpenOf(node', node[current].parent, Front(raw))
              = LastKid(Front(OpenOf(node, current, raw)), Value(node', current))
        <4>1. o = OpenOf(node, current, raw) /\ Len(raw) > 1
          BY <1>2, <1>3, <1>5, <1>9, <1>11
        <4>2. PICK S : S = Seq(Chars)
          OBVIOUS
        <4>3. /\ Tree(node, root) /\ current \in DOMAIN node /\ Rightmost(node, current)
              /\ Len(raw) = Len(PathTo(node, current)) /\ raw \in Seq(S) /\ Writes(node, node', current, v)
          BY <1>2, <1>3, <1>4, <4>2
        <4> QED
          BY <4>1, <4>3, OpenEnd
      <3> QED
        BY <1>0, <1>1, <1>3, <1>5, <2>1, <3>1
    <2>3. OpenElements' = OpenOf(node', parent, raw')
      <3>1. depth' # 0 /\ ~closed' /\ ~calling' /\ current' = parent
        BY <1>1, <1>3, <1>11 DEF Parsing
      <3> QED
        BY <3>1, OpenShows DEF Shows
    <2>4. Document!Outer = out
      BY <1>5, <2>1 DEF Document!Outer, Front
    <2>5. Document!EndTag
      BY <1>1, <1>2, <1>7, <1>11, <2>2, <2>3, <2>4 DEF Document!EndTag, LastKid
    <2>6. raw'[1] = raw[1]
      BY <1>1, <1>2, <1>3, <1>9, <1>11 DEF Front
    <2>7. node'[root].value = node[root].value
      <3>1. \A m \in DOMAIN node : node'[m].value = IF m = current THEN v ELSE node[m].value
        BY <1>2, <1>3, <1>4, WriteIs
      <3> QED
        BY <1>2, <1>11, <3>1
    <2>8. DocInv'
      BY <1>1, <1>8, <1>9, <2>6, <2>7 DEF DocInv, Parsing
    <2> QED
      BY <2>5, <2>8
  <1> QED
    BY <1>10, <1>11

LEMMA EndMessageRefines ==
    ASSUME IInv, DocInv, EndMessage
    PROVE  DocInv' /\ Document!EndTag
  <1>0. PICK v, message : v = Trimmed(node[current].value) /\ message = node[node[current].parent].child
    OBVIOUS
  <1>1. /\ Parsing /\ streaming /\ depth = 2 /\ calling' = TRUE /\ depth' = depth - 1
        /\ UNCHANGED <<streaming, root, closed, doc>>
        /\ node' = [node EXCEPT ![current].value = v] /\ current' = message
        /\ seen' = Append(seen, Value(node', message))
        /\ raw' = Front(raw)
    BY <1>0 DEF EndMessage
  <1>2. /\ current \in DOMAIN node /\ root # Null /\ root \in DOMAIN node /\ current # root
        /\ raw \in Seq(Seq(Chars)) /\ Len(raw) = Len(PathTo(node, current))
        /\ Rightmost(node, current) /\ Kept(node, current, raw) /\ Len(OpenElements) = depth
    BY <1>1, InnermostIs
  <1>3. /\ Tree(node, root) /\ current \in Pointers(node) /\ depth = Len(PathTo(node, current)) /\ depth \in Nat
        /\ OpenElements = OpenOf(node, current, raw)
    BY <1>1, ParsingShows DEF Parsing
  <1>4. Writes(node, node', current, v) /\ Writes(node, node', current, Trimmed(node[current].value))
    BY <1>0, <1>1 DEF Writes
  <1>5. PICK o : o = OpenElements
    OBVIOUS
  <1>6. Value(node', current) = [o[Len(o)] EXCEPT !.text = Document!Trim(@)]
    <2>1. o = OpenOf(node, current, raw)
      BY <1>3, <1>5
    <2>2. /\ Tree(node, root) /\ current \in DOMAIN node /\ Rightmost(node, current) /\ Kept(node, current, raw)
          /\ Len(raw) = Len(PathTo(node, current)) /\ raw \in Seq(Seq(Chars))
      BY <1>2, <1>3
    <2> QED
      BY <1>4, <2>1, <2>2, FinishedIs
  <1>7. Document!Finished = Value(node', current)
    BY <1>5, <1>6 DEF Document!Finished, Document!Top
  <1>8. PathTo(node, current)[1] = root /\ 1 \in 1..Len(PathTo(node, current)) /\ Len(PathTo(node, current)) = 2
        /\ PathTo(node, current)[2] = current
    <2>1. Len(PathTo(node, current)) = 2
      BY <1>1, <1>3
    <2>2. PathTo(node, current) # << >>
      BY <2>1
    <2>3. PathTo(node, current)[Len(PathTo(node, current))] = current /\ PathTo(node, current)[1] = root
      BY <1>3, <2>2, PathLies
    <2> QED
      BY <2>1, <2>3
  <1>9. node[current].parent = root
    <2>1. node[PathTo(node, current)[2]].parent = PathTo(node, current)[1]
      <3>1. 2 \in 1..Len(PathTo(node, current)) /\ 2 - 1 = 1 /\ 2 # 1
        BY <1>8
      <3> QED
        BY <1>3, <3>1, PathParents
    <2> QED
      BY <1>8, <2>1
  <1>10. Children(node, root) = <<message>>
    <2>1. message = node[root].child /\ message # Null /\ message \in DOMAIN node
      <3>1. node[root].child # Null
        BY <1>2, <1>3, <1>9, ChildrenHaveFirst
      <3> QED
        BY <1>0, <1>2, <1>3, <1>9, <3>1 DEF Tree, Shape, Pointers
    <2>2. node[message].next = Null
      BY <1>1, <1>2, <2>1 DEF IInv, PhaseInv, OneMessage
    <2> QED
      BY <1>3, <2>1, <2>2, ChildrenOne
  <1>11. current = message
    <2>1. current \in Elems(Children(node, root))
      BY <1>2, <1>3, <1>9, ChildrenAre
    <2>2. Len(<<message>>) = 1 /\ <<message>>[1] = message
      OBVIOUS
    <2> QED
      BY <1>10, <2>1, <2>2 DEF Elems
  <1>12. raw' \in Seq(Seq(Chars)) /\ Len(raw') = 1 /\ raw'[1] = raw[1] /\ raw[1] = << >> /\ depth' = 1
         /\ node[root].value = << >>
    <2>1. Len(raw) = 2 /\ raw[1] = << >> /\ node[root].value = << >>
      BY <1>1 DEF DocInv
    <2> QED
      BY <1>1, <1>2, <2>1 DEF Front
  <1>13. node'[root].name = node[root].name /\ node'[root].value = node[root].value
    <2>1. \A m \in DOMAIN node : node'[m].name = node[m].name /\ node'[m].value = IF m = current THEN v ELSE node[m].value
      BY <1>2, <1>3, <1>4, WriteIs
    <2> QED
      BY <1>2, <2>1
  <1>14. o[1] = [name |-> node[root].name, text |-> << >>, kids |-> << >>]
    <2>1. OpenOf(node, current, raw)[1] = Frame(node, root, raw[1], Shown(node, current, 1))
      <3>1. \A i \in 1..Len(PathTo(node, current)) :
              OpenOf(node, current, raw)[i] = Frame(node, PathTo(node, current)[i], raw[i], Shown(node, current, i))
        BY <1>3, OpenIsSeq
      <3> QED
        BY <1>8, <3>1
    <2>2. Shown(node, current, 1) = 0
      <3>1. Shown(node, current, 1) = Len(Children(node, root)) - 1
        BY <1>8 DEF Shown
      <3> QED
        BY <1>10, <3>1
    <2>3. [j \in 1..0 |-> Value(node, Children(node, root)[j])] = << >>
      OBVIOUS
    <2>4. Frame(node, root, << >>, 0) = [name |-> node[root].name, text |-> << >>, kids |-> << >>]
      BY <2>3 DEF Frame
    <2> QED
      BY <1>3, <1>5, <1>12, <2>1, <2>2, <2>4
  <1>15. Document!Outer = <<o[1]>>
    <2>1. o \in Seq(Elems(o)) /\ Len(o) = 2
      <3>1. OpenOf(node, current, raw) \in Seq(Elems(OpenOf(node, current, raw)))
        BY <1>3, OpenIsSeq
      <3> QED
        BY <1>1, <1>2, <1>3, <1>5, <3>1
    <2>2. SubSeq(o, 1, 1) \in Seq(Elems(o)) /\ Len(SubSeq(o, 1, 1)) = 1 /\ SubSeq(o, 1, 1)[1] = o[1]
      BY <2>1
    <2>3. SubSeq(o, 1, 1) = <<o[1]>>
      <3>1. <<o[1]>> \in Seq({o[1]}) /\ Len(<<o[1]>>) = 1 /\ <<o[1]>>[1] = o[1]
        OBVIOUS
      <3>2. \A i \in 1..1 : i = 1
        OBVIOUS
      <3> QED
        BY <2>2, <3>1, <3>2, SameItems
    <2> QED
      BY <1>5, <2>1, <2>3 DEF Document!Outer
  <1>16. OpenElements' = <<o[1]>>
    <2>1. depth' # 0 /\ ~closed' /\ calling' /\ root' = root
      BY <1>1, <1>12 DEF Parsing
    <2>2. OpenElements' = <<[name |-> node'[root].name, text |-> raw'[1], kids |-> << >>]>>
      BY <2>1, OpenShows DEF Shows
    <2> QED
      BY <1>12, <1>13, <1>14, <2>2
  <1>17. Document!EndTag
    BY <1>1, <1>2, <1>7, <1>11, <1>15, <1>16 DEF Document!EndTag
  <1>18. DocInv'
    BY <1>1, <1>12, <1>13 DEF DocInv
  <1> QED
    BY <1>17, <1>18

\* What the callback does to the tree does not show.
LEMMA PushRefines ==
    ASSUME IInv, DocInv, NEW name, Push(name)
    PROVE  DocInv' /\ UNCHANGED Document!docVars
  <1>0. /\ calling /\ LabelPush(name)
        /\ UNCHANGED <<streaming, calling, closed, root, depth, raw, seen, doc>>
    BY DEF Push, LabelPush, histVars
  <1>1. Tree(node, root) /\ root # Null /\ root \in DOMAIN node /\ current \in Pointers(node)
    BY <1>0 DEF IInv, TreeInv, PhaseInv, Tree, Shape
  <1>2. PICK from : from = IF current = Null THEN root ELSE current
    OBVIOUS
  <1>3. from \in DOMAIN node /\ PushTo(from, name)
    BY <1>0, <1>1, <1>2 DEF LabelPush, Pointers
  <1>4. node'[root].name = node[root].name
    <2>1. SameNames(node, node')
      BY <1>1, <1>3, PushIs
    <2> QED
      BY <1>1, <2>1 DEF SameNames
  <1>5. node'[root].value = node[root].value
    <2>1. node' = node \/ (HasRoom(node) /\ node' = WithChild(node, from, name))
      BY <1>3 DEF PushTo
    <2>2. HasRoom(node) => WithChild(node, from, name)[root].value = node[root].value
      BY <1>1, WithChildValues
    <2> QED
      BY <2>1, <2>2
  <1>6. OpenElements' = OpenElements
    BY <1>0, <1>4, OpenShows DEF Shows
  <1>7. DocInv'
    BY <1>0, <1>5 DEF DocInv
  <1> QED
    BY <1>0, <1>6, <1>7 DEF Document!docVars

LEMMA PopRefines ==
    ASSUME IInv, DocInv, Pop
    PROVE  DocInv' /\ UNCHANGED Document!docVars
  <1>0. calling /\ UNCHANGED <<streaming, calling, closed, node, root, depth, raw, seen, doc>>
    BY DEF Pop, LabelPop, histVars
  <1>1. OpenElements' = OpenElements
    BY <1>0, OpenShows DEF Shows
  <1> QED
    BY <1>0, <1>1 DEF DocInv, Document!docVars

LEMMA DecodeRefines ==
    ASSUME IInv, DocInv, Decode
    PROVE  DocInv' /\ UNCHANGED Document!docVars
  <1>0. /\ ~streaming /\ doc # << >> /\ ~closed /\ calling' = TRUE
        /\ UNCHANGED <<streaming, closed, node, root, current, depth, raw, seen, doc>>
    BY DEF Decode, Parsing, treeVars, histVars
  <1>1. depth = 0
    BY <1>0 DEF IInv, PhaseInv
  <1>2. OpenElements' = OpenElements
    BY <1>0, <1>1, OpenShows DEF Shows
  <1> QED
    BY <1>0, <1>1, <1>2 DEF DocInv, Document!docVars

LEMMA ParseErrorRefines ==
    ASSUME IInv, DocInv, ParseError
    PROVE  DocInv' /\ UNCHANGED Document!docVars
  <1>0. UNCHANGED <<streaming, calling, closed, node, root, current, depth, raw, seen, doc>>
    BY DEF ParseError, treeVars, histVars
  <1>1. OpenElements' = OpenElements
    BY <1>0, OpenShows DEF Shows
  <1> QED
    BY <1>0, <1>1 DEF DocInv, Document!docVars

LEMMA CallbackRefines ==
    ASSUME IInv, DocInv, CallbackReturns
    PROVE  DocInv' /\ UNCHANGED Document!docVars
  <1>0. /\ calling /\ streaming /\ node' = Forget(Freed(node, node[root].child))
        /\ current' = root /\ calling' = FALSE
        /\ UNCHANGED <<streaming, closed, root, depth, raw, seen, doc>>
    BY DEF CallbackReturns, histVars
  <1>1. Tree(node, root) /\ root # Null /\ root \in DOMAIN node /\ node[root].child # Null
        /\ node[node[root].child].next = Null /\ depth = 1 /\ ~closed /\ Null \notin DOMAIN node
    BY <1>0, NullIsNoNode DEF IInv, PhaseInv, OneMessage, TreeInv, Tree, Shape
  <1>2. Subtree(node, node[root].child) = DOMAIN node \ {root}
    BY <1>1, AllBelowOnlyChild
  <1>3. DOMAIN Freed(node, node[root].child) = {root} /\ Freed(node, node[root].child)[root] = node[root]
    BY <1>1, <1>2 DEF Freed
  <1>4. DOMAIN node[root] = NodeFields
    BY <1>1 DEF Tree, Shape
  <1>5. DOMAIN node' = {root} /\ node'[root] = [node[root] EXCEPT !.child = Null, !.last = Null]
    BY <1>0, <1>3 DEF Forget
  <1>6. node'[root].name = node[root].name /\ node'[root].value = node[root].value /\ node'[root].child = Null
    BY <1>4, <1>5 DEF NodeFields
  <1>7. Tree(node', root) /\ root \in Pointers(node')
    <2>1. IInv'
      BY CallbackStep
    <2> QED
      BY <1>0, <2>1 DEF IInv, TreeInv
  <1>8. Len(PathTo(node', root)) = 1 /\ PathTo(node', root)[1] = root
    <2>1. Len(PathTo(node', root)) = 1
      BY <1>1, <1>7, OnlyNullIsAtTop DEF Below
    <2>2. PathTo(node', root) # << >>
      BY <2>1
    <2> QED
      BY <1>7, <2>1, <2>2, PathLies
  <1>9. raw[1] = << >> /\ node[root].value = << >>
    BY <1>1 DEF DocInv
  <1>10. OpenOf(node', root, raw) = <<[name |-> node[root].name, text |-> raw[1], kids |-> << >>]>>
    <2>1. Children(node', root) = << >>
      BY <1>6, <1>7, ChildrenNone
    <2>2. Shown(node', root, 1) = 0
      BY <1>8, <2>1 DEF Shown
    <2>3. [j \in 1..0 |-> Value(node', Children(node', root)[j])] = << >>
      OBVIOUS
    <2>4. Frame(node', root, raw[1], 0) = [name |-> node[root].name, text |-> raw[1], kids |-> << >>]
      BY <1>6, <2>3 DEF Frame
    <2>5. PICK e : e = [name |-> node[root].name, text |-> raw[1], kids |-> << >>]
      OBVIOUS
    <2>6. \A i \in 1..1 : Frame(node', PathTo(node', root)[i], raw[i], Shown(node', root, i)) = e
      <3>1. \A i \in 1..1 : i = 1
        OBVIOUS
      <3> QED
        BY <1>8, <2>2, <2>4, <2>5, <3>1
    <2>7. OpenOf(node', root, raw) = [i \in 1..1 |-> e]
      BY <1>8, <2>6 DEF OpenOf
    <2> QED
      BY <2>5, <2>7
  <1>11. OpenElements' = OpenElements
    <2>1. OpenElements' = OpenOf(node', root, raw)
      BY <1>0, <1>1, OpenShows DEF Shows
    <2>2. OpenElements = <<[name |-> node[root].name, text |-> raw[1], kids |-> << >>]>>
      BY <1>0, <1>1, OpenShows DEF Shows
    <2> QED
      BY <1>10, <2>1, <2>2
  <1>12. Rightmost(node', root) /\ Kept(node', root, raw)
    <2>1. Leading(<< >>, << >>) = << >>
      <3>1. << >> \in Seq(Chars)
        OBVIOUS
      <3> QED
        BY <3>1, LeadingStays
    <2>2. \A i \in 1..1 : i = 1
      OBVIOUS
    <2> QED
      BY <1>6, <1>8, <1>9, <2>1, <2>2 DEF Rightmost, Kept
  <1>13. DocInv'
    BY <1>0, <1>6, <1>9, <1>12 DEF DocInv
  <1> QED
    BY <1>0, <1>11, <1>13 DEF Document!docVars

LEMMA DestroyRefines ==
    ASSUME IInv, DocInv, Destroy
    PROVE  DocInv' /\ Document!Close
  <1>0. /\ root' = Null /\ current' = Null /\ depth' = 0 /\ calling' = FALSE
        /\ raw' = << >> /\ UNCHANGED <<streaming, seen, doc>>
    BY DEF Destroy
  <1>1. Tree(node', Null)
    BY <1>0, DestroyStep DEF IInv, TreeInv
  <1>2. Len(PathTo(node', Null)) = 0
    BY <1>1, Depths DEF Below
  <1>3. Rightmost(node', Null) /\ Kept(node', Null, << >>)
    BY <1>2 DEF Rightmost, Kept
  <1>4. OpenElements' = << >>
    BY <1>0, OpenShows DEF Shows
  <1>5. << >> \in Seq(Seq(Chars)) /\ Len(<< >>) = 0
    OBVIOUS
  <1>6. DocInv'
    BY <1>0, <1>3, <1>5 DEF DocInv
  <1> QED
    BY <1>0, <1>4, <1>6 DEF Document!Close

LEMMA DocContinues ==
    IInv /\ DocInv /\ [Next]_vars => DocInv' /\ [Document!Next]_(Document!docVars)
  <1> SUFFICES ASSUME IInv, DocInv, [Next]_vars PROVE DocInv' /\ [Document!Next]_(Document!docVars)
    OBVIOUS
  <1>1. CASE \E name \in Tags : Start(name)
    BY <1>1, StartRefines DEF Document!Next
  <1>2. CASE \E name \in Names : Push(name)
    BY <1>2, PushRefines
  <1>3. CASE \E s \in Pieces : Data(s)
    BY <1>3, DataRefines DEF Document!Next, Document!Pieces, Pieces
  <1>4. CASE End
    BY <1>4, EndRefines DEF Document!Next
  <1>5. CASE EndMessage
    BY <1>5, EndMessageRefines DEF Document!Next
  <1>6. CASE Decode
    BY <1>6, DecodeRefines
  <1>7. CASE ParseError
    BY <1>7, ParseErrorRefines
  <1>8. CASE Pop
    BY <1>8, PopRefines
  <1>9. CASE CallbackReturns
    BY <1>9, CallbackRefines
  <1>10. CASE Destroy
    BY <1>10, DestroyRefines DEF Document!Next
  <1>11. CASE UNCHANGED vars
    <2>1. UNCHANGED <<streaming, calling, closed, node, root, current, depth, raw, seen, doc>>
      BY <1>11 DEF vars, treeVars, userVars, histVars
    <2>2. OpenElements' = OpenElements
      BY <2>1, OpenShows DEF Shows
    <2> QED
      BY <2>1, <2>2 DEF DocInv, Document!docVars
  <1> QED
    BY <1>1, <1>2, <1>3, <1>4, <1>5, <1>6, <1>7, <1>8, <1>9, <1>10, <1>11 DEF Next

\* However the parser cuts the input up, and whatever the callback appends
\* to the tree, the open elements, the messages the callback is shown and
\* the document decoded at the end (xdrxml_start_element, xdrxml_char_data,
\* xdrxml_end_element) are those of the document.
THEOREM StreamImplementsDocument == Spec => ImplementsDocument
  <1>1. Init => DocInv
    BY DocStarts
  <1>2. Init => Document!Init
    <2> SUFFICES ASSUME Init PROVE Document!Init
      OBVIOUS
    <2>1. OpenElements = << >>
      BY OpenShows DEF Init, TreeInit, Shows
    <2> QED
      BY <2>1 DEF Init, Document!Init
  <1>3. IInv /\ DocInv /\ [Next]_vars => DocInv' /\ [Document!Next]_(Document!docVars)
    BY DocContinues
  <1> QED
    BY <1>1, <1>2, <1>3, XmlInvariance, PTL DEF Spec, ImplementsDocument, Document!Spec
=============================================================================
