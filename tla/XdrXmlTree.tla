------------------------------ MODULE XdrXmlTree ------------------------------
(***************************************************************************)
(* The tree of nodes behind an XML stream (xdr_xml.c; bkxml.c keeps the    *)
(* same tree): the heap, the expat handlers that build it and x_label,     *)
(* which walks and extends it while a message is decoded.                  *)
(*                                                                         *)
(* The heap is a function from the nodes allocated now to their contents;  *)
(* a freed node is reused, as malloc may, so a pointer left behind either  *)
(* dangles or reaches another node.                                        *)
(***************************************************************************)
EXTENDS Integers, Sequences, FiniteSets

CONSTANTS Names,       \* names of elements and labels
          Chars,       \* characters of the text
          Space,       \* the ones isspace() holds of
          MaxNodes     \* bound: nodes allocated at the same time

ASSUME TreeAssumption == Space \subseteq Chars /\ MaxNodes \in Nat

VARIABLES node,        \* the heap of xdrxml_node_t
          root,        \* "the root of the whole tree"
          current,     \* "the current node I'm filling (below the root)"
          depth

treeVars == <<node, root, current, depth>>

Null == 0

TreeInit == node = << >> /\ root = Null /\ current = Null /\ depth = 0
-----------------------------------------------------------------------------
\* The contents of a new node.
Born(name, parent, next) ==
  [name |-> name, value |-> << >>, parent |-> parent,
   child |-> Null, last |-> Null, next |-> next]

HasRoom(heap) == Cardinality(DOMAIN heap) < MaxNodes

Fresh(heap) == CHOOSE id \in 1..MaxNodes :
                 id \notin DOMAIN heap /\ \A j \in 1..(id - 1) : j \in DOMAIN heap

\* xdrxml_node_new_child: the heap with a last child of `parent' added.
WithChild(heap, parent, name) ==
  LET id   == Fresh(heap)
      last == IF parent = Null THEN Null ELSE heap[parent].last
  IN [n \in DOMAIN heap \cup {id} |->
        IF n = id
          THEN Born(name, parent, IF last = Null THEN Null ELSE heap[last].next)
          ELSE [heap[n] EXCEPT !.next  = IF n = last THEN id ELSE @,
                               !.last  = IF n = parent THEN id ELSE @,
                               !.child = IF n = parent /\ last = Null THEN id ELSE @]]

\* What xdrxml_node_free(n) visits: n, and the lists of children below it.
Closed(heap, n, S) ==
  /\ n \in S
  /\ \A m \in S : /\ heap[m].child \in S \cup {Null}
                  /\ m # n => heap[m].next \in S \cup {Null}

Subtree(heap, n) ==
  { m \in DOMAIN heap : \A S \in SUBSET DOMAIN heap : Closed(heap, n, S) => m \in S }

\* Mutant: the children of the freed node are forgotten.
MutantFreed(heap, n) == [m \in DOMAIN heap \ {n} |-> heap[m]]

Freed(heap, n) == [m \in DOMAIN heap \ Subtree(heap, n) |-> heap[m]]

\* The list of children of n.
Children(heap, n) ==
  LET from[m \in DOMAIN heap \cup {Null}] ==
        IF m = Null THEN << >> ELSE <<m>> \o from[heap[m].next]
  IN from[heap[n].child]
-----------------------------------------------------------------------------
\* Mutant: white space is stripped from every piece of character data.
MutantLeading(value, s) ==
  LET black == { i \in 1..Len(s) : s[i] \notin Space }
  IN IF black = {} THEN << >>
     ELSE SubSeq(s, CHOOSE i \in black : \A j \in black : i <= j, Len(s))

\* What xdrxml_char_data keeps of s: leading white space is dropped while
\* the node has no value.
Leading(value, s) ==
  LET black == { i \in 1..Len(s) : s[i] \notin Space }
  IN IF value # << >> THEN s
     ELSE IF black = {} THEN << >>
     ELSE SubSeq(s, CHOOSE i \in black : \A j \in black : i <= j, Len(s))

\* The trailing white space xdrxml_end_element cuts off.
Trimmed(value) ==
  LET black == { i \in 1..Len(value) : value[i] \notin Space }
  IN IF black = {} THEN << >>
     ELSE SubSeq(value, 1, CHOOSE i \in black : \A j \in black : j <= i)

\* xdrxml_start_element.
StartElement(name) ==
  /\ HasRoom(node)
  /\ node' = WithChild(node, current, name)
  /\ current' = Fresh(node)
  /\ root' = IF root = Null THEN Fresh(node) ELSE root
  /\ depth' = depth + 1

\* xdrxml_char_data.
CharData(s) ==
  /\ node' = IF node[current].parent = Null THEN node
             ELSE [node EXCEPT ![current].value = @ \o Leading(@, s)]
  /\ UNCHANGED <<root, current, depth>>

\* xdrxml_end_element, up to the test for a complete top-level element.
EndElement ==
  /\ node' = [node EXCEPT ![current].value = Trimmed(@)]
  /\ current' = node[current].parent
  /\ depth' = depth - 1
  /\ UNCHANGED root
-----------------------------------------------------------------------------
(***************************************************************************)
(* x_label of a decoding stream (xdrxml_label): push moves to the first    *)
(* child of that name, an empty one is appended when there is none; pop    *)
(* moves back to the parent.                                               *)
(***************************************************************************)
Named(heap, n, name) ==
  LET kids == Children(heap, n)
  IN { i \in 1..Len(kids) : heap[kids[i]].name = name }

\* Mutant: the walk over the children goes on after a match.
MutantMatch(indices) == CHOOSE i \in indices : \A j \in indices : j <= i

Match(indices) == CHOOSE i \in indices : \A j \in indices : i <= j

\* Mutant: nothing is appended for an element that is not there.
MutantPushTo(from, name) ==
  LET named == Named(node, from, name)
  IN /\ current' = IF named = {} THEN current ELSE Children(node, from)[Match(named)]
     /\ UNCHANGED node

PushTo(from, name) ==
  LET named == Named(node, from, name)
  IN IF named # {}
       THEN /\ current' = Children(node, from)[Match(named)]
            /\ UNCHANGED node
       ELSE /\ HasRoom(node)
            /\ current' = Fresh(node)
            /\ node' = WithChild(node, from, name)

LabelPush(name) ==
  /\ IF current = Null /\ root = Null
       THEN UNCHANGED <<node, current>>
       ELSE PushTo(IF current = Null THEN root ELSE current, name)
  /\ UNCHANGED <<root, depth>>

LabelPop ==
  /\ current # Null
  /\ current' = node[current].parent
  /\ UNCHANGED <<node, root, depth>>
-----------------------------------------------------------------------------
\* A node and everything below it, as a value.
Value(heap, n) ==
  LET below[m \in DOMAIN heap] ==
        LET kids == Children(heap, m)
        IN [name |-> heap[m].name, text |-> heap[m].value,
            kids |-> [i \in 1..Len(kids) |-> below[kids[i]]]]
  IN below[n]

\* The nodes from the root to n.
PathTo(heap, n) ==
  LET up[m \in DOMAIN heap \cup {Null}] ==
        IF m = Null THEN << >> ELSE Append(up[heap[m].parent], m)
  IN up[n]
=============================================================================
