-------------------------------- MODULE XdrXml --------------------------------
(***************************************************************************)
(* An XML stream and its user (xdr_xml.c).  expat, driven by               *)
(* xdrxml_stream_recv, calls the handlers for a well-formed document it is *)
(* given in pieces of any size.  With a callback (xdrxml_stream_open) each *)
(* element below the root is decoded by it and freed; without one          *)
(* (xdrxml_create_buf_read) the whole document is decoded at the end.      *)
(* The callback is a filter that pops every label it pushes, whatever the  *)
(* names it looks for; XdrFilter has the filters rpcgen generates.         *)
(***************************************************************************)
EXTENDS XdrXmlTree

CONSTANTS Tags,        \* names in the document; the filter looks for any of Names
          MaxPiece,    \* bound: characters in one call of xdrxml_char_data
          MaxText,     \* bound: characters below the root
          MaxMsgs,     \* bound: messages of a stream
          MaxLevel     \* bound: labels pushed at the same time

ASSUME XmlAssumption == Tags \subseteq Names

VARIABLES streaming,   \* the stream has a callback (ctx->func)
          calling,     \* the user's filter is running
          level,       \* labels it pushed and has not popped
          failed,      \* XML_Parse returned an error
          closed,      \* xdrxml_destroy was called
          chars,       \* history: characters of the document so far
          raw,         \* history: the character data of the open elements
          seen,        \* history: the messages the callback was shown
          doc          \* history: the document, once it is complete

userVars == <<streaming, calling, level, failed, closed>>
histVars == <<chars, raw, seen, doc>>
vars == <<treeVars, userVars, histVars>>

Init == /\ TreeInit
        /\ streaming \in BOOLEAN
        /\ calling = FALSE /\ level = 0 /\ failed = FALSE /\ closed = FALSE
        /\ chars = 0 /\ raw = << >> /\ seen = << >> /\ doc = << >>

Pieces == UNION { [1..n -> Chars] : n \in 1..MaxPiece }

Front(s) == SubSeq(s, 1, Len(s) - 1)

Parsing == ~calling /\ ~failed /\ ~closed

Start(name) ==
  /\ Parsing
  /\ depth = 0 => root = Null
  /\ StartElement(name)
  /\ raw' = Append(raw, << >>)
  /\ UNCHANGED <<userVars, chars, seen, doc>>

Data(s) ==
  /\ Parsing /\ depth > 0
  /\ chars + Len(s) <= MaxText
  /\ CharData(s)
  /\ raw' = IF depth = 1 THEN raw ELSE [raw EXCEPT ![depth] = @ \o s]
  /\ chars' = IF depth = 1 THEN chars ELSE chars + Len(s)
  /\ UNCHANGED <<userVars, seen, doc>>

\* The end of an element that is not handed to the callback.
End ==
  /\ Parsing /\ depth > 0 /\ ~(streaming /\ depth = 2)
  /\ EndElement
  /\ raw' = Front(raw)
  /\ doc' = IF depth = 1 THEN <<Value(node', root)>> ELSE doc
  /\ UNCHANGED <<userVars, chars, seen>>

\* The end of a message: the callback starts at the first child of the root.
EndMessage ==
  /\ Parsing /\ streaming /\ depth = 2 /\ Len(seen) < MaxMsgs
  /\ node' = [node EXCEPT ![current].value = Trimmed(@)]
  /\ depth' = depth - 1
  /\ LET message == node[node[current].parent].child
     IN /\ current' = message
        /\ seen' = Append(seen, Value(node', message))
  /\ raw' = Front(raw)
  /\ calling' = TRUE
  /\ UNCHANGED <<streaming, root, level, failed, closed, chars, doc>>

\* xdrxml_parse calls the filter when the whole buffer has been parsed.
Decode ==
  /\ Parsing /\ ~streaming /\ doc # << >>
  /\ calling' = TRUE
  /\ UNCHANGED <<streaming, treeVars, level, failed, closed, histVars>>

\* The input is not XML, or the connection ended too early: a stream waits
\* to be closed, xdrxml_parse returns and leaves the tree it had.
ParseError ==
  /\ Parsing
  /\ doc = << >>
  /\ failed' = TRUE
  /\ UNCHANGED <<streaming, treeVars, calling, level, closed, histVars>>

Push(name) ==
  /\ calling /\ level < MaxLevel
  /\ LabelPush(name)
  /\ level' = level + 1
  /\ UNCHANGED <<streaming, calling, failed, closed, histVars>>

Pop ==
  /\ calling /\ level > 0
  /\ LabelPop
  /\ level' = level - 1
  /\ UNCHANGED <<streaming, calling, failed, closed, histVars>>

\* Mutant: last_child survives the message it points into.
MutantForget(heap) == [heap EXCEPT ![root].child = Null]

Forget(heap) == [heap EXCEPT ![root].child = Null, ![root].last = Null]

\* The rest of xdrxml_end_element.
CallbackReturns ==
  /\ calling /\ streaming /\ level = 0
  /\ node' = Forget(Freed(node, node[root].child))
  /\ current' = root
  /\ calling' = FALSE
  /\ UNCHANGED <<streaming, root, depth, level, failed, closed, histVars>>

\* xdrxml_destroy: between two calls of xdrxml_stream_recv, or at the end
\* of xdrxml_parse.
Destroy ==
  /\ ~closed
  /\ IF calling THEN ~streaming /\ level = 0 ELSE streaming
  /\ node' = IF root = Null THEN node ELSE Freed(node, root)
  /\ root' = Null /\ current' = Null /\ depth' = 0
  /\ calling' = FALSE /\ closed' = TRUE
  /\ raw' = << >>
  /\ UNCHANGED <<streaming, level, failed, chars, seen, doc>>

Next == \/ \E name \in Tags : Start(name)
        \/ \E name \in Names : Push(name)
        \/ \E s \in Pieces : Data(s)
        \/ End
        \/ EndMessage
        \/ Decode
        \/ ParseError
        \/ Pop
        \/ CallbackReturns
        \/ Destroy

Spec == Init /\ [][Next]_vars
-----------------------------------------------------------------------------
(***************************************************************************)
(* The lists of children stay linked however elements, labels and frees    *)
(* interleave: no pointer dangles, a list starts at child, ends at last,   *)
(* and holds exactly the nodes whose parent it belongs to.                 *)
(***************************************************************************)
TreeLinked ==
  /\ {root, current} \subseteq DOMAIN node \cup {Null}
  /\ \A n \in DOMAIN node :
       /\ {node[n].parent, node[n].child, node[n].last, node[n].next}
            \subseteq DOMAIN node \cup {Null}
       /\ LET kids == Children(node, n)
          IN /\ node[n].last = (IF kids = << >> THEN Null ELSE kids[Len(kids)])
             /\ { kids[i] : i \in 1..Len(kids) } = { m \in DOMAIN node : node[m].parent = n }

(***************************************************************************)
(* Memory is what the messages in hand need: between two messages only the *)
(* root is left, whatever nodes the callback appended, and nothing is left *)
(* when the stream is destroyed.                                           *)
(***************************************************************************)
NothingLeft ==
  /\ streaming /\ depth = 1 /\ ~calling => DOMAIN node = {root}
  /\ closed => DOMAIN node = {}

(***************************************************************************)
(* The cursor is where the parser or the filter stands: as deep as the     *)
(* elements that are open, or as the labels that are pushed.               *)
(***************************************************************************)
CursorDepth ==
  LET below == IF current = Null THEN 0 ELSE Len(PathTo(node, current))
  IN IF ~calling THEN below = depth
     ELSE IF streaming THEN below = 2 + level
     ELSE level > 0 => below = 1 + level

(***************************************************************************)
(* However the parser cuts the input up, the callback is shown every       *)
(* message of the document, once and in order, and the document decoded at *)
(* the end is the one that was parsed.                                     *)
(***************************************************************************)
OpenElements ==
  IF depth = 0 \/ closed THEN << >>
  ELSE LET path == IF calling THEN <<root>> ELSE PathTo(node, current)
           kids(i) == Children(node, path[i])
           finished(i) == IF calling THEN 0
                          ELSE IF i = Len(path) THEN Len(kids(i)) ELSE Len(kids(i)) - 1
       IN [i \in 1..Len(path) |->
             [name |-> node[path[i]].name, text |-> raw[i],
              kids |-> [j \in 1..finished(i) |-> Value(node, kids(i)[j])]]]

Document == INSTANCE XmlDocument WITH Names <- Tags, frames <- OpenElements,
                                      done <- doc, msgs <- seen
ImplementsDocument == Document!Spec
=============================================================================
