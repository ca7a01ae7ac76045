------------------------------- MODULE XdrFilter -------------------------------
(***************************************************************************)
(* The filters rpcgen writes (rpc_cout.c) run over an XML stream           *)
(* (xdr_xml.c).  One filter serves both directions: it pushes the label of *)
(* a field, calls the field's filter, pops the label, and after the last   *)
(* field returns TRUE; a failure leaves the loop, and the trailer of the   *)
(* filter pops a label before it returns FALSE.  x_op decides what a label *)
(* and a value do to the stream.                                           *)
(*                                                                         *)
(* A filter in progress is a frame; so is the loop over the elements of an *)
(* array, in x_type or in xdr_vector, and the call behind a pointer.  The  *)
(* object comes from the caller and is encoded, parsed back and decoded    *)
(* (xdrxml_fmt, xdrxml_parse), or a foreign document is decoded.           *)
(***************************************************************************)
EXTENDS XdrXmlTree, TLC

CONSTANTS Defs,        \* the definitions of the .x file, by type name
          Objects,       \* pairs: a type and an object of it to encode
          DocTypes,      \* types that a foreign document is decoded as
          DocTags,       \* names in a foreign document
          DocNodes,      \* bound: elements of a foreign document
          DocText        \* bound: characters of a foreign document

(***************************************************************************)
(* A field is [name, rel, type], rel "alias", "pointer", "array" (x<>) or  *)
(* "vector" (x[n], with len).  A definition is a "struct" with fields, or  *)
(* a "union" with a discriminant, an arm << >> (void) or <<field>> for     *)
(* each case, and default: <<>> for none, else <<arm>>.                    *)
(***************************************************************************)
Scalars == {"int", "string", "hyper"}
Fields == [name : Names, rel : {"alias", "pointer", "array", "vector"},
           type : DOMAIN Defs \cup Scalars, len : Nat]
IsDefinition(def) ==
  \/ def.kind = "struct" /\ def.fields \in Seq(Fields)
  \/ /\ def.kind = "union" /\ def.tag \in Fields
     /\ \A tag \in DOMAIN def.arms : def.arms[tag] \in Seq(Fields)
     /\ def.default \in Seq(Seq(Fields))

ASSUME FilterAssumption ==
  /\ \A type \in DOMAIN Defs : IsDefinition(Defs[type])
  /\ Scalars \cap DOMAIN Defs = {}
  /\ \A pair \in Objects : pair.type \in DOMAIN Defs
  /\ DocTypes \subseteq DOMAIN Defs /\ DocTags \subseteq Names
  /\ {"root", "elt"} \subseteq Names

VARIABLES x_op,        \* "encode", "parse", "decode" or "done"
          foreign,     \* the document is not one that was encoded
          main,        \* the type whose filter the caller calls
          obj,         \* the object the caller encodes
          frames,      \* the calls in progress, innermost last
          labels,      \* x_label: the names pushed, innermost last
          ret,         \* what the last call returned, "none" when it was taken
          val,         \* ... and the object it decoded
          out,         \* the tags and text written
          parsed       \* history: the tree when decoding began

filterVars == <<frames, labels, ret, val, out>>
vars == <<treeVars, x_op, foreign, main, obj, filterVars, parsed>>

Front(s) == SubSeq(s, 1, Len(s) - 1)
Frame(kind, type, of) ==
  [kind |-> kind, type |-> type, at |-> 1, count |-> 0, pending |-> FALSE,
   obj |-> of, home |-> Null]

Nothing == << >>

Top == frames[Len(frames)]
Within(kind) == frames # << >> /\ Top.kind = kind
Beginning(kind) == Within(kind) /\ ret = "none"
Returned(kind) == Within(kind) /\ ret # "none"

Encoding == x_op = "encode"
Decoding == x_op = "decode"

Init ==
  /\ TreeInit
  /\ labels = << >> /\ ret = "none" /\ val = Nothing /\ parsed = << >> /\ out = << >>
  /\ \/ /\ x_op = "encode" /\ foreign = FALSE
        /\ \E pair \in Objects :
             /\ main = pair.type /\ obj = pair.obj
             /\ frames = <<Frame("filter", main, obj)>>
     \/ /\ x_op = "parse" /\ foreign = TRUE
        /\ main \in DocTypes /\ obj = Nothing /\ frames = << >>
-----------------------------------------------------------------------------
(***************************************************************************)
(* Fields.  The arm of a union is known when the discriminant is.          *)
(***************************************************************************)
Arm(def, tag) ==
  IF tag \in DOMAIN def.arms THEN <<def.arms[tag]>> ELSE def.default

FieldsOf(f) ==
  LET def == Defs[f.type]
      tag == def.tag.name
  IN IF def.kind = "struct" THEN def.fields
     ELSE IF tag \notin DOMAIN f.obj \/ Arm(def, f.obj[tag]) = << >> THEN <<def.tag>>
     ELSE <<def.tag>> \o Arm(def, f.obj[tag])[1]

Field == FieldsOf(Top)[Top.at]
MoreFields == Top.at <= Len(FieldsOf(Top))

\* The value of DONE at the end of a filter: a union without the arm fails.
Done(f) == Defs[f.type].kind = "struct" \/ Arm(Defs[f.type], f.obj[Defs[f.type].tag.name]) # << >>

\* What is written for the object and the text read back, for each scalar.
Decimal(v) == LET digits[n \in 0..v] == IF n < 10 THEN <<n>>
                                        ELSE Append(digits[n \div 10], n % 10)
              IN digits[v]

Text(type, v) == IF type = "int" THEN Decimal(v) ELSE v

\* strtol: the digits a text begins with.  %ld writes no leading zero.
Number(text) ==
  LET digits == { n \in 0..Len(text) : \A i \in 1..n : text[i] \in 0..9 }
      value[n \in 0..Len(text)] == IF n = 0 THEN 0 ELSE 10 * value[n - 1] + text[n]
  IN value[CHOOSE n \in digits : \A m \in digits : m <= n]

FromText(type, text) == IF type = "int" THEN Number(text) ELSE text

Open(name) == [tag |-> "open", name |-> name, text |-> << >>]
Close(name) == [tag |-> "close", name |-> name, text |-> << >>]
Data(text) == [tag |-> "text", name |-> "", text |-> text]
\* The line break and indentation before a tag; it stands for the ones before
\* the closing tag of a structure too, which are white space at an end.
Layout == Data(<<CHOOSE c \in Space : TRUE>>)
-----------------------------------------------------------------------------
\* xdr_label_push and xdr_label_pop, with x_label of the stream.
Push(name) ==
  /\ labels' = Append(labels, name)
  /\ IF Encoding THEN /\ out' = out \o <<Layout, Open(name)>>
                      /\ UNCHANGED treeVars
                 ELSE LabelPush(name) /\ UNCHANGED out

\* x_label looks at the label it closes, so there must be one.
Pop ==
  /\ labels' = IF labels = << >> THEN << >> ELSE Front(labels)
  /\ IF Encoding THEN /\ labels # << >>
                      /\ out' = Append(out, Close(labels[Len(labels)]))
                      /\ UNCHANGED treeVars
                 ELSE LabelPop /\ UNCHANGED out

(***************************************************************************)
(* Call the filter of a type on object o, or on the element at cursor n,   *)
(* after the stream has written something.  A scalar is done at once; XML  *)
(* has no hyper (x_type answers 0).                                        *)
(***************************************************************************)
Call(type, o, n, fs, written) ==
  IF type \in Scalars
    THEN /\ frames' = fs
         /\ ret' = IF type = "hyper" THEN "false" ELSE "true"
         /\ val' = IF Encoding \/ type = "hyper" THEN Nothing
                   ELSE FromText(type, node[n].value)
         /\ out' = IF Encoding /\ type # "hyper" THEN Append(out \o written, Data(Text(type, o)))
                   ELSE out \o written
    ELSE /\ frames' = Append(fs, Frame("filter", type, o))
         /\ out' = out \o written
         /\ UNCHANGED <<ret, val>>

\* The part of the object being encoded that a field holds.
Part == IF Encoding THEN Top.obj[Field.name] ELSE Nothing

\* The innermost call returns r, with object v if it decodes.
Return(r, v) == /\ frames' = Front(frames)
                /\ ret' = r
                /\ val' = IF Encoding THEN Nothing ELSE v

Calls(rel) == Beginning("filter") /\ Top.pending /\ Field.rel = rel

PushField ==
  /\ Beginning("filter") /\ ~Top.pending /\ MoreFields
  /\ Push(Field.name)
  /\ frames' = [frames EXCEPT ![Len(frames)].pending = TRUE]
  /\ UNCHANGED <<ret, val>>

CallAlias ==
  /\ Calls("alias")
  /\ Call(Field.type, Part, current, frames, << >>)
  /\ UNCHANGED <<treeVars, labels>>

\* Mutant: an element is there when it has text.
MutantPresent(n) == node[n].value # << >>

\* XDR_TYPE_POINTER: an element with neither text nor children is NULL.
Present(n) == node[n].value # << >> \/ node[n].child # Null

CallPointer ==
  /\ Calls("pointer")
  /\ IF IF Encoding THEN Part # << >> ELSE Present(current)
       THEN Call(Field.type, IF Encoding THEN Part[1] ELSE Nothing, current,
                 Append(frames, Frame("pointer", Field.type, Nothing)), << >>)
       ELSE /\ ret' = "true" /\ val' = Nothing
            /\ UNCHANGED <<frames, out>>
  /\ UNCHANGED <<treeVars, labels>>

\* Its result is that of x_type only when encoding.
PointerReturns ==
  /\ Returned("pointer")
  /\ Return(IF Encoding THEN ret ELSE "true", <<val>>)
  /\ UNCHANGED <<treeVars, labels, out>>

ArrayHome == current

\* xdr_array, that is XDR_TYPE_ARRAY of x_type, and xdr_vector.
CallElements ==
  /\ \E rel \in {"array", "vector"} :
       /\ Calls(rel)
       /\ frames' = Append(frames,
            [Frame(rel, Field.type, Part) EXCEPT
               !.home = ArrayHome,
               !.count = IF rel = "vector" THEN Field.len
                         ELSE IF Encoding THEN Len(Part)
                         ELSE Len(Children(node, current))])
  /\ UNCHANGED <<treeVars, labels, ret, val, out>>

ArrayElement ==
  /\ Beginning("array") /\ Top.at <= Top.count
  /\ LET n == IF Encoding THEN Null ELSE Children(node, Top.home)[Top.at]
     IN /\ current' = n
        /\ Call(Top.type, IF Encoding THEN Top.obj[Top.at] ELSE Nothing, n, frames,
                IF Encoding THEN <<Layout, Open("elt")>> ELSE << >>)
  /\ UNCHANGED <<node, root, depth, labels>>

VectorElement ==
  /\ Beginning("vector") /\ Top.at <= Top.count
  /\ Call(Top.type, IF Encoding THEN Top.obj[Top.at] ELSE Nothing, current, frames, << >>)
  /\ UNCHANGED <<treeVars, labels>>

\* On to the next element.
Another == /\ frames' = [frames EXCEPT ![Len(frames)].at = @ + 1,
                           ![Len(frames)].obj = IF Encoding THEN @ ELSE Append(@, val)]
           /\ ret' = "none" /\ val' = Nothing

\* x_type does not look at the result of an element, xdr_vector does.
ArrayElementReturns ==
  /\ Returned("array")
  /\ Another
  /\ out' = IF Encoding THEN Append(out, Close("elt")) ELSE out
  /\ UNCHANGED <<treeVars, labels>>

VectorElementReturns ==
  /\ Returned("vector")
  /\ IF ret = "true" THEN Another ELSE Return("false", Top.obj)
  /\ UNCHANGED <<treeVars, labels, out>>

\* Mutant: the cursor stays at the last element.
MutantAfterArray == current

AfterArray == Top.home

ElementsDone ==
  /\ Beginning("array") \/ Beginning("vector")
  /\ Top.at > Top.count
  /\ current' = IF Top.kind = "array" THEN AfterArray ELSE current
  /\ Return("true", Top.obj)
  /\ UNCHANGED <<node, root, depth, labels, out>>

FieldReturns ==
  /\ Returned("filter") /\ ret = "true"
  /\ Pop
  /\ frames' = [frames EXCEPT
       ![Len(frames)].at = @ + 1, ![Len(frames)].pending = FALSE,
       ![Len(frames)].obj = IF Encoding THEN @ ELSE (Field.name :> val) @@ @]
  /\ ret' = "none" /\ val' = Nothing

\* Mutant: the trailer leaves the label.
MutantTrailer == UNCHANGED <<treeVars, labels, out>>

\* if (OK != TRUE) xdr_label_pop(xdrs);
Trailer == Pop

FieldFails ==
  /\ Returned("filter") /\ ret = "false"
  /\ Trailer
  /\ Return("false", Top.obj)

FilterEnds ==
  /\ Beginning("filter") /\ ~Top.pending /\ ~MoreFields
  /\ IF Done(Top) THEN /\ Return("true", Top.obj)
                       /\ UNCHANGED <<treeVars, labels, out>>
                  ELSE /\ Return("false", Top.obj)
                       /\ Trailer
-----------------------------------------------------------------------------
\* xdrxml_fmt is done: it wraps what the filter wrote in a root element.
Encoded ==
  /\ Encoding /\ frames = << >>
  /\ IF ret = "true"
       THEN /\ x_op' = "parse" /\ ret' = "none"
            /\ out' = <<Open("root")>> \o out \o <<Close("root")>>
       ELSE /\ x_op' = "done"
            /\ UNCHANGED <<ret, out>>
  /\ UNCHANGED <<treeVars, foreign, main, obj, frames, labels, val, parsed>>

Parse(event) == CASE event.tag = "open"  -> StartElement(event.name)
                  [] event.tag = "text"  -> IF event.text = << >> THEN UNCHANGED treeVars
                                            ELSE CharData(event.text)
                  [] event.tag = "close" -> EndElement

ParseOwn ==
  /\ x_op = "parse" /\ ~foreign /\ out # << >>
  /\ Parse(Head(out))
  /\ out' = Tail(out)
  /\ UNCHANGED <<x_op, foreign, main, obj, frames, labels, ret, val, parsed>>

Characters == LET size[n \in 0..MaxNodes] ==
                    IF n = 0 THEN 0
                    ELSE size[n - 1] + (IF n \in DOMAIN node THEN Len(node[n].value) ELSE 0)
              IN size[MaxNodes]

ParseForeign ==
  /\ x_op = "parse" /\ foreign
  /\ \/ /\ root = Null
        /\ StartElement("root")
     \/ /\ depth > 0 /\ Cardinality(DOMAIN node) < DocNodes
        /\ \E name \in DocTags : StartElement(name)
     \/ /\ depth > 1 /\ Characters < DocText
        /\ \E c \in Chars \ Space : CharData(<<c>>)
     \/ /\ depth > 0
        /\ EndElement
  /\ UNCHANGED <<x_op, foreign, main, obj, filterVars, parsed>>

\* The document is complete: xdrxml_parse calls the filter.
Decode ==
  /\ x_op = "parse" /\ depth = 0 /\ root # Null
  /\ x_op' = "decode"
  /\ frames' = <<Frame("filter", main, Nothing)>>
  /\ parsed' = node
  /\ UNCHANGED <<treeVars, foreign, main, obj, labels, ret, val, out>>

Decoded ==
  /\ Decoding /\ frames = << >>
  /\ x_op' = "done"
  /\ UNCHANGED <<treeVars, foreign, main, obj, filterVars, parsed>>

Filter ==
  /\ \/ PushField \/ CallAlias \/ CallPointer \/ PointerReturns
     \/ CallElements \/ ArrayElement \/ ArrayElementReturns
     \/ VectorElement \/ VectorElementReturns \/ ElementsDone
     \/ FieldReturns \/ FieldFails \/ FilterEnds
  /\ UNCHANGED <<x_op, foreign, main, obj, parsed>>

Next == Filter \/ Encoded \/ ParseOwn \/ ParseForeign \/ Decode \/ Decoded

Spec == Init /\ [][Next]_vars
-----------------------------------------------------------------------------
\* s is what t has at each place of its domain, in order.
InOrder(s, t) ==
  /\ Len(s) = Cardinality(DOMAIN t)
  /\ \A i \in DOMAIN t : s[Cardinality({ j \in DOMAIN t : j <= i })] = t[i]

(***************************************************************************)
(* "this is to keep a stack of structure elements for XML"                 *)
(* (rpc/xdr.h:110): x_label holds the fields that are being encoded or     *)
(* decoded, outermost first, and nothing else, also when a filter fails.   *)
(***************************************************************************)
Holders == { i \in 1..Len(frames) : frames[i].pending }
LabelsAreFields == InOrder(labels, [i \in Holders |-> FieldsOf(frames[i])[frames[i].at].name])

(***************************************************************************)
(* The cursor of a decoding stream is at the element the labels name,      *)
(* counted from the root: the steps from an array to its elements, which   *)
(* have no label, are the only others.                                     *)
(***************************************************************************)
CursorIsLabels ==
  Decoding =>
    LET path  == IF current = Null THEN <<root>> ELSE PathTo(node, current)
        homes == { frames[i].home : i \in { j \in 1..Len(frames) : frames[j].kind = "array" } }
        named == { i \in 2..Len(path) : node[path[i]].parent \notin homes }
    IN InOrder(labels, [i \in named |-> node[path[i]].name])

(***************************************************************************)
(* "Serialization handles most C types including strings, arrays,          *)
(* pointers" (README:12): what was encoded as XML and decoded again is the *)
(* object, for strings without markup and without white space at the ends. *)
(***************************************************************************)
RoundTrip == x_op = "done" /\ ~foreign => ret = "true" /\ val = obj

\* The first element of that name in element n, in the document as parsed.
ElementOf(n, name) ==
  IF n = Null THEN Null
  ELSE LET kids == Children(parsed, n)
           named == { i \in 1..Len(kids) : parsed[kids[i]].name = name }
       IN IF named = {} THEN Null ELSE kids[CHOOSE i \in named : \A j \in named : i <= j]

\* What element n of the document means as an object of a type.
Meaning(type, element) ==
  LET text(n) == IF n = Null THEN << >> ELSE parsed[n].value
      kids(n) == IF n = Null THEN << >> ELSE Children(parsed, n)
      means[t \in DOMAIN Defs \cup Scalars, n \in DOMAIN parsed \cup {Null}] ==
        LET field(f) ==
              LET e == ElementOf(n, f.name)
              IN CASE f.rel = "alias"   -> means[f.type, e]
                   [] f.rel = "pointer" -> IF text(e) = << >> /\ kids(e) = << >> THEN << >>
                                           ELSE <<means[f.type, e]>>
                   [] f.rel = "array"   -> [i \in 1..Len(kids(e)) |-> means[f.type, kids(e)[i]]]
                   [] f.rel = "vector"  -> [i \in 1..f.len |-> means[f.type, e]]
            record(fs) == [name \in { fs[i].name : i \in 1..Len(fs) } |->
                             field(fs[CHOOSE i \in 1..Len(fs) : fs[i].name = name])]
        IN IF t \in Scalars THEN FromText(t, text(n))
           ELSE IF Defs[t].kind = "struct" THEN record(Defs[t].fields)
           ELSE LET arm == Arm(Defs[t], field(Defs[t].tag))
                IN record(<<Defs[t].tag>> \o (IF arm = << >> THEN << >> ELSE arm[1]))
  IN means[type, element]

(***************************************************************************)
(* Whatever a document holds - elements missing, repeated, out of order,   *)
(* unknown, empty or with text where children are expected - a filter that *)
(* succeeds has decoded the first element of each name, and an element     *)
(* that is missing like one that is empty.                                 *)
(***************************************************************************)
DecodesDocument ==
  x_op = "done" /\ foreign /\ ret = "true" => val = Meaning(main, root)
=============================================================================
