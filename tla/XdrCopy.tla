-------------------------------- MODULE XdrCopy --------------------------------
(***************************************************************************)
(* The filters of the library and of rpcgen over a memory stream           *)
(* (xdr_mem.c), as xdr_copy (xdr_stream.c) and xdr_pack (xdr_bk.c) call    *)
(* them: an object is encoded into a buffer and decoded from it, or a      *)
(* buffer of unknown contents is decoded; then xdr_free releases what      *)
(* decoding allocated, also when it failed half-way.                       *)
(*                                                                         *)
(* A pointer is << >> when NULL and a sequence of what it points to        *)
(* otherwise.  A block of memory is named by the place of its pointer in   *)
(* the object: the positions of the calls that lead to it.                 *)
(***************************************************************************)
EXTENDS XdrScalar, SequencesExt

CONSTANTS Defs,        \* the definitions of the .x file, by type name
          Objects,     \* pairs: a type and an object of it
          Buffers,     \* sizes of the buffer objects are encoded into, in bytes
          ForeignTypes,   \* types decoded from a buffer of unknown contents
          ForeignBuffers, \* ... its sizes
          ForeignWords,   \* ... and the words it may hold
          Unit,        \* BYTES_PER_XDR_UNIT
          ElSize       \* sizeof an element of an array

(***************************************************************************)
(* A field is [name, rel, type, max]: rel is "alias", "pointer", "array",  *)
(* "vector", "string" (string<max>), "bytes" (opaque<max>) or "opaque"     *)
(* (opaque[max]).  Structures and unions are as in XdrFilter.              *)
(***************************************************************************)
IsField(f) ==
  /\ f.rel \in {"alias", "pointer", "array", "vector", "string", "bytes", "opaque"}
  /\ f.type \in Scalars \cup DOMAIN Defs /\ f.max \in Nat
  /\ f.rel = "pointer" => f.type \in DOMAIN Defs

\* The members of a structure have different names; the discriminant of a
\* union is a scalar; an arm is << >> (void) or one field.
IsDefinition(def) ==
  IF def.kind = "struct"
    THEN /\ Len(def.fields) \in Nat
         /\ \A i \in 1..Len(def.fields) : IsField(def.fields[i])
         /\ \A i, j \in 1..Len(def.fields) : def.fields[i].name = def.fields[j].name => i = j
    ELSE /\ def.kind = "union"
         /\ IsField(def.tag) /\ def.tag.rel = "alias" /\ def.tag.type \in Scalars
         /\ LET IsArm(a) == a = << >> \/ \E f \in {a[1]} : a = <<f>> /\ IsField(f) /\ f.name # def.tag.name
            IN /\ \A v \in DOMAIN def.arms : IsArm(def.arms[v])
               /\ def.default = << >> \/ \E a \in {def.default[1]} : def.default = <<a>> /\ IsArm(a)

ASSUME CopyAssumption ==
  /\ Unit \in Nat \ {0} /\ ElSize \in Nat \ {0}
  /\ Scalars \cap DOMAIN Defs = {}
  /\ \A t \in DOMAIN Defs : IsDefinition(Defs[t])
  /\ \A pair \in Objects : pair.type \in DOMAIN Defs
  /\ ForeignTypes \subseteq DOMAIN Defs
  /\ ForeignWords \subseteq 0..(2 ^ IntBits - 1)

VARIABLES x_op,        \* "encode", "decode", "free" or "done"
          foreign,     \* the buffer was not written by this program
          main,        \* the type whose filter is called
          src, dst,    \* the object encoded, the object decoded
          size,        \* the size of the buffer
          scarce,      \* mem_alloc may find no memory
          x_handy,     \* bytes left in the stream
          items,       \* the words (sequences of one number) and byte strings in the stream
          frames,      \* the calls in progress, innermost last
          ret,         \* what the last call returned, "none" when it was taken
          val,         \* ... and the object it decoded or freed
          heap,        \* the blocks allocated
          encoded,     \* history: what the encoding filter returned
          decoded      \* history: what the decoding filter returned

streamVars == <<x_handy, items>>
callVars == <<frames, ret, val>>
vars == <<x_op, foreign, main, src, dst, size, scarce, streamVars, callVars, heap, encoded, decoded>>

UMax == 2 ^ IntBits - 1
Pad(n) == (Unit - (n % Unit)) % Unit

\* An object memset to zero, as it is before it is decoded: 0, NULL and zeroed
\* fields. A field that was never stored is left out.
Zero(type) == IF type \in Scalars THEN 0 ELSE << >>

Frame(kind, type, of) ==
  [kind |-> kind, type |-> type, at |-> 1, obj |-> of]

\* The name of the block that the current field of the innermost call owns.
Owner(fs) == [i \in 1..Len(fs) |-> fs[i].at]

Top == frames[Len(frames)]
Within(kind) == frames # << >> /\ Top.kind = kind
Beginning(kind) == Within(kind) /\ ret = "none"
Returned(kind) == Within(kind) /\ ret # "none"

Encoding == x_op = "encode"
Decoding == x_op = "decode"
Freeing == x_op = "free"

Init ==
  /\ scarce \in BOOLEAN
  /\ items = << >>
  /\ ret = "none" /\ val = << >> /\ heap = {} /\ encoded = "none" /\ decoded = "none"
  /\ \/ /\ x_op = "encode" /\ foreign = FALSE /\ size \in Buffers
        /\ \E pair \in Objects : main = pair.type /\ src = pair.obj
        /\ frames = <<Frame("filter", main, src)>>
     \/ /\ x_op = "decode" /\ foreign = TRUE /\ size \in ForeignBuffers
        /\ main \in ForeignTypes /\ src = << >>
        /\ frames = <<Frame("filter", main, Zero(main))>>
  /\ dst = Zero(main) /\ x_handy = size
-----------------------------------------------------------------------------
(***************************************************************************)
(* Fields.  The arm of a union is known when the discriminant is.          *)
(***************************************************************************)
Arm(def, tag) == IF tag \in DOMAIN def.arms THEN <<def.arms[tag]>> ELSE def.default

\* In an object that was cleared every discriminant is zero: the arm counts
\* when the filter has stored it.
FieldsOf(f) ==
  LET def == Defs[f.type]
  IN IF def.kind = "struct" THEN def.fields
     ELSE IF def.tag.name \notin DOMAIN f.obj THEN <<def.tag>>
     ELSE LET arm == Arm(def, f.obj[def.tag.name])
          IN <<def.tag>> \o IF arm = << >> THEN << >> ELSE arm[1]

Field == FieldsOf(Top)[Top.at]
MoreFields == Top.at <= Len(FieldsOf(Top))
Done(f) == Defs[f.type].kind = "struct" \/ Arm(Defs[f.type], f.obj[Defs[f.type].tag.name]) # << >>

\* The object o when v was stored in a field.
Stored(o, name, v) == [m \in DOMAIN o \cup {name} |-> IF m = name THEN v ELSE o[m]]

\* The part of the object a field holds.
Part ==
  IF Field.name \in DOMAIN Top.obj THEN Top.obj[Field.name]
  ELSE IF Field.rel = "alias" THEN Zero(Field.type)
  ELSE IF Field.rel = "vector" THEN [i \in 1..Field.max |-> Zero(Field.type)]
  ELSE << >>

Calls(rels) == Beginning("filter") /\ MoreFields /\ Field.rel \in rels
-----------------------------------------------------------------------------
(***************************************************************************)
(* The memory stream.  When a call fails nothing more is read or written:  *)
(* every filter above fails too, and the stream is destroyed.              *)
(***************************************************************************)
\* if (xdrs->x_handy < len) return FALSE;
Fits(n) == n <= x_handy

Word(w) == <<w>>
Words(ws) == [i \in 1..Len(ws) |-> Word(ws[i])]

\* The first k words of the stream; where no words were written they may be any.
Peek(k) == IF k <= Len(items) /\ \A i \in 1..k : items[i] \in { Word(w) : w \in 0..UMax }
             THEN {[i \in 1..k |-> items[i][1]]}
             ELSE [1..k -> ForeignWords]

\* Read n bytes, the next k items.
Read(n, k) == /\ x_handy' = x_handy - n
              /\ items' = IF foreign THEN items ELSE SubSeq(items, k + 1, Len(items))

\* Write new items of n bytes together.
Write(new, n) == x_handy' = x_handy - n /\ items' = items \o new

\* The innermost call returns to its caller's frames with an object.
Gives(r, v) == ret' = r /\ val' = v /\ UNCHANGED frames
Fails(v) == Gives("false", v) /\ UNCHANGED <<streamVars, heap>>

\* A scalar: xdr_int, xdr_hyper, ...
Scalar(type, v) ==
  LET ws == ToWords(type, v)
      n  == Unit * Len(ws)
  IN CASE Encoding ->
            IF Encodable(type, v) /\ Fits(n)
              THEN Write(Words(ws), n) /\ Gives("true", v) /\ UNCHANGED heap
              ELSE Fails(v)
       [] Decoding ->
            IF Fits(n)
              THEN \E got \in Peek(Len(ws)) :
                     Read(n, Len(ws)) /\ Gives("true", FromWords(type, got)) /\ UNCHANGED heap
              ELSE Fails(v)
       [] Freeing -> Gives("true", v) /\ UNCHANGED <<streamVars, heap>>

\* Call the filter of a type on object o with frames fs.
Call(type, o, fs) ==
  /\ frames' = Append(fs, Frame("filter", type, o))
  /\ UNCHANGED <<streamVars, ret, val, heap>>

\* mem_alloc: no memory is one of the outcomes when memory is scarce.
Allocates == IF scarce THEN BOOLEAN ELSE {TRUE}
-----------------------------------------------------------------------------
CallAlias ==
  /\ Calls({"alias"})
  /\ IF Field.type \in Scalars THEN Scalar(Field.type, Part)
     ELSE Call(Field.type, Part, frames)

\* The bytes of a string or of opaque data with their padding, and what is
\* read back, of n bytes: those of the k-th item if they are what was written.
Padded(n) == n + Pad(n)
Unknown(n) == [i \in 1..n |-> 0]
Content(n, k) == IF k <= Len(items) /\ Len(items[k]) = n THEN items[k] ELSE Unknown(n)

\* Mutant: the pointer is stored when the bytes have been read.
MutantKept(v) == << >>

\* What the object holds when its bytes could not be read.
Kept(v) == v

\* xdr_string, and xdr_bytes for `bytes'; a string has a terminator.
Pointed(s) == IF Field.rel = "string" THEN <<s>> ELSE s

\* Mutant: one byte or element too many.
MutantPermitted(n) == n <= Field.max + 1

\* if (size > maxsize) return FALSE;
Permitted(n) == n <= Field.max

\* A NULL string is encoded as "".
EncodeCounted ==
  LET s == IF Field.rel = "string" /\ Part # << >> THEN Part[1] ELSE Part
      n == Unit + Padded(Len(s))
  IN IF Permitted(Len(s)) /\ Fits(n)
       THEN Write(<<Word(Len(s)), s>>, n) /\ Gives("true", Part) /\ UNCHANGED heap
       ELSE Fails(Part)

\* A length of UINT_MAX makes `nodesize' of a string wrap to zero.
NoBytes(len) == IF Field.rel = "string" THEN len = UMax ELSE len = 0

DecodeCounted ==
  \/ /\ ~Fits(Unit)
     /\ Fails(Part)
  \/ /\ Fits(Unit)
     /\ \E word \in Peek(1) :
          LET len == word[1]
              n   == Unit + Padded(len)
          IN \/ /\ ~Permitted(len)
                /\ Fails(Part)
             \/ /\ Permitted(len) /\ NoBytes(len)
                /\ Read(Unit, 2)
                /\ Gives("true", Part) /\ UNCHANGED heap
             \/ /\ Permitted(len) /\ ~NoBytes(len)
                /\ \E ok \in Allocates :
                     IF ~ok THEN Fails(Part)
                     ELSE /\ heap' = heap \cup {Owner(frames)}
                          /\ IF Fits(n)
                               THEN Read(n, 2) /\ Gives("true", Pointed(Content(len, 2)))
                               ELSE /\ Gives("false", Kept(Pointed(Unknown(len))))
                                    /\ UNCHANGED streamVars

\* mem_free, when there is something to free.
FreeCounted ==
  /\ heap' = heap \ {Owner(frames)}
  /\ Gives("true", << >>)
  /\ UNCHANGED streamVars

CallCounted ==
  /\ Calls({"string", "bytes"})
  /\ CASE Encoding -> EncodeCounted
       [] Decoding -> DecodeCounted
       [] Freeing  -> FreeCounted

\* xdr_opaque: max bytes in the object itself.
CallOpaque ==
  /\ Calls({"opaque"})
  /\ LET n == Padded(Field.max)
     IN CASE Encoding -> IF Fits(n) THEN Write(<<Part>>, n) /\ Gives("true", Part) /\ UNCHANGED heap
                         ELSE Fails(Part)
          [] Decoding -> IF Fits(n) THEN Read(n, 1) /\ Gives("true", Content(Field.max, 1)) /\ UNCHANGED heap
                         ELSE Fails(Part)
          [] Freeing  -> Gives("true", Part) /\ UNCHANGED <<streamVars, heap>>

\* xdr_pointer: a boolean, then xdr_reference for the object.
CallPointer ==
  /\ Calls({"pointer"})
  /\ LET inner == Append(frames, Frame("pointer", Field.type, << >>))
         word  == Word(IF Part = << >> THEN 0 ELSE 1)
         Behind(o) == frames' = Append(inner, Frame("filter", Field.type, o)) /\ UNCHANGED <<ret, val>>
     IN CASE Encoding ->
               IF ~Fits(Unit) THEN Fails(Part)
               ELSE /\ Write(<<word>>, Unit)
                    /\ IF Part = << >> THEN Gives("true", Part) ELSE Behind(Part[1])
                    /\ UNCHANGED heap
          [] Decoding ->
               IF ~Fits(Unit) THEN Fails(Part)
               ELSE \E more \in Peek(1), ok \in Allocates :
                      /\ Read(Unit, 1)
                      /\ IF more[1] = 0 THEN Gives("true", << >>) /\ UNCHANGED heap
                         ELSE IF ~ok THEN Gives("false", Part) /\ UNCHANGED heap
                         ELSE Behind(Zero(Field.type)) /\ heap' = heap \cup {Owner(frames)}
          [] Freeing ->
               /\ IF Part = << >> THEN Gives("true", Part) ELSE Behind(Part[1])
               /\ UNCHANGED <<streamVars, heap>>

\* The loop over the elements of o starts.
Loop(rel, o) ==
  /\ frames' = Append(frames, Frame(rel, Field.type, o))
  /\ UNCHANGED <<ret, val>>

\* c > maxsize || c > UINT_MAX / elsize
Countable(c) == Permitted(c) /\ c <= UMax \div ElSize

\* xdr_array, up to its loop.
CallArray ==
  /\ Calls({"array"})
  /\ CASE Encoding ->
            IF Countable(Len(Part)) /\ Fits(Unit)
              THEN Write(<<Word(Len(Part))>>, Unit) /\ Loop("array", Part) /\ UNCHANGED heap
              ELSE Fails(Part)
       [] Decoding ->
            \/ /\ ~Fits(Unit)
               /\ Fails(Part)
            \/ /\ Fits(Unit)
               /\ \E word \in Peek(1), ok \in Allocates :
                    LET c == word[1]
                    IN /\ Read(Unit, 1)
                       /\ IF ~Countable(c) \/ (c > 0 /\ ~ok)
                            THEN Gives("false", Part) /\ UNCHANGED heap
                          ELSE IF c = 0 THEN Gives("true", Part) /\ UNCHANGED heap
                          ELSE /\ Loop("array", [i \in 1..c |-> Zero(Field.type)])
                               /\ heap' = heap \cup {Owner(frames)}
       [] Freeing ->
            /\ IF Part = << >> THEN Gives("true", Part) ELSE Loop("array", Part)
            /\ UNCHANGED <<streamVars, heap>>

CallVector ==
  /\ Calls({"vector"})
  /\ Loop("vector", Part)
  /\ UNCHANGED <<streamVars, heap>>

InLoop == frames # << >> /\ Top.kind \in {"array", "vector"}

Element ==
  /\ InLoop /\ ret = "none" /\ Top.at <= Len(Top.obj)
  /\ IF Top.type \in Scalars THEN Scalar(Top.type, Top.obj[Top.at])
     ELSE Call(Top.type, Top.obj[Top.at], frames)

\* The innermost call returns r with object v.
Return(r, v) == frames' = Front(frames) /\ ret' = r /\ val' = v

\* Mutant: an array is freed when all its elements could be.
MutantReleases(kind, stat) == kind \in {"array", "pointer"} /\ stat = "true"

\* xdr_array and xdr_reference end with mem_free, whatever their elements returned.
Releases(kind, stat) == kind \in {"array", "pointer"}

Ends(stat, o) ==
  IF Freeing /\ Releases(Top.kind, stat)
    THEN heap' = heap \ {Owner(Front(frames))} /\ Return(stat, << >>)
    ELSE UNCHANGED heap /\ Return(stat, o)

ElementReturns ==
  /\ InLoop /\ ret # "none"
  /\ LET o == [Top.obj EXCEPT ![Top.at] = val]
     IN IF ret = "true"
          THEN /\ frames' = [frames EXCEPT ![Len(frames)].at = @ + 1, ![Len(frames)].obj = o]
               /\ ret' = "none" /\ val' = << >> /\ UNCHANGED heap
          ELSE Ends("false", o)
  /\ UNCHANGED streamVars

ElementsDone ==
  /\ InLoop /\ ret = "none" /\ Top.at > Len(Top.obj)
  /\ Ends("true", Top.obj)
  /\ UNCHANGED streamVars

PointerReturns ==
  /\ Returned("pointer")
  /\ Ends(ret, <<val>>)
  /\ UNCHANGED streamVars

\* The object with what the field decoded.
WithField == Stored(Top.obj, Field.name, val)

FieldReturns ==
  /\ Returned("filter") /\ ret = "true"
  /\ frames' = [frames EXCEPT ![Len(frames)].at = @ + 1, ![Len(frames)].obj = WithField]
  /\ ret' = "none" /\ val' = << >>
  /\ UNCHANGED <<streamVars, heap>>

FieldFails ==
  /\ Returned("filter") /\ ret = "false"
  /\ Return("false", WithField)
  /\ UNCHANGED <<streamVars, heap>>

FilterEnds ==
  /\ Beginning("filter") /\ ~MoreFields
  /\ Return(IF Done(Top) THEN "true" ELSE "false", Top.obj)
  /\ UNCHANGED <<streamVars, heap>>

Filter ==
  /\ \/ CallAlias \/ CallCounted \/ CallOpaque \/ CallPointer
     \/ CallArray \/ CallVector \/ Element \/ ElementReturns \/ ElementsDone
     \/ PointerReturns \/ FieldReturns \/ FieldFails \/ FilterEnds
  /\ UNCHANGED <<x_op, foreign, main, src, dst, size, scarce, encoded, decoded>>
-----------------------------------------------------------------------------
Constants == UNCHANGED <<foreign, main, src, size, scarce>>

\* The caller uses the filter again, on object o.
Again(op, o) == /\ x_op' = op
                /\ frames' = <<Frame("filter", main, o)>>
                /\ ret' = "none" /\ val' = << >>

\* xdr_copy: assertb(i), assertb(n>0 && n<sizeof(buf)), and a stream over
\* the n bytes.
Encoded ==
  /\ Encoding /\ frames = << >>
  /\ LET n == size - x_handy
     IN IF ret = "true" /\ n > 0 /\ n < size
          THEN /\ encoded' = "true" /\ x_handy' = n
               /\ Again("decode", dst)
          ELSE /\ encoded' = "false"
               /\ Again("free", dst)
               /\ UNCHANGED x_handy
  /\ UNCHANGED <<items, heap, dst, decoded>> /\ Constants

\* xdr_copy: assertb(i), assertb(m==n); xdr_pack takes what is left as it is.
Decoded ==
  /\ Decoding /\ frames = << >>
  /\ decoded' = IF foreign \/ x_handy = 0 THEN ret ELSE "false"
  /\ dst' = val
  /\ Again("free", val)
  /\ UNCHANGED <<streamVars, heap, encoded>> /\ Constants

\* The caller's xdr_free is done.
Freed ==
  /\ Freeing /\ frames = << >>
  /\ x_op' = "done" /\ dst' = val
  /\ UNCHANGED <<streamVars, callVars, heap, encoded, decoded>> /\ Constants

\* The caller is done; a call that could not go on would be a deadlock.
Finished == x_op = "done" /\ UNCHANGED vars

Next == Filter \/ Encoded \/ Decoded \/ Freed \/ Finished

Spec == Init /\ [][Next]_vars
-----------------------------------------------------------------------------
(***************************************************************************)
(* xdr_copy copies: what comes out of the buffer is what went in, for      *)
(* every base type, and it takes all of it; only memory can be missing.    *)
(***************************************************************************)
CopyIsEqual ==
  encoded = "true" /\ decoded # "none" =>
    /\ ~scarce => decoded = "true"
    /\ decoded = "true" /\ Freeing => dst = src

(***************************************************************************)
(* "Free a data structure using XDR" (xdr.c:69): xdr_free releases every   *)
(* block, of an object that was decoded only in part too.                  *)
(***************************************************************************)
NothingLeaked == x_op = "done" => heap = {}
=============================================================================
