# Verification of bkxdr

bkxdr is an XDR library (RFC 1014 data representation, derived from Sun RPC) with streams
over memory, stdio, a record-marked connection and XML, and `rpcgen`, the compiler that
generates the filters of a user's types. This directory holds TLA+ models of its code, TLC
configurations that check them, and TLAPS proofs about them. The models are written from the
C source; paths below are relative to the repository.

## 1. Inventory

| component | state it keeps | operations | hard behaviour |
|---|---|---|---|
| record-marking stream, `xdr_rec.c` | one `RECSTREAM`: output buffer with the header of the current fragment and `frag_sent`; input buffer with its window, `fbtbc`, `last_frag` | `x_putlong/int32`, `x_putbytes`, `x_inline`, `x_getpostn`, `x_setpostn`, `endofrecord`, `destroy`; `x_getlong/int32`, `x_getbytes`, `skiprecord`, `eof` | the connection cuts the stream anywhere; writes and reads fail half-way and are retried; buffers exactly full; positions kept over flushes |
| memory stream, `xdr_mem.c` | cursor `x_private`, bytes left `x_handy` | get/put, `setpos`, `inline` | cursor arithmetic at the end of the buffer |
| stdio and size streams, `xdr_stdio.c`, `xdr_sizeof.c` | a `FILE`; a byte count | the same vector | none of their own |
| filters, `xdr.c`, `xdr_array.c`, `xdr_ref.c`, `xdr_intXX_t.c`, `xdr_float.c` | none; memory they allocate when decoding and release when freeing | one procedure per type for ENCODE, DECODE, FREE | widths and sign extension; partly decoded objects |
| message framing, `xdr_stream.c` | none beyond the socket | `send`, `recv`, `xdr_copy` | short reads and writes on a socket with a timeout |
| XML stream, `xdr_xml.c`; `bkxml.c` | a tree of nodes, `root`, `current`, `depth`; the expat parser | expat handlers (start, end, character data), `x_label`, `x_type`, a callback for every finished message | input in arbitrary pieces; a callback that walks and extends the tree being built; freed messages |
| label stack, `xdr_label.c`, and the filters `rpc_cout.c` generates | `x_label`, a list on the C stack | push, pop around every field | failure in the middle of nested filters |
| pack helper and base64, `xdr_bk.c`, `base64.c` | none | `xdr_pack`; encode, decode | buffer sizes, padding |
| rpcgen driver, `rpc_main.c`, `rpc_util.c` | current input and output, the list `outfiles` | one pass per output, `reinitialize`, `crash` | dying with files open or half written |
| rpcgen scanner, parser, `rpc_scan.c`, `rpc_parse.c` | current line, one pushed-back token, the list of definitions | `get_token`, `peek`, `get_definition` | push-back over lines and passes; locals shared between declarations |
| rpcgen emitters, `rpc_hout.c`, `rpc_cout.c`, `rpc_clntout.c`, `rpc_tblout.c`, `rpc_svcout.c`, `rpc_sample.c` | the list `defined`; `xdrfuncs` | print C | names declared by one output and used by another |
| generated server, `rpc_svcout.c` | `_rpcsvcstate`, the alarm, `svc_fdset`, what the portmapper knows | registration, dispatch, `closedown` | a signal between any two steps; calls that fail between registrations |

**How they interact.** A filter calls the operations of the stream it is given through
`struct xdr_ops` and never knows which stream it is; a composite filter calls other filters.
XML adds two optional operations: `x_label`, called by `xdr_label_push`/`xdr_label_pop`
around every field of a generated filter, and `x_type`, which replaces the encoding of the
base types. The XML writer prints into another stream (memory). `xdr_rec.c` reaches its
connection through two callbacks, `readit` and `writeit`. The XML reader is driven the other
way round: expat calls the handlers, which call the user's callback, which decodes from the
tree the handlers are building. `rpcgen` is one process that runs its passes in sequence over
global state.

**What makes each correct.**
* Record stream: every byte encoded arrives once, in order, in the record it was put in; the
  reader never reads across the end of a record; no store outside the buffer or on a header;
  a call returns when the peer is gone.
* XML stream: what the callback sees is the message that was sent, however the input was cut;
  nothing of a message survives its callback; the tree stays linked.
* Labels and generated filters: the label stack is back where it was when a filter returns,
  also when it fails; what was encoded is decoded.
* Framing: after any failure the reader is at the start of a message or reports that it is not.
* Filters: decode is the inverse of encode at every width; freeing releases what decoding made.
* rpcgen: the definitions are what was written; a run that fails leaves no output behind and
  touches no file that was there; a run that succeeds leaves exactly the files asked for, with
  everything in them, and they fit together.
* Generated server: every request is settled once; it does not exit between a request and its
  answer; it serves what it has registered; it does not stay for ever when nobody needs it.

## 2. Plan

Order, the most important behaviour first. Each step is a few modules and the run that checks
them: runs are few and broad, one per component and mode.

1. **Record stream** (done). `XdrRecWire`, `XdrRecOut`, `XdrRecIn`, their composition `XdrRec`,
   the abstract `RecordPipe`; proofs of both halves and of the refinement, in `XdrRec_proofs`.
2. **XML tree and stream** (done). `XmlDocument`, what a stream of XML messages promises;
   `XdrXmlTree`, the heap of nodes; `XdrXml`, the stream and its user, which implements it;
   the lemmas about chains and trees in `XdrXmlTree_proofs`, and `XdrXml_proofs`.
3. **Labels and generated filters** (done but for binary data). `XdrFilter`: the
   code `rpc_cout.c` generates as a stack of calls over both directions of the XML stream.
   `XdrFilter_proofs`, that labels, calls and cursor stay in step.
4. **Filters** (done but for base64). `XdrScalar`, `XdrCopy`: every base type and ownership of decoded
   memory, over the memory stream; `XdrCopy_proofs`, that what is decoded is freed. Left: proofs about
   `XdrScalar`'s conversions and about what comes back.
5. **Framing** (done). `MessageQueue`, a queue of messages; `XdrStream`, which implements it over a
   connection that fails; `XdrStream_proofs`, the refinement for every set of messages. Left: the XML
   writer on a memory stream that is full, which it does not notice; base64.
6. **Generated server** (done). `RpcServer`: main, dispatcher and `closedown` against the alarm.
   `RpcServer_proofs` proves its safety properties.
7. **rpcgen** (done). `RpcgenScan`, `RpcgenParse` and its reference `RpcgenGrammar`, `RpcgenEmit`, and
   `Rpcgen`, which composes them; `Rpcgen_proofs`, about the files. Left: proofs about the parser's push-back.

## 3. The record-marking stream

`XdrRecWire` is the connection and the format on it. A byte is abstracted to what it stands
for: the k-th byte the caller encoded, or the i-th byte of a header with its two fields.
`Unit` is `BYTES_PER_XDR_UNIT`; the runs use 2, which has every remainder a refill can leave
except a third one, and the proofs hold for every value.

`XdrRecOut` is the ENCODE half and its caller. Offsets are addresses less `out_base`.
`PutLong`, `PutInline`, `EndOfRecord`, `GetPos`, `SetPos` and `Destroy` are the operations of
that name. `xdr_opaque` makes two calls of `x_putbytes` (the bytes, then padding):
`PutOpaque` starts them and `PutBytesStep` is one iteration of the loop of `xdrrec_putbytes`,
which may call `writeit`. `FlushSucceeds` and `FlushFails` are the two outcomes of
`flush_out`; a failing `writeit` has accepted any proper prefix. A caller uses space from
`x_inline` in whole units, as `rpc/xdr.h` requires. `nput` and `ends` are history: what the
caller has encoded and where its records end.

`marks` are the positions the caller has from `x_getpostn`, up to `MaxMarks` of any age;
`SetPosTo` is `x_setpostn` to one of them, back or forth. `xdrrec_setpos` sees offsets only: it
accepts whatever lies between `frag_header` and `out_boundry`. A caller that goes back and ends
the record in front of a position it kept has cut that position off (`Abandoned`), and the
code may take it for one in the record that followed. `SetPosIsExact` excepts exactly those;
`strayed` is history, that a move has gone elsewhere than where its position was taken, and
what `nput` and `ends` say of the caller's bytes means nothing after it. A caller keeps no
position over a failed `writeit`, which leaves `lseek` and the buffer out of step.

`XdrRecIn` is the DECODE half. Its calls loop around `readit`, so a call in progress is state:
`rop` is the entry point, `inside` the routine that is running. `GetLong` is the fast case or
falls back to `GetBytes`; `GetBytesLoop`, `SkipLoop` are the heads of the loops of
`xdrrec_getbytes` and of `xdrrec_skiprecord`/`xdrrec_eof`; `Fill`, `FillFails`, `FillAtEnd`
are `fill_input_buf` with the three things `readit` can do; `Take` is the copying branch of
`get_input_bytes`/`skip_input_bytes`; `HeaderDone` is the rest of `set_input_fragment`. A word
that is not a header decodes to any value of a small set (`AnyLength`).

`XdrRec` joins the two by the connection: any step of one may come between two steps of the
other. The writer's caller stops using its stream once `writeit` failed.
`RecordPipe` is what the two promise together: bytes in order, cut into records, none skipped
except by passing over the rest of a record. `ImplementsRecordPipe` is the refinement: put is
`nput`, ends is `ends`, and rec, pos, got are histories of what the reader's calls returned.

### Runs

| run | what it asks | bounds |
|---|---|---|
| `rec_out` | the writer alone, positions kept and gone to back and forth, at most one short write and a caller that goes on after it; properties of what arrives speak of a writer that has not failed | Unit 2, an 8-byte buffer, 10 bytes, 2 records, 2 positions: every fill level of the buffer, opaque data that just crosses its end, two records and the open fragment in one buffer, an older position in front of a newer one and the record ended between them |
| `rec` | writer and reader, chunks of any size, all interleavings; refinement | 8 bytes in 2 records, a 4-byte input buffer, 4 calls |
| `rec_live` | every reader call returns, with a seekable input (repositioning) and a caller that goes on after a timeout | 4 bytes, 3 calls, 1 timeout |
| `rec_eof0`, `rec_timeout` | what a comment says and the code does not do; TLC finds the counterexample | 2 to 6 bytes, 2 to 4 calls |

The reader's buffer of two units is the smallest one in which a refill after a partial unit
starts behind the base; the writer's of four has room for a batched record and another.
Deadlock is not checked: the callers stop when the bounds on their calls are used up.

Fairness (`FairSpec`): a call of the reader in progress goes on (`WF` of its internal steps and
of `readit` when bytes or the end of the stream are there), an `xdr_opaque` call goes on, and a
writer that does nothing else closes the connection. Nothing obliges a caller to make a call,
and no fairness is assumed of timeouts.

### What the runs found

* `xdr_rec.c:582` tests for -1 only: a `readit` that returns 0 at the end, as `read` does, makes
  the reader loop for ever (`rec_eof0`).
* `xdr_rec.c:487`: after a timeout inside a header or fragment, `xdrrec_skiprecord` succeeds inside
  a record (`rec_timeout`).

* `xdr_rec.c:355`: with a unit of 4 and positions 8 and 16 kept, `x_setpostn(8)`,
  `xdrrec_endofrecord(FALSE)`, `x_setpostn(16)` returns TRUE inside the next record. It is in the
  model, and what `SetPosIsExact` excepts; the code promises nothing of such a position.

Three more are in the models but not in a run of their own. `xdr_rec.c:370`: `x_setpostn` moves
`fbtbc` the wrong way when a reader moves back, so that it misses the end of its fragment. `xdr_rec.c:537` clears `frag_sent` before
the flush that may fail, so `FragSentExact` is checked only for a connection that does not fail.
`xdr_rec.c:367` accepts positions whose bytes the buffer no longer holds, so `BufferIsStream` is
checked only for a reader that does not reposition.

### Proofs

All theorems hold for every `Unit`, buffer size, mix of sizes, chunking of the connection, interleaving and
number of failures, from the assumptions the modules name (`UnitAssumption`, `OutAssumption`, `InAssumption`)
and, where a theorem says so, on what the callers do. The theorems about the two ends together (`PipeInvariance` and what
follows from it) are for ends that cannot reposition, `~Seekable` and `~SeekableIn`: `lseek` works on no connection.

**The wire** (the first lemmas of `XdrRec_proofs`). `FragmentEnds`, `Records`, `RecordsEndAt` read a stream by its header bytes, not by
recursion, so what appending a fragment changes is a finite argument. The lemmas are about counting in a sequence,
about its prefixes, and about what a fragment put behind whole ones does to each of these.

**The writer's fingers** (its second part). `FingerInFragment`, `NoEmptyInnerFragment` and `SetPosIsExact` are not
inductive. `OutInv` adds: a call of `xdr_opaque` in progress ends on a whole unit
(`PutsEndAligned`), the current fragment has room for a unit whenever the writer is between
calls (`FragmentHasRoom`), every header byte in the buffer and on the wire is part of a header
with a non-zero length unless it is a last one (`BufferIsGood`, `WireIsGood`), the open
fragment has no more than the caller encoded (`PutsFill`), and each kept position that still lies
behind the header of the current fragment is a whole number of units and, unless it was cut off,
that of the byte and record it was taken at (`MarksAreExact`). The last is
inductive because the end of a record leaves each position either in front of the new header, where
it is refused, or cut off. The alignment is what makes
the boundary test of `xdrrec_endofrecord` sufficient: with whole units only, a finger that is
less than one unit from the end is exactly at the end.

**What the writer sends** (its third part). `StreamInv` has two parts. `BufferKept`, which no failure breaks: the buffer is whole
fragments, numbered from the first byte that is not on the wire, and then the open one; it gives `BufferHoldsTail`.
`StreamIsGood`, while `writeit` has not failed: wire and buffer together are whole fragments that end records where the caller
did, and `frag_sent` is whether the wire has part of the current record; it gives `StreamIsRecords`, `FragSentExact` and
`PartlySentIsFlushed`. A caller that goes forth again needs the bytes between: `MarksHold` says that the buffer
holds, up to each position it may go to, what was encoded in front of it. `KeptInv` is both, for a caller that has not strayed.

**The reader** (the rest of it). `BufferInv` is about the memory: the window is in the buffer, a whole number of
units away from its place in the stream, and (unless the input is seekable) a copy of that part of the wire. `CallInv`
says how the variables of a call in progress fit together at each place it can be in. With the writer's
invariants this is `BothInv`, inductive for the composition. `PipeInv` adds that the connection carries framed, numbered
records that are cut off at most once (`WireReads`), and that the reader is where it thinks it is in them (`Located`):
`InPlace` relates the bytes passed over, `fbtbc`, `last_frag` and the history `rec` to the fragments of the wire. It gives
`FbtbcReachesFragmentEnd`, `SkipRecordAligns`, `FailsOnlyAtRecordEnd` and the refinement `RecordsArePiped`: each
step of the two is a step of `RecordPipe` or none.

Hypotheses of theorems, each for a reason in the code: `BufferStaysStream` is about a reader whose input is not seekable
(`xdr_rec.c:367` accepts positions the buffer no longer holds); the four results on top of `PipeInv` ask besides
that `readit` does not time out in the middle (`MaxErrors = 0`; after `xdr_rec.c:487` they are false, as `rec_timeout` shows);
the refinement asks also that the writer does not move back, because a pipe of bytes has no such step. The runs check
these properties under the same conditions.

Only model-checked: that calls return (`CallsReturn`), which is liveness, and both runs that refute a comment.

## 4. XML

### Modules

`XdrXmlTree` is the heap of `xdrxml_node_t`: a function from the nodes allocated now to their
fields, with `child`, `last` and `next` as in the C structure, so that a pointer that dangles or
a node that leaks shows. It has the expat handlers `StartElement`, `CharData`, `EndElement`, and
`LabelPush`/`LabelPop`, the decoding half of `xdrxml_label`. Text is trimmed as the code does it: at
the front while the node has no value (`Leading`), at the back when the element ends (`Trimmed`).

`XdrXml` drives it. expat is external: it calls the handlers for a well-formed document cut into
pieces of any size, and may fail anywhere (`ParseError`). `streaming` chooses between the two ways
of use, fixed at the start: with a callback (`EndMessage`, the callback's pushes and pops, and
`CallbackReturns`, which frees the message) or a buffer decoded at the end (`Decode`). The callback is
any filter that pops what it pushes. `Destroy` is `xdrxml_destroy`. The histories `raw`, `seen`, `doc`
hold what was parsed and what was shown.

`XmlDocument` is what this promises: open elements with their text, and messages delivered once, in
order, as their end tags arrive. The refinement maps the open elements to the path from the root
to `current`, with the finished children below it.

`XdrFilter` runs the filters `rpc_cout.c` generates. A `.x` file is a constant (`Defs`): structures and
unions whose fields are `alias`, `pointer`, `array` or `vector`. A call in progress is a frame:
a filter at its field (`PushField`, then one of the calls, then `FieldReturns` or `FieldFails`,
finally `FilterEnds`), the call behind a pointer, the loop of `XDR_TYPE_ARRAY` in `xdrxml_type`, or that of
`xdr_vector`. `ret` and `val` carry a result to the frame above. The encoder writes tags and text
to `out`; `ParseOwn` feeds them to the handlers of `XdrXmlTree` as expat would, or `ParseForeign` builds
a document nobody encoded, and `Decode` calls the same filter on the tree. `MCXdrFilter` has the
`.x` files and the objects.

Abstracted: an integer is a natural number and its text the decimal digits; indentation is one white-space
character; a string has no markup and no white space at its ends (neither would come back);
`elt`'s index attribute, and every attribute, is dropped as the parser drops it; 64-bit integers are
the scalar that XML refuses (`xdrxml_type` has no case for `XDR_TYPE_HYPER` and returns 0).
The memory stream the writer prints into has room for everything.

### Runs

| run | what it asks | bounds |
|---|---|---|
| `xml` | the tree stays linked, memory is freed, the cursor is where parser and filter stand; refinement of `XmlDocument`; both ways of use | 4 nodes at a time, 2 messages, labels two deep, the characters and pieces in `XdrXml.cfg` |
| `filter` | round trip of every object; every small foreign document; labels and cursor when a filter fails | lists of up to 3 persons, records with arrays of 2, fixed-length arrays of 1 and each arm of a union; foreign documents of 4 elements and 1 character |
| `filter_union` | the label stack when a union has no arm; violated | 4 elements |

In `xml` the document's tags are a subset of the names the filter looks for, so that a name can be
present, absent or repeated. Four nodes are a root, a message, its child, and one appended by the
filter. In `filter` the four elements of a foreign document are enough for a missing, a repeated, a
swapped and a nested element at once. Deadlock is not checked: a stream may be left at any point.

### What the runs found

* `rpc_cout.c:197`: the trailer of a generated filter pops a label although the filter of a union without
  the arm holds none; the label of the caller's field is lost and on XML the cursor climbs out of
  the element (`filter_union`).

`xdr_array.c:176`: `xdr_vector` puts nothing between its elements on an XML stream; `{3, 4}` comes back
as `{34, 34}`. `RoundTrip` is therefore checked for fixed-length arrays of one element.

### Proofs

`XdrXml_proofs` proves `TreeLinked`, `NothingLeft`, `CursorDepth` and `ImplementsDocument` of `XdrXml` for documents, heaps, labels and callbacks
of any size, cut into any pieces and failing anywhere. The lists of the properties are recursive functions over the heap
(`Children`, `PathTo`), of which a prover only knows that they are chosen to satisfy an equation. `XdrXmlTree_proofs` has what is needed:
where every chain ends, such a function exists (`ChainRecursion`), its equation determines it (`ChainUnique`), and
what is inherited along the chain holds everywhere (`ChainInduction`). None of them is induction over data; they use
that a finite set has a least member.

The invariant says in pointers what the properties say in lists. `Tree`: no pointer dangles (`Shape`); `child`, `next`, `last` and
`parent` agree, so that `last` is the one child without a `next` (`Family`); every node is reached from the root (`Reached`); and
neither `next` nor `parent` runs in a circle (`Ends`). `TreeLinked` follows, and the two lemmas the handlers need: appending
a node behind `last` keeps a tree, and freeing the root's children leaves the root. `PhaseInv` is what each point
of a callback or a decoding leaves true of the cursor and the open labels, `CursorInv` the depth itself:
a label that fails has not moved the cursor, one that succeeds is one node deeper. `NothingLeft` needs both: only a
cursor that is back at the message, and a tree that is whole, let `CallbackReturns` free all of it.

`StreamImplementsDocument` is the refinement. Its invariant `DocInv` adds to the tree what the mapping reads off it: while the parser runs, each
open element is the last child of the one around it (`Rightmost`), and the node of each holds the character data
that arrived for it without the white space in front (`Kept`). Each step then maps to a step of `XmlDocument` or to a stutter:

* The elements shown are values built recursively over the tree (`Value`). Among any nodes of a tree there is a lowest one (`LowestExists`), so
  the equation of `Value` has a solution (`SolutionExists`) and only one (`SolutionsAgree`), and a value stays as it is
  while its node and those below it do (`ValuesStay`). The finished children the mapping shows are off the path to `current` (`ShownIsOff`), and
  a handler writes on the path only, so they do not change.
* Text is cut anywhere. Stripped at the front piece by piece it is what it is stripped whole (`LeadingJoins`), and with the back stripped
  at the end tag it is the text trimmed whole (`LeadingTrimmed`).
* A callback may append nodes to the message it is shown; what it was shown is what `seen` got before it began. The root has one message at a
  time, so the message is the element that just ended.

`DocInv` was checked by TLC over the bounds of `xml` before it was proved (111743 states).

`XdrFilter_proofs` proves `LabelsAreFields` for every `.x` file (`FilterAssumption` says what a definition is), object and document,
with filters that fail anywhere. The hypothesis `EveryArm`, that every union has a default arm, is there because the property is false
without it: that is what `filter_union` found. The property says of each place on the stack of calls which label belongs
to it (`InOrder`, `Held`), so a step is a place added behind the others (`InOrderPush`) or taken away (`InOrderPop`). Alone it is not
inductive: the trailer pops a label for every result that is `FALSE`. `LabelInv` adds that a filter that
waits for a call holds a label for it, at a field it has (`IsStack`), and that a result is only there for such a filter or
for a loop (`Kept`). `FilterEnds`, where a filter reaches its end without a label, is the one place that needs `EveryArm`.

The same module proves `CursorIsLabels`, under the same hypothesis, for every document: own ones and foreign ones, in which
elements are missing, repeated or elsewhere. The property is about `x_op = "decode"`, but what it needs begins with the encoder, and the
inductive invariant `FilterInv` follows the document through its three phases.

* `EncodeInv`: what has been written is nested like the calls. A document is looked at only by its tags: `Levels` gives the number of
  elements open before each of them, and the elements open at the end are one for each call in progress that has written its tag.
* `ParseInv`: what is left to parse closes exactly the elements the parser has open, and the last tag of all closes the root (`Unparsed`); so the
  cursor is never NULL inside the document (`Below` is the number of open elements), `xdrxml_end_element` never follows a NULL parent, and
  the heap is always one tree. A foreign document is nested because expat accepts nothing else.
* `CursorInv`: each call in progress began at some element, and the next one began at that element or at a child of it
  (`Leg`): a label moves down to a child of its name, an array to one of its elements, a pointer not at all. A walk along the calls
  that is such a chain (`Walk`, `LeadTo`) ends at the cursor. An array's element is strictly below where the array began, so a step from an array to
  its elements is never also one that a label made, and the names on the way (`NamesOn`) without those steps are the labels.

`FilterInv` was checked by TLC over the run's bounds before it was proved (102943 states), with the walk computed; the proof
only needs that one exists. What the proofs need to know about paths (that a child's is its parent's with the child behind it, and that
an appended node changes no other) are lemmas of `XdrXmlTree_proofs`, which this module and `XdrXml_proofs` share.

`RoundTrip` and `DecodesDocument` stay with TLC, since filters recurse over types and objects.

## 5. Filters

### Modules

`XdrScalar` is the base types: how many bits each has in memory, the words it is encoded as
(`ToWords`) and how it is made of them (`FromWords`). A value is the natural number its bits make,
so that sign extension is arithmetic; the widths scale with `IntBits`, the width of an `int`
(32 in the build, 4 in the runs: an `int` then has 16 values, and a half of a 64-bit integer too).

`XdrCopy` runs filters, generated and the library's own, over a memory stream. Phases
follow the callers: `xdr_copy` encodes (`Encoded`), decodes (`Decoded`), and its caller frees the
result (`Freed`); or a buffer of unknown contents is decoded (`xdr_pack`, `xdr_stream_recv`) and freed.
Frames are as in `XdrFilter`; on this stream labels have no effect and are left out. The stream is
`x_handy` and the items between cursor and end; an item is a word or a string of bytes with its padding,
and an own buffer is read at the places it was written at. A buffer of unknown contents has no
items: each word read from it is any of `ForeignWords`, among them an absent discriminant, a length
that is too long and UINT_MAX. An own buffer that was read at other places than it was written at would give any words, too
(`Peek`, `Content`): that it never is is what `CopyIsEqual` checks, not an assumption.

A decoded object is built field by field. One that was just cleared (`bzero`, `memset`) has no fields, and a field that was
not stored is zero (`Part`), so an object says how far its filter came. A pointer to a scalar is written as a pointer
to a structure of one field. `mem_alloc` fails anywhere when `scarce`.

A block of memory is named by the place of the pointer that owns it, so `heap` is a set of places and
`Pointers(type, o)` the set of the places where an object has a pointer: `HeapIsObject` says they are the same.
`Pointers` and `Length` follow a type down to its last field; they, and the properties that need them, are in
`XdrCopyObjects`, which the run checks and the proofs do without.
A stream is given up when a filter fails, so a failing call leaves `x_handy` alone whatever it read.
Objects have no NULL strings: those are encoded as empty ones and do not come back as NULL.

### Runs

| run | what it asks | bounds |
|---|---|---|
| `copy` | what is encoded is decoded, and everything decoded is freed, whatever fails | all values of a word, the boundaries of each half of two words; records with arrays of 2, lists of 2 persons, each arm of three unions and none; buffers that end at the start, in the middle and after the object; 26 foreign bytes, so that they end inside a word; malloc always there, or failing at will |

A run ends in a state that only stutters (`Finished`), so deadlock is checked: a filter that could not
go on would be one.

### What the runs found

`xdr.c:269`: on a 64-bit `long` the low half of a hyper is sign-extended before it is or-ed in; 0x80000000
comes back as 0xffffffff80000000. `CopyIsEqual` is checked for objects whose hypers do not have that bit set
(`Comes` in `MCXdrCopy`). `xdr_int64_t` uses 32-bit variables and is right for all of them.

### Proofs

`XdrCopy_proofs` proves `NothingLeaked` (`FreeReleasesAll`) for every `.x` file, object and buffer, with malloc failing and
filters failing anywhere. `CopyAssumption` says what a `.x` file is: types are defined, the members of a structure have different names (C
would refuse others), a discriminant is a scalar. On the way it proves `HeapIsObject` of the decoded object (`HeapStaysObject`),
with its pointers described as ways through the object (`Points`: a path whose steps each open a field or an element, and
whose last one owns a block) in the place of the recursive `Pointers`, of which nothing could be proved.

`NothingLeaked` is about the last state only, and while a filter runs the object is in pieces, one in each call. The
invariant `CopyInv` says which blocks there are between any two steps:

* While decoding (`DecOK`), exactly those that the calls' pieces point to, and those being filled, whose pointer is not stored yet:
  the array of each loop and the target of each `xdr_reference` (`Held`, `Linked`). Storing what a call returns moves its blocks
  from the callee's piece to the caller's, and the names stay, since a block is named by the fields and elements that lead to it.
* While freeing (`FreeOK`), exactly those that each call has still in front of it, and those that it will release when its loop ends.

This is not enough, since freeing stops at the first filter that fails: what is behind it is never visited. A filter fails under
`XDR_FREE` only at a union without a valid discriminant (`NoArm`), so nothing with a pointer may be behind such a union, in any of the
calls. What decoding leaves is `Sound`: behind the first place that it did not reach (`GapAt`: a field not stored, a union without an
arm, or an object with such a place) there are no pointers (`Orderly`), at every level. While freeing, a call that has met the gap has nothing
in front of it, and the calls around it neither (`Clear`); so the blocks the failing filters leave behind are none, and `xdr_array` and
`xdr_reference`, which release their own whatever the status, do the rest.

TLC checked `CopyInv`, with ways computed as `Pointers` computes them, over the 119675 states of `copy` before it was proved.

Model-checked only: `CopyIsEqual` and `EncodesWhatFits` compare whole objects, whose shape is given by the `.x` file, with what was
written; that is induction over data.

## 6. Framing

### Modules

`XdrStream` is `xdr_stream.c` between a sender and a receiver. A message is the sequence of bytes its filter
encodes. `Send` is `xdr_stream_send`, which writes length and message with one call; `CannotEncode` and
`ShortWrite` are its failures. `xdr_stream_recv` reads twice, so it is in one of two places: `RecvHeader` and
`RecvBody` are its reads, `RecvHeaderFails` and `RecvBodyFails` reads that end early (a time-out, an error or the
end of the stream), and whatever they took is lost, as in the code, where `buf` and `n` are locals. `RecvEnd` is a
read of nothing. The filter of the receiver may refuse a message (`Understood`).

`MessageQueue` is the promise: messages are put at one end and taken at the other, once, in order and whole, and
one that the receiver does not understand is taken and lost. The mapping reads the frames that are on the wire
and the one whose length has been read already (`InFrames`, `Unread`). When a call has failed in the middle of a
message (`broken`), nothing more is promised than that what is received is a message: the two sides have no
way to find the next length. The refinement shows that no other failure has this effect.

### Runs

| run | what it asks | bounds |
|---|---|---|
| `stream` | the refinement, and that every message is taken | bytes of 4 values, a buffer of 8: messages of 1 and 4 bytes, of exactly what fits, of one more and of none; 3 messages, 2 failures, 2 more calls after the connection has broken |

Four values of a byte make a length of two different bytes, so their order counts. Fairness: the receiver keeps calling
(`WF` of `Recv`). Nothing is assumed of the sender. Deadlock is not checked: the calls on a broken connection are bounded.

### Proofs

`XdrStream_proofs` proves the refinement (`MessagesAreQueued`) for every set of messages, values of a byte, buffer length, number of
calls and failures. `StreamAssumption` is what the code needs: the length fits in two bytes (`BUFLEN` below `Base * Base`), no message
is the beginning of another, and a receiver's filter takes at least a byte (`xdr_void` would take any message for its own).

The invariant `StreamInv` says that while the stream is not broken, what is unread is `Framed`: there is a set of positions,
among them the first and the end, each of which but the end has a frame that leads to another one. `InFrames` is a recursive
function of the bytes. That it reads a framed sequence frame by frame is shown as for the lists of
section 4 (`ChainRecursion`, `ChainInduction`), since positions only rise and the chain of them ends (`RisingEnds`): `FrameAppended` (a frame at the end adds its message to the end of what is read, however
many frames are in front of it) and `FrameTaken` (without its first frame it reads the rest). `Send` is then `Put`, `RecvBody` is `Take`, and
`RecvHeader` is no step of the queue because `Unread` puts the length back in front (`HeaderComesFirst`).
It also follows that `InRange` never refuses a length on an unbroken stream.

`EveryMessageArrives` is liveness and only model-checked.

## 7. rpcgen

### Modules

`RpcgenScan` is `get_token` with its push-back. The input is what cpp delivers in a pass: tokens and layout (starts of
lines, lines of cpp, directives, comments, illegal characters). One step goes past one piece of layout, with its effect:
a directive is printed into the output of the pass where it stands. A token without a string of its own leaves
the caller's `tok.str` alone, which `def_program` relies on for the number of a procedure.

`RpcgenParse` is the recursive descent of `rpc_parse.c`, one token per step. `pc` names the scan the parser is in; `work`
holds the locals, which are shared from one declaration to the next, so that what one leaves behind can be seen in the next.
`RpcgenGrammar` is the reference: the set of spellings of every definition in the RPC language as this parser
accepts it, `Spellings(def)`, where `def` is the record the parser builds. It models no code.

`RpcgenEmit` is what the six emitters print: an item for each definition or part of one, with the names it
declares and the names it uses (types, tags, values, XDR routines, stubs, services, dispatchers, tables), and
the walks through typedefs they share (`isvectordef`, `fixtype`). `Rpcgen` is the program: `parseargs` and
`usage`; the passes of `main`; `open_input` with its child, `open_output`, `record_open`, `crash`; and what
every pass does with a definition (`TakeDefinition`) and at the end of its input (`AtLast`, `Finish`). The disk is a
function from the names that exist to who wrote them and what.

Abstracted: a name is a stem and an extension; a document is a sequence of definitions and lines, some of
them inside `#ifdef` for one pass; text between the names is left out, and so is the prologue that every output has.

### Runs

| run | what it asks | bounds |
|---|---|---|
| `rpcgen` | the parser builds what was written and refuses nothing legal; a crash leaves nothing; nothing is overwritten; outputs are complete; their names resolve; the program is never stuck | 8931 initial states: every option that makes an output, alone and in combination, with eleven documents; a call that fails anywhere; all subsets of five files that may be there before; 19 commands that are refused or have too many options, and seven bad documents; all spellings of twelve definitions, each with one token left out, put in or exchanged (19 tokens) |

The parser is run on one definition at a time in all its variants, and the passes on short
documents: a definition leaves nothing behind in the parser but the token of push-back, and in `defined` only itself.
Edits of one token reach every error of the parser and every place a token is pushed back. Between them the documents have
every kind of definition, member and relation. Deadlock is checked; a run of rpcgen ends in a state that only stutters (`Ended`).

`OutputsComplete` speaks of runs whose cpp has delivered everything. `NamesResolve` also asks that the
command makes all outputs and that the document is the same for all passes; it makes one exception, `struct rpcgen_table`,
which with `-T` is declared behind its use (below).

### What the model shows besides

These are behaviours of the code that the properties leave room for, at the lines named.

* `rpc_main.c:460`: the check of cpp's exit status is compiled out, against the comment above it. When cpp dies, what it
  delivered is taken for the input, and rpcgen exits with 0 (`blind`).
* `rpc_main.c:367`, `:422`: a child that cannot run cpp, or has 16 to 18 `-D` options, calls `crash()` itself: it removes the outputs
  of the earlier passes, and the parent goes on with an empty input and exits with 0.
* `rpc_main.c:414`: when pipe or fork fails, rpcgen exits without `crash()` and leaves the outputs of earlier passes.
* `rpc_util.c:310`: an output is created before `record_open` finds `outfiles` full, and stays. `rpcgen -a -T` writes eight
  outputs and `NFILES` is 7: it always ends this way, with the Makefile left.
* `rpcgen -a` over an existing template removes the outputs it has just generated: `checkfiles` runs when the pass for the template
  begins, and `crash()` unlinks all of `outfiles`.
* `rpc_main.c:836`, `:885`, `:914`: outputs without a program are removed even when they hold directives.
* `rpc_hout.c:304`, `rpc_main.c:707`: with `-T` and a program, the header declares `extern struct rpcgen_table X_1_table[]` in the program's
  part and `struct rpcgen_table` only at its end: an array of an incomplete type, which C does not allow. Its size is declared
  without a type (`extern X_1_nproc;`). `NamesResolve` lets this one name come late, but not be missing.
* `rpc_util.c:141`, `:225`: typedefs that name each other or themselves are followed without end (status `endless`), at the typedef
  or, for `typedef x x`, at the first member of that type (`rpc_cout.c:725`, `:399`, `:424`).
* `rpc_scan.c:430`: `const` is no keyword, so `def_` (`rpc_parse.c:287`) cannot be reached.
* `rpc_main.c:1450`: `-Sm` is not among the `nflags`, so `-Sm -o file` is a usage error although `usage` offers it.

Not in the model, but met on the way: `char name[10]` and `strcpy` for the name of an argument (`rpc_parse.c:538`); lines cut at
`MAXLINESIZE`; a name without `.` under `-a`; a member `union u x` is printed as the tag `union u` while the header
declares `struct u` (`rpc_hout.c:556`); a procedure with different numbers in two versions gets one `#define`.

### Proofs

`Rpcgen_proofs` proves `CrashLeavesNothing` and `NothingOverwritten` for every command line, document and set of files that
`CasesAssumption` allows and a call that fails anywhere. Both are about the disk, so the proof first says, in `EffectsOnDisk`, what each of the
program's actions can do to it: nothing, the removal by `crash()`, an output opened (or created with no room left in
`outfiles`), a pass closed. `OutputsKnown` is the invariant for the first: whatever rpcgen has made is in `outfiles`, except the one file
`record_open` had no room for, and that one only after the crash. `UserFilesStay` is the one for the second: no output of
this run is a file of the user's, because the command line has been checked (`CommandChecked`) and an output is opened only behind
`checkfiles` or the tests of `open_output` (`MayWrite`).

Only model-checked: `DefinitionsAreInput` and `NothingLegalRejected`, which compare the parser with a grammar that is recursive,
and `OutputsComplete` and `NamesResolve`, which follow the walks of the emitters over documents.

## 8. The generated server

### Module

`RpcServer` is the process that `rpc_svcout.c` writes; `conf` holds how it was written (`-I`, `-5` or neither, `-s`, `-K`) and how
it is started (by a port monitor with a kind of socket, or on its own). `main`: `Start` and its failures, then for each
transport `Create` and a `Register` for each version (`write_netid_register`, `write_nettype_register` and
`write_inetd_register` differ in the calls, not in the order), `CreateOn0` for the socket of a port monitor, `Run`. The dispatcher
is one action for each call of the generated function: `Dispatch`, the cases of the switch, `GetArgs`, `Call`, `Reply`,
`FreeArgs`, each with its failure. `closedown` is `Close`, `Stay` or, where `getrlimit` knows no limit, `GiveUp`; it may come
between any two steps of the process. svc_run, the portmapper and the clients are external. The portmapper may refuse any of
main's `pmap_unset` calls, whose results the code throws away (`Start`; `kept` remembers the versions), and gives nobody a
version and transport that another server has (`RegisterTaken`). `svc_sendreply` may fail in the case of `NULLPROC` as well as
for a procedure (`NullFails`, `ReplyFails`); only the second is followed by an error to the client.

### Runs

| run | what it asks | bounds |
|---|---|---|
| `server` | requests are settled; the server serves what it registered; it closes only when idle, and does close when nobody needs it | 2 versions, udp, tcp and both, all configurations that compile (`-I` with `-5` does not: `_rpcfdtype` is not declared); 3 requests, 2 connections at a time, 2 failing calls |

Three requests let one come before, in and after an alarm; two connections are what `openfd` distinguishes
from one and from none; two failures let a refused `pmap_unset` be followed by a reply that fails. Fairness: the process runs and the procedures of the service return
(`WF` of `MainStep \/ ServeStep`), and a timer that is set goes off (`WF` of `SigAlarm`). Nothing is assumed of clients,
and no failure is obliged to happen. Deadlock is not checked: a server that nobody calls any more may rest in svc_run.

The model also shows: a request that svc_run has read, but whose dispatcher has not set `_SERVING`, is lost when the alarm comes then
(`ClosesOnlyWhenIdle` allows `read`); a ping whose reply cannot be sent stays without any answer, the one exception
`RequestSettled` makes besides a procedure that returns NULL; a server written for udp alone runs beside another one on tcp
when `pmap_unset` was refused, the exception of `ServesWhatIsRegistered`, while on its own transport the registration then
fails and main exits; what was decoded of arguments that fail to decode is not freed (`args = "broken"`);
a server of its own with `-K 0` exits after the first request and stays registered with the portmapper; without `-I` the
handle is not tested, and with `-I` an uninitialised `transp` is compared with NULL when no transport was created.

### Proofs

`RpcServer_proofs` proves `RequestSettled`, `ClosesOnlyWhenIdle` and `ServesWhatIsRegistered` for every set of versions,
list of transports and configuration that `ConfOK` (`ConfsAssumption`) allows, and for any number of requests,
connections and failures. The invariant `IInv` adds to the properties what makes them inductive: `RequestProgress`, what
`args`, `result` and `answers` are at each point of the dispatcher (one answer is the only one because there is none before
the reply); `StateIsProgress`, that there is no alarm without the timer code and that with it `_rpcsvcstate` is `_SERVING`
at every point of the dispatcher and `_SERVED` at rest after a call, so that `_IDLE` in the handler means idle;
`AskedIsRegistered`, that every version and transport asked for is registered or still ahead of main, that nothing else is
ever registered by it, and that whoever is still there on another transport was not unset because the portmapper refused. The last needs no
step after `svc_run`: `OnlyMainRegisters` shows once that nothing later, and no failure, touches what main has set up.
`IdleServerExits` is liveness and only model-checked.

## 9. Not modelled, and why

`PROJECT.json` lists every component with its status.

* Left out for good: stdio's buffering, base64 and the counter of `xdr_sizeof.c` (no state of their own), test programs and
  build files. `bkxml.c` has the handlers of `xdr_xml.c` and is covered by `XdrXmlTree` only to that extent.
* `XDR_FREE` over XML, the inline code of `rpcgen -i` (off by default), floating point, binary data and a full memory stream
  under the XML writer are left out of `XdrFilter`; repositioning of memory streams, which no filter asks for, of `XdrCopy`.
* A type invariant is kept for the record stream, where proofs use it. For the modules whose values are trees of
  records (XML, filters, rpcgen) it would restate the shape of the model, and is left out.
* Left to TLC: liveness, which is out of the prover's reach, and what recurses over data whose shape is a parameter: the objects
  that `XdrFilter` and `XdrCopy` make, the spellings of `RpcgenGrammar`. Lists, paths,
  frames and the values of `XmlDocument` are recursive too, but along a chain that ends or a tree with a lowest node, which the lemmas
  of `XdrXmlTree_proofs` and `XdrStream_proofs` reach; the pointers of an object are the paths that lead to one (`XdrCopy_proofs`).
