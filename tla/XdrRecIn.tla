------------------------------- MODULE XdrRecIn -------------------------------
(***************************************************************************)
(* The DECODE half of a RECSTREAM (xdr_rec.c) and the caller that decodes  *)
(* through it.  Addresses are offsets from in_base; in_base and recvsize   *)
(* are whole units (xdrrec_create), so an offset and the address it stands *)
(* for have the same remainder modulo Unit.                                *)
(*                                                                         *)
(* x_getlong, x_getbytes, xdrrec_skiprecord and xdrrec_eof block in readit *)
(* and loop around it, so a call in progress is state: `rop' is the entry  *)
(* point, `inside' the routine it is in, and each iteration of a loop is a     *)
(* step.  The peer and the connection move between the steps.              *)
(***************************************************************************)
EXTENDS XdrRecWire

CONSTANTS RecvSize,       \* recvsize, as fix_buf_size rounded it
          GetSizes,       \* the len of the caller's x_getbytes calls
          InlineGets,     \* the len of the caller's XDR_INLINE calls
          SeekableIn,     \* lseek works on tcp_handle
          EofIsError,     \* readit returns -1 (not 0) at the end of the stream
          MaxErrors,      \* bound: transient failures of readit (timeouts)
          MaxCalls,       \* bound: calls of the caller
          AnyLength       \* what a word that is no header may decode to

ASSUME InAssumption ==
  /\ RecvSize \in Nat /\ Aligned(RecvSize) /\ RecvSize >= Unit
  /\ GetSizes \subseteq Nat /\ InlineGets \subseteq Nat
  /\ SeekableIn \in BOOLEAN /\ EofIsError \in BOOLEAN
  /\ MaxErrors \in Nat /\ MaxCalls \in Nat /\ AnyLength \subseteq Nat

VARIABLES
  in_buf,        \* the bytes from in_base to in_base + in_size
  in_finger,     \* location of next byte to be had
  in_boundry,    \* can read up to this location
  fbtbc,         \* fragment bytes to be consumed
  last_frag,
  nread,         \* bytes of the wire readit has returned
  rop,           \* the call in progress, or "idle"
  inside,        \* "loop", or in get_input_bytes / skip_input_bytes: "data", "header"
  len,           \* bytes xdrrec_getbytes still has to deliver
  cnt,           \* bytes the input routine still has to take ...
  current,       \* ... of the number it was called with
  word,          \* header bytes set_input_fragment has so far
  ret,           \* what the last call returned: [op, ok, clean]
  errors, ncalls,
  inmark,        \* the position the caller keeps from x_getpostn, or -1
  got            \* history: the payload bytes handed to the caller

inVars == <<in_buf, in_finger, in_boundry, fbtbc, last_frag, nread, rop, inside, len,
            cnt, current, word, ret, errors, ncalls, inmark, got>>

\* What the operations that only move within the buffer leave alone.
callVars == <<rop, inside, len, cnt, current, word>>

InOffsets == 0..(RecvSize - 1)

\* Offset in the stream of the byte at in_finger.
StreamPos == nread - (in_boundry - in_finger)

InInit ==
  /\ in_buf = [a \in InOffsets |-> Junk]
  /\ in_finger = RecvSize /\ in_boundry = RecvSize
  /\ fbtbc = 0 /\ last_frag = TRUE
  /\ nread = 0
  /\ rop = "idle" /\ inside = "loop" /\ len = 0 /\ cnt = 0 /\ current = 0 /\ word = << >>
  /\ ret = [op |-> "create", ok |-> TRUE, clean |-> TRUE]
  /\ errors = 0 /\ ncalls = 0 /\ inmark = -1
  /\ got = << >>
-----------------------------------------------------------------------------
BufferBytes(n) == [i \in 1..n |-> in_buf[in_finger + i - 1]]

\* The call in progress returns to the caller.  `clean' says that nothing
\* but the contents of the stream decided the result.
Return(op, ok, clean) ==
  /\ rop' = "idle" /\ inside' = "loop" /\ len' = 0 /\ cnt' = 0 /\ current' = 0 /\ word' = << >>
  /\ ret' = [op |-> op, ok |-> ok, clean |-> clean]

\* What the failure of an input routine makes the entry point return.
Abandon(clean) == Return(rop, rop = "eof", clean)

Begin(op, n) ==
  /\ rop = "idle" /\ ncalls < MaxCalls
  /\ rop' = op /\ len' = n /\ ncalls' = ncalls + 1
  /\ UNCHANGED <<inside, cnt, current, word, ret>>
  /\ UNCHANGED <<wireVars, in_buf, in_finger, in_boundry, fbtbc, last_frag,
                 nread, errors, inmark, got>>

GetBytes(n) == Begin("getbytes", n)
SkipRecord == Begin("skiprecord", 0)
Eof == Begin("eof", 0)

\* The fast case of xdrrec_getlong and xdrrec_getint32: one aligned load.
WordReady == fbtbc >= Unit /\ in_boundry - in_finger >= Unit

GetLong ==
  \/ /\ ~WordReady
     /\ Begin("getbytes", Unit)
  \/ /\ WordReady
     /\ rop = "idle" /\ ncalls < MaxCalls
     /\ got' = got \o BufferBytes(Unit)
     /\ fbtbc' = fbtbc - Unit
     /\ in_finger' = in_finger + Unit
     /\ ncalls' = ncalls + 1
     /\ ret' = [op |-> "getbytes", ok |-> TRUE, clean |-> TRUE]
     /\ UNCHANGED <<wireVars, in_buf, in_boundry, last_frag, nread, callVars,
                    errors, inmark>>

\* Mutants: the fragment, or the part of the buffer that is filled, is not
\* consulted.
MutantInlineAnyFragment(n) == in_finger + n <= in_boundry
MutantInlineAnyBuffer(n) == n <= fbtbc /\ in_finger + n <= RecvSize

InlineFits(n) == n <= fbtbc /\ in_finger + n <= in_boundry

\* xdrrec_inline: the bytes in place, or NULL and nothing changed.
GetInline(n) ==
  /\ rop = "idle" /\ ncalls < MaxCalls
  /\ InlineFits(n)
  /\ got' = got \o BufferBytes(n)
  /\ fbtbc' = fbtbc - n
  /\ in_finger' = in_finger + n
  /\ ncalls' = ncalls + 1
  /\ UNCHANGED <<wireVars, in_buf, in_boundry, last_frag, nread, callVars, ret,
                 errors, inmark>>
-----------------------------------------------------------------------------
\* Mutants: the end of a fragment is taken for the end of the record; the
\* end of the record is not noticed.
MutantEveryFragmentLast == fbtbc = 0
MutantNoFragmentLast == FALSE

RecordExhausted == fbtbc = 0 /\ last_frag

\* The head of the loop of xdrrec_getbytes.
GetBytesLoop ==
  /\ rop = "getbytes" /\ inside = "loop"
  /\ \/ /\ len = 0
        /\ Return("getbytes", TRUE, TRUE)
     \/ /\ len > 0 /\ RecordExhausted
        /\ Return("getbytes", FALSE, TRUE)
     \/ /\ len > 0 /\ fbtbc = 0 /\ ~RecordExhausted
        /\ inside' = "header" /\ cnt' = Unit /\ current' = Unit
        /\ UNCHANGED <<rop, len, word, ret>>
     \/ /\ len > 0 /\ fbtbc > 0
        /\ inside' = "data" /\ cnt' = MinOf(len, fbtbc) /\ current' = cnt'
        /\ UNCHANGED <<rop, len, word, ret>>
  /\ UNCHANGED <<wireVars, in_buf, in_finger, in_boundry, fbtbc, last_frag,
                 nread, errors, ncalls, inmark, got>>

\* Mutant: a record ends with the fragment it is in.
MutantRecordUnfinished == fbtbc > 0

RecordUnfinished == fbtbc > 0 \/ ~last_frag

\* The head of the loop of xdrrec_skiprecord and xdrrec_eof, and their ends.
SkipLoop ==
  /\ rop \in {"skiprecord", "eof"} /\ inside = "loop"
  /\ \/ /\ RecordUnfinished
        /\ inside' = "data" /\ cnt' = fbtbc /\ current' = fbtbc
        /\ UNCHANGED <<rop, len, word, ret, last_frag>>
     \/ /\ ~RecordUnfinished /\ rop = "skiprecord"
        /\ last_frag' = FALSE
        /\ Return("skiprecord", TRUE, TRUE)
     \/ /\ ~RecordUnfinished /\ rop = "eof"
        /\ Return("eof", in_finger = in_boundry, TRUE)
        /\ UNCHANGED last_frag
  /\ UNCHANGED <<wireVars, in_buf, in_finger, in_boundry, fbtbc,
                 nread, errors, ncalls, inmark, got>>

\* Mutant: every refill starts at the base of the buffer.
MutantWhere == 0

\* fill_input_buf keeps the alignment of the stream: where, and how much.
Where == in_boundry % Unit

\* get_input_bytes and skip_input_bytes find the buffer empty; readit
\* returns what has arrived, at most what it was asked for.
Fill ==
  /\ inside # "loop" /\ cnt > 0 /\ in_finger = in_boundry
  /\ \E n \in 1..MinOf(RecvSize - Where, Len(wire) - nread) :
       /\ in_buf' = [a \in InOffsets |->
                       IF a \in Where..(Where + n - 1)
                         THEN wire[nread + 1 + (a - Where)] ELSE in_buf[a]]
       /\ in_finger' = Where
       /\ in_boundry' = Where + n
       /\ nread' = nread + n
  /\ UNCHANGED <<wireVars, fbtbc, last_frag, callVars, ret, errors, ncalls, inmark, got>>

\* readit returns -1 although the connection is alive: a timeout.
FillFails ==
  /\ inside # "loop" /\ cnt > 0 /\ in_finger = in_boundry
  /\ errors < MaxErrors
  /\ errors' = errors + 1
  /\ Abandon(FALSE)
  /\ UNCHANGED <<wireVars, in_buf, in_finger, in_boundry, fbtbc, last_frag,
                 nread, ncalls, inmark, got>>

\* Mutant: the test for -1 lost, a failed readit counts as nothing read.
MutantEofFails == FALSE

EofFails == EofIsError

\* readit at the end of the stream: -1, or 0 as read(2) returns it.
FillAtEnd ==
  /\ inside # "loop" /\ cnt > 0 /\ in_finger = in_boundry
  /\ ~open /\ nread = Len(wire)
  /\ IF EofFails
       THEN /\ Abandon(FALSE)
            /\ UNCHANGED <<in_finger, in_boundry>>
       ELSE /\ in_finger' = Where /\ in_boundry' = Where
            /\ UNCHANGED <<callVars, ret>>
  /\ UNCHANGED <<wireVars, in_buf, fbtbc, last_frag, nread, errors, ncalls,
                 inmark, got>>

\* The other branch of their loops: take what the buffer has.
Take ==
  /\ inside # "loop" /\ cnt > 0 /\ in_finger < in_boundry
  /\ LET n == MinOf(cnt, in_boundry - in_finger)
     IN /\ in_finger' = in_finger + n
        /\ cnt' = cnt - n
        /\ word' = IF inside = "header" THEN word \o BufferBytes(n) ELSE word
        /\ got' = IF inside = "data" /\ rop = "getbytes"
                    THEN got \o BufferBytes(n) ELSE got
  /\ UNCHANGED <<wireVars, in_buf, in_boundry, fbtbc, last_frag, nread, rop, inside,
                 len, current, ret, errors, ncalls, inmark>>

\* Mutant: the caller's whole request is charged to the fragment.
MutantAfterData == IF rop = "getbytes" THEN fbtbc - len ELSE 0

AfterData == IF rop = "getbytes" THEN fbtbc - current ELSE 0

\* The input routine returned TRUE: the bytes of the fragment are accounted
\* for, and a skip goes on to the next fragment of the record.
DataDone ==
  /\ inside = "data" /\ cnt = 0
  /\ fbtbc' = AfterData
  /\ IF rop = "getbytes"
       THEN /\ len' = len - current
            /\ inside' = "loop" /\ current' = 0 /\ cnt' = 0
       ELSE IF last_frag
              THEN inside' = "loop" /\ current' = 0 /\ cnt' = 0 /\ UNCHANGED len
              ELSE inside' = "header" /\ current' = Unit /\ cnt' = Unit /\ UNCHANGED len
  /\ UNCHANGED <<wireVars, in_buf, in_finger, in_boundry, last_frag, nread, rop,
                 word, ret, errors, ncalls, inmark, got>>

\* ntohl of the word: bytes that are no header decode to anything.
Decoded(s) == IF IsHeader(s) THEN {[last |-> s[1].last, len |-> s[1].len]}
              ELSE [last : BOOLEAN, len : AnyLength]

\* set_input_fragment has its word.
HeaderDone ==
  /\ inside = "header" /\ cnt = 0
  /\ \E h \in Decoded(word) :
       /\ last_frag' = h.last
       /\ IF h.len = 0 /\ ~h.last
            THEN /\ Abandon(FALSE)
                 /\ UNCHANGED fbtbc
            ELSE /\ fbtbc' = h.len
                 /\ inside' = "loop" /\ current' = 0 /\ word' = << >>
                 /\ UNCHANGED <<rop, len, cnt, ret>>
  /\ UNCHANGED <<wireVars, in_buf, in_finger, in_boundry, nread, errors, ncalls,
                 inmark, got>>
-----------------------------------------------------------------------------
\* xdrrec_getpos: the file offset less what the buffer still holds.
InGetPos ==
  /\ rop = "idle" /\ SeekableIn
  /\ inmark' = StreamPos
  /\ UNCHANGED <<wireVars, in_buf, in_finger, in_boundry, fbtbc, last_frag, nread,
                 callVars, ret, errors, ncalls, got>>

\* xdrrec_setpos to the kept position; elsewhere it fails and changes nothing.
InSetPos ==
  /\ rop = "idle" /\ SeekableIn /\ inmark # -1
  /\ LET delta  == StreamPos - inmark
         newpos == in_finger - delta
     IN /\ delta # 0
        /\ delta < fbtbc /\ newpos <= in_boundry /\ newpos >= 0
        /\ in_finger' = newpos
        /\ fbtbc' = fbtbc - delta
  /\ UNCHANGED <<wireVars, in_buf, in_boundry, last_frag, nread, callVars, ret,
                 errors, ncalls, inmark, got>>

CallerNext ==
  \/ \E n \in GetSizes : GetBytes(n)
  \/ GetLong
  \/ \E n \in InlineGets : GetInline(n)
  \/ SkipRecord
  \/ Eof
  \/ InGetPos
  \/ InSetPos

\* The steps of a call in progress; FillFails is the network's doing.
CallNext ==
  \/ GetBytesLoop
  \/ SkipLoop
  \/ Fill
  \/ FillAtEnd
  \/ Take
  \/ DataDone
  \/ HeaderDone

InNext == CallerNext \/ CallNext \/ FillFails
=============================================================================
