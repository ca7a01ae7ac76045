------------------------------ MODULE XdrRecOut ------------------------------
(***************************************************************************)
(* The ENCODE half of a RECSTREAM (xdr_rec.c) and the caller that encodes  *)
(* through it.  Addresses are offsets from out_base, so out_base is 0 and  *)
(* out_boundry is SendSize.                                                *)
(*                                                                         *)
(* One action per operation of the stream; the iterations of the loop of   *)
(* xdrrec_putbytes are steps of their own, because each of them may call   *)
(* writeit.  writeit either accepts everything or fails after accepting a  *)
(* prefix (a short write is a failure to flush_out).                       *)
(***************************************************************************)
EXTENDS XdrRecWire

CONSTANTS SendSize,       \* sendsize, as fix_buf_size rounded it
          OpaqueSizes,    \* the cnt of the caller's xdr_opaque calls
          InlineSizes,    \* the len of the caller's XDR_INLINE calls
          Seekable,       \* lseek works on tcp_handle (a file, not a socket)
          MaxPut,         \* bound: payload bytes the caller encodes
          MaxRecords,     \* bound: records the caller ends
          MaxFails,       \* bound: failures of writeit
          MaxMarks        \* bound: positions the caller keeps at a time

ASSUME OutAssumption ==
  /\ SendSize \in Nat /\ Aligned(SendSize) /\ SendSize >= 2 * Unit
  /\ OpaqueSizes \subseteq Nat
  /\ InlineSizes \subseteq {n \in Nat : Aligned(n)}
  /\ Seekable \in BOOLEAN
  /\ MaxPut \in Nat /\ MaxRecords \in Nat /\ MaxFails \in Nat
  /\ MaxMarks \in Nat

VARIABLES
  out_buf,       \* the bytes from out_base to out_boundry
  out_finger,    \* next output position
  frag_header,   \* where the header of the current fragment goes
  frag_sent,     \* "true if buffer sent in middle of record"
  calls,         \* what xdr_opaque has left: bytes of this x_putbytes, then pad
  marks,         \* the positions the caller keeps from x_getpostn
  fails,         \* how often writeit failed
  nput,          \* history: the payload bytes in front of the caller
  ends,          \* history: nput at each successful xdrrec_endofrecord
  strayed        \* history: an x_setpostn went elsewhere than where its
                 \* position was taken

outVars == <<out_buf, out_finger, frag_header, frag_sent,
             calls, marks, fails, nput, ends, strayed>>

Offsets == 0..(SendSize - 1)
NoCalls == [bytes |-> 0, pad |-> 0]

OutInit ==
  /\ out_buf = [a \in Offsets |-> Junk]
  /\ out_finger = Unit
  /\ frag_header = 0
  /\ frag_sent = FALSE
  /\ calls = NoCalls
  /\ marks = {}
  /\ fails = 0
  /\ nput = 0
  /\ ends = << >>
  /\ strayed = FALSE
-----------------------------------------------------------------------------
\* memcpy of the next n payload bytes to offset `at'.
Store(buf, at, n) ==
  [a \in Offsets |-> IF a \in at..(at + n - 1)
                       THEN Payload(nput + 1 + (a - at)) ELSE buf[a]]

\* Mutant: len counts the header itself.
MutantHeaded(buf, finger, last) ==
  [a \in Offsets |->
     IF a \in frag_header..(frag_header + Unit - 1)
       THEN HeaderByte(last, finger - frag_header, a - frag_header + 1)
       ELSE buf[a]]

\* The store through frag_header: len is counted up to `finger'.
Headed(buf, finger, last) ==
  [a \in Offsets |->
     IF a \in frag_header..(frag_header + Unit - 1)
       THEN HeaderByte(last, finger - frag_header - Unit, a - frag_header + 1)
       ELSE buf[a]]

Bytes(buf, n) == [i \in 1..n |-> buf[i - 1]]

(***************************************************************************)
(* flush_out, with the buffer and the finger its caller has reached.  On   *)
(* success the caller decides what is in the emptied buffer.               *)
(***************************************************************************)
FlushSucceeds(buf, finger, eor) ==
  /\ wire' = wire \o Bytes(Headed(buf, finger, eor), finger)
  /\ frag_header' = 0
  /\ fails' = fails

\* Mutant: the buffer is emptied whatever writeit returned.
MutantFlushFails(buf, finger, eor) ==
  /\ fails < MaxFails
  /\ fails' = fails + 1
  /\ wire' = wire
  /\ out_buf' = Headed(buf, finger, eor)
  /\ out_finger' = Unit
  /\ frag_header' = 0

FlushFails(buf, finger, eor) ==
  /\ fails < MaxFails
  /\ fails' = fails + 1
  /\ \E accepted \in 0..(finger - 1) :
       wire' = wire \o Bytes(Headed(buf, finger, eor), accepted)
  /\ out_buf' = Headed(buf, finger, eor)
  /\ out_finger' = finger
  /\ frag_header' = frag_header
-----------------------------------------------------------------------------
\* Mutant: one unit too many is let into the buffer.
MutantFits(n) == out_finger + n <= SendSize + Unit

Fits(n) == out_finger + n <= SendSize

\* Mutant: the boundary test of xdrrec_endofrecord is strict.
MutantMustFlush(sendnow) ==
  sendnow \/ frag_sent \/ out_finger + Unit > SendSize

\* Mutant: a record whose first part was sent may be batched.
MutantMustFlushUnsent(sendnow) == sendnow \/ out_finger + Unit >= SendSize

MustFlush(sendnow) == sendnow \/ frag_sent \/ out_finger + Unit >= SendSize

\* Mutant: any offset in the buffer is taken for a position.
MutantMayMoveTo(newpos) == newpos >= 0 /\ newpos < SendSize

MayMoveTo(newpos) == newpos > frag_header /\ newpos < SendSize

Idle == open /\ calls = NoCalls
MayPut(n) == nput + n <= MaxPut

\* xdrrec_putlong and xdrrec_putint32.
PutLong ==
  /\ Idle /\ MayPut(Unit)
  /\ IF Fits(Unit)
       THEN /\ out_buf' = Store(out_buf, out_finger, Unit)
            /\ out_finger' = out_finger + Unit
            /\ nput' = nput + Unit
            /\ UNCHANGED <<wire, frag_header, frag_sent, fails>>
       ELSE /\ frag_sent' = TRUE
            /\ \/ /\ FlushSucceeds(out_buf, out_finger, FALSE)
                  /\ out_buf' = Store(Headed(out_buf, out_finger, FALSE), Unit, Unit)
                  /\ out_finger' = 2 * Unit
                  /\ nput' = nput + Unit
               \/ /\ FlushFails(out_buf, out_finger, FALSE)
                  /\ nput' = nput
  /\ UNCHANGED <<open, calls, marks, ends, strayed>>

\* xdr_opaque: x_putbytes of the bytes, then of the padding to a whole unit.
PutOpaque(cnt) ==
  /\ Idle /\ MayPut(RNDUP(cnt)) /\ cnt > 0
  /\ calls' = [bytes |-> cnt, pad |-> RNDUP(cnt) - cnt]
  /\ UNCHANGED <<wire, open, out_buf, out_finger, frag_header, frag_sent,
                 marks, fails, nput, ends, strayed>>

\* One iteration of the loop of xdrrec_putbytes; a call that fails makes
\* xdr_opaque return without making the next one.
PutBytesStep ==
  /\ open /\ calls # NoCalls
  /\ LET n    == MinOf(calls.bytes, SendSize - out_finger)
         rest == calls.bytes - n
         buf  == Store(out_buf, out_finger, n)
         finger == out_finger + n
         more == IF rest = 0 THEN [bytes |-> calls.pad, pad |-> 0]
                 ELSE [calls EXCEPT !.bytes = rest]
     IN /\ nput' = nput + n
        /\ IF finger = SendSize /\ rest > 0
             THEN /\ frag_sent' = TRUE
                  /\ \/ /\ FlushSucceeds(buf, finger, FALSE)
                        /\ out_buf' = Headed(buf, finger, FALSE)
                        /\ out_finger' = Unit
                        /\ calls' = more
                     \/ /\ FlushFails(buf, finger, FALSE)
                        /\ calls' = NoCalls
             ELSE /\ out_buf' = buf
                  /\ out_finger' = finger
                  /\ calls' = more
                  /\ UNCHANGED <<wire, frag_header, frag_sent, fails>>
  /\ UNCHANGED <<open, marks, ends, strayed>>

\* xdrrec_inline: space the caller fills in place, or NULL.
PutInline(len) ==
  /\ Idle /\ MayPut(len)
  /\ Fits(len)
  /\ out_buf' = Store(out_buf, out_finger, len)
  /\ out_finger' = out_finger + len
  /\ nput' = nput + len
  /\ UNCHANGED <<wire, open, frag_header, frag_sent, calls, marks, fails, ends,
                 strayed>>

\* xdrrec_endofrecord.
EndOfRecord(sendnow) ==
  /\ Idle /\ Len(ends) < MaxRecords
  /\ IF MustFlush(sendnow)
       THEN /\ frag_sent' = FALSE
            /\ \/ /\ FlushSucceeds(out_buf, out_finger, TRUE)
                  /\ out_buf' = Headed(out_buf, out_finger, TRUE)
                  /\ out_finger' = Unit
                  /\ ends' = Append(ends, nput)
               \/ /\ FlushFails(out_buf, out_finger, TRUE)
                  /\ ends' = ends
       ELSE /\ out_buf' = Headed(out_buf, out_finger, TRUE)
            /\ frag_header' = out_finger
            /\ out_finger' = out_finger + Unit
            /\ ends' = Append(ends, nput)
            /\ UNCHANGED <<wire, frag_sent, fails>>
  /\ UNCHANGED <<open, calls, marks, nput, strayed>>

(***************************************************************************)
(* xdrrec_getpos: the file offset plus what the buffer holds.  The caller  *)
(* keeps the result, perhaps beside older ones; history notes what it      *)
(* stands for.                                                             *)
(***************************************************************************)
Position == Len(wire) + out_finger
Here == [pos |-> Position, nput |-> nput, ends |-> Len(ends), fails |-> fails]

GetPos ==
  /\ Idle /\ Seekable
  /\ \E kept \in SUBSET marks : marks' = kept \cup {Here}
  /\ Cardinality(marks') <= MaxMarks
  /\ UNCHANGED <<wire, open, out_buf, out_finger, frag_header, frag_sent,
                 calls, fails, nput, ends, strayed>>

(***************************************************************************)
(* xdrrec_setpos to a position the caller kept, in front of where it is or *)
(* behind: it succeeds wherever that is within the fragment being filled,  *)
(* and the caller is not told whether the fragment is the one it means.    *)
(* After a failed writeit the file offset no longer says what the buffer   *)
(* holds, and the caller uses no older position.                           *)
(***************************************************************************)
SetPosTo(m) ==
  /\ Idle /\ Seekable /\ m.fails = fails
  /\ LET delta  == Position - m.pos
         newpos == out_finger - delta
     IN /\ MayMoveTo(newpos)
        /\ out_finger' = newpos
        /\ nput' = nput - delta
  /\ strayed' = (strayed \/ nput' # m.nput \/ Len(ends) # m.ends)
  /\ UNCHANGED <<wire, open, out_buf, frag_header, frag_sent, calls, marks,
                 fails, ends>>

SetPos == \E m \in marks : SetPosTo(m)

\* xdrrec_destroy; the connection is closed with it.
Destroy ==
  /\ Idle
  /\ open' = FALSE
  /\ UNCHANGED <<wire, outVars>>

OutNext ==
  \/ PutLong
  \/ \E cnt \in OpaqueSizes : PutOpaque(cnt)
  \/ PutBytesStep
  \/ \E len \in InlineSizes : PutInline(len)
  \/ \E sendnow \in BOOLEAN : EndOfRecord(sendnow)
  \/ GetPos
  \/ SetPos
  \/ Destroy

OutStart == wire = << >> /\ open = TRUE /\ OutInit

OutSpec == OutStart /\ [][OutNext]_<<wireVars, outVars>>
-----------------------------------------------------------------------------
OutTypeOK ==
  /\ wire \in Seq(Cell) /\ open \in BOOLEAN
  /\ out_buf \in [Offsets -> Cell]
  /\ out_finger \in Nat /\ frag_header \in Nat /\ frag_sent \in BOOLEAN
  /\ calls \in [bytes : Nat, pad : Nat]
  /\ marks \subseteq [pos : Nat, nput : Nat, ends : Nat, fails : Nat]
  /\ fails \in Nat /\ nput \in Nat /\ ends \in Seq(Nat) /\ strayed \in BOOLEAN

(***************************************************************************)
(* No store of the writer is outside its buffer or on a fragment header:   *)
(* whatever the caller encodes, and whatever writeit does, the finger is   *)
(* behind the whole header of the current fragment and within the buffer.  *)
(***************************************************************************)
FingerInFragment ==
  /\ frag_header + Unit <= out_finger
  /\ out_finger <= SendSize

(***************************************************************************)
(* A fragment that is not the last of its record is never empty.  Its      *)
(* header would be a zero word, which set_input_fragment takes for         *)
(* `wildly incorrect' and refuses (xdr_rec.c:624-635), so that the reader  *)
(* could never get past it.                                                *)
(***************************************************************************)
NoEmptyInnerFragment ==
  \A i \in 1..Len(wire) :
    wire[i].kind = "header" /\ ~wire[i].last => wire[i].len > 0

\* The fragments the buffer already closed; the stream once they are sent.
ClosedPart == Bytes(out_buf, frag_header)
ClosedStream == wire \o ClosedPart

\* What the fragment being filled has so far.
OpenPayload == LET first == frag_header + Unit
               IN [i \in 1..(out_finger - first) |-> out_buf[first + i - 1]]

\* It is the last bytes the caller encoded, in order.
OpenIsTail ==
  \A i \in 1..Len(OpenPayload) : OpenPayload[i] = Payload(nput - Len(OpenPayload) + i)

(***************************************************************************)
(* While writeit has not failed and the caller has not strayed, what was   *)
(* sent followed by the batched part of the buffer is a sequence of whole  *)
(* fragments, it ends a record exactly where the caller did, and with the  *)
(* fragment being filled it carries every byte the caller encoded, once    *)
(* and in order, also when it went back and forth within the fragment.     *)
(***************************************************************************)
StreamIsRecords ==
  fails = 0 /\ ~strayed =>
    /\ Whole(ClosedStream)
    /\ RecordsEndAt(ClosedStream, ends)
    /\ NumberedFrom(ClosedStream, 0)
    /\ PayloadCount(ClosedStream, Len(ClosedStream)) + Len(OpenPayload) = nput
    /\ OpenIsTail

LastEnd == IF ends = << >> THEN 0 ELSE ends[Len(ends)]

\* Part of the record being encoded is on the wire.
PartSent == \E i \in 1..Len(wire) :
              wire[i].kind = "payload" /\ wire[i].k > LastEnd

(***************************************************************************)
(* "true if buffer sent in middle of record" (xdr_rec.c:111), while        *)
(* writeit has not failed and the caller has not strayed.                  *)
(* xdrrec_endofrecord relies on it to push out the rest of a record the    *)
(* peer has begun to receive.                                              *)
(***************************************************************************)
FragSentExact == fails = 0 /\ ~strayed => frag_sent = PartSent

\* How many of the payload bytes have left the buffer.
Gone == nput - Len(OpenPayload) - PayloadCount(ClosedPart, frag_header)

(***************************************************************************)
(* A failed flush loses nothing: the buffer always holds whole fragments   *)
(* and then the open one, its payload is the last bytes the caller         *)
(* encoded, consecutive, and every byte before them is on the wire.  So a  *)
(* retry sends them.  (A caller that strays passes over bytes that it has  *)
(* not encoded there.)                                                     *)
(***************************************************************************)
BufferHoldsTail ==
  ~strayed =>
    /\ Whole(ClosedPart)
    /\ NumberedFrom(ClosedPart, Gone)
    /\ OpenIsTail
    /\ \A k \in 1..Gone : \E i \in 1..Len(wire) : wire[i] = Payload(k)

\* The caller has gone back behind m and ended the record there: m is no
\* longer a position in any record.
Abandoned(m) == Len(ends) > m.ends /\ ends[m.ends + 1] < m.nput

(***************************************************************************)
(* x_setpostn to any position the caller keeps, of whatever age, either    *)
(* fails or moves, back or forth, to exactly the byte the caller was at,   *)
(* in the record it was in, however many fragments and records were ended  *)
(* or sent in between and however the caller has moved about.  The one     *)
(* exception is a position the caller has itself cut off by going back and *)
(* ending the record in front of it: the code takes it for a position in   *)
(* the record that followed (xdr_rec.c:355).                               *)
(***************************************************************************)
SetPosIsExact ==
  [][\A m \in marks :
        SetPosTo(m) /\ ~Abandoned(m) => nput' = m.nput /\ Len(ends) = m.ends]_outVars

(***************************************************************************)
(* A record is pushed out, not batched, when the caller asks for it or     *)
(* when the peer has part of it: a successful xdrrec_endofrecord then      *)
(* leaves every byte encoded so far on the wire.                           *)
(***************************************************************************)
PartlySentIsFlushed ==
  [][fails' = 0 /\ ~strayed /\ ends' # ends /\ PartSent => frag_header' = 0]_outVars
=============================================================================
