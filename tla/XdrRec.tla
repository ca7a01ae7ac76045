-------------------------------- MODULE XdrRec --------------------------------
(***************************************************************************)
(* Two RECSTREAMs joined by a connection: a caller encoding records on one *)
(* (XdrRecOut), a caller decoding them from the other (XdrRecIn), each     *)
(* step of either interleaved with those of the other.  The connection is  *)
(* a byte pipe: writeit hands it whole buffers, readit takes chunks of any *)
(* size.  The writer's caller gives the stream up when writeit fails.      *)
(***************************************************************************)
EXTENDS XdrRecOut, XdrRecIn

VARIABLES rec,      \* history: records the reader has started
          pos       \* history: payload bytes it has read or passed over

vars == <<wireVars, outVars, inVars, rec, pos>>

Init == /\ wire = << >> /\ open = TRUE
        /\ OutInit /\ InInit
        /\ rec = 0 /\ pos = 0

Writer == /\ fails = 0 /\ OutNext
          /\ UNCHANGED <<inVars, rec, pos>>

Skipped(op) == rop = op /\ rop' = "idle"

\* What a step of the reader means to its caller.
ReaderHistory ==
  /\ rec' = IF Skipped("skiprecord") /\ ret'.ok THEN rec + 1 ELSE rec
  /\ pos' = IF (Skipped("skiprecord") \/ Skipped("eof")) /\ ret'.clean
              THEN PayloadCount(wire, StreamPos')
              ELSE pos + (Len(got') - Len(got))

ReaderCall   == CallerNext /\ UNCHANGED outVars /\ ReaderHistory
ReaderReturn == CallNext   /\ UNCHANGED outVars /\ ReaderHistory
Timeout      == FillFails  /\ UNCHANGED outVars /\ ReaderHistory

Next == Writer \/ ReaderCall \/ ReaderReturn \/ Timeout

Spec == Init /\ [][Next]_vars

(***************************************************************************)
(* A call of the reader is never suspended in its own code, a call of the  *)
(* writer neither, and a writer that has nothing more to do closes the     *)
(* connection; nothing obliges either caller to make another call.         *)
(***************************************************************************)
FairSpec == /\ Spec
            /\ WF_vars(ReaderReturn)
            /\ WF_vars(PutBytesStep /\ Writer)
            /\ WF_vars(Destroy /\ Writer)
-----------------------------------------------------------------------------
InTypeOK ==
  /\ in_buf \in [InOffsets -> Cell]
  /\ in_finger \in Nat /\ in_boundry \in Nat
  /\ fbtbc \in Nat /\ last_frag \in BOOLEAN
  /\ nread \in Nat
  /\ rop \in {"idle", "getbytes", "skiprecord", "eof"}
  /\ inside \in {"loop", "data", "header"}
  /\ len \in Nat /\ cnt \in Nat /\ current \in Nat
  /\ word \in Seq(Cell)
  /\ ret \in [op : {"create", "getbytes", "skiprecord", "eof"},
              ok : BOOLEAN, clean : BOOLEAN]
  /\ errors \in Nat /\ ncalls \in Nat /\ inmark \in Nat \cup {-1}
  /\ got \in Seq(Cell) /\ rec \in Nat /\ pos \in Int

(***************************************************************************)
(* The unread part of the input buffer lies within it and is the next part *)
(* of the stream, however the connection cut the stream up.                *)
(***************************************************************************)
BufferIsStream ==
  /\ in_finger <= in_boundry /\ in_boundry <= RecvSize
  /\ StreamPos >= 0 /\ nread <= Len(wire)
  /\ \A a \in in_finger..(in_boundry - 1) :
       in_buf[a] = wire[StreamPos + 1 + (a - in_finger)]

(***************************************************************************)
(* fill_input_buf starts a refill at in_boundry % BYTES_PER_XDR_UNIT so    *)
(* that a unit of the stream is an aligned word of the buffer even when    *)
(* readit returned part of a unit: that makes the word load of the fast    *)
(* case of xdrrec_getlong legal.                                           *)
(***************************************************************************)
FingerAligned == in_finger % Unit = StreamPos % Unit

(***************************************************************************)
(* "fragment bytes to be consumed" (xdr_rec.c:120): between the steps of a *)
(* call, fbtbc is the distance from the next byte to the end of a fragment *)
(* of the stream.                                                          *)
(***************************************************************************)
FbtbcReachesFragmentEnd ==
  inside = "loop" => StreamPos + fbtbc \in FragmentEnds(wire)

(***************************************************************************)
(* "one should always call this procedure to guarantee proper record       *)
(* alignment" (xdr_rec.c:476-478): when xdrrec_skiprecord succeeds, the    *)
(* next byte is the first of a record.                                     *)
(***************************************************************************)
SkipRecordAligns ==
  [][Skipped("skiprecord") /\ ret'.ok => StreamPos' \in RecordStarts(wire)]_vars

(***************************************************************************)
(* x_getbytes fails, while the connection is alive, only for want of bytes *)
(* in the record: every byte of it has been read or passed over.           *)
(***************************************************************************)
FailsOnlyAtRecordEnd ==
  [][Skipped("getbytes") /\ ~ret'.ok /\ ret'.clean
       => rec = 0 \/ (rec <= Len(ends) /\ pos = ends[rec])]_vars

(***************************************************************************)
(* Every call of the reader returns: when the bytes arrive, or at the      *)
(* latest when the writer closes the connection.                           *)
(***************************************************************************)
CallsReturn == rop # "idle" ~> rop = "idle"

(***************************************************************************)
(* The two streams and the connection implement a pipe of records.         *)
(***************************************************************************)
Pipe == INSTANCE RecordPipe WITH put <- nput,
                                 got <- [i \in 1..Len(got) |-> got[i].k]
ImplementsRecordPipe == Pipe!Spec
=============================================================================
