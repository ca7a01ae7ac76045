------------------------------ MODULE RecordPipe ------------------------------
(***************************************************************************)
(* What a record-marking stream promises (the comments of xdr_rec.c and    *)
(* rpc/xdr.h): the sender's bytes arrive unchanged and in order, cut into  *)
(* the records the sender ended.  The receiver moves from record to record *)
(* and never reads across the end of one.  Fragments, buffers and the      *)
(* chunks the connection delivers do not show.                             *)
(***************************************************************************)
EXTENDS Naturals, Sequences

VARIABLES put,      \* bytes the sender encoded; byte k is the k-th of them
          ends,     \* where the records it ended end
          rec,      \* records the receiver has started
          pos,      \* bytes the receiver has read or passed over
          got       \* the numbers of the bytes it was given

pipeVars == <<put, ends, rec, pos, got>>

Init == put = 0 /\ ends = << >> /\ rec = 0 /\ pos = 0 /\ got = << >>

\* The end of the r-th record, so far.
EndOf(r) == CASE r = 0                     -> 0
              [] r > 0 /\ r <= Len(ends)   -> ends[r]
              [] OTHER                     -> put

\* The sender encodes some more bytes.
Put == put' \in Nat /\ put' > put /\ UNCHANGED <<ends, rec, pos, got>>

EndRecord == ends' = Append(ends, put) /\ UNCHANGED <<put, rec, pos, got>>

\* Some bytes of the record being read, and no others.
Deliver ==
  /\ rec > 0
  /\ pos' \in Nat /\ pos < pos' /\ pos' <= EndOf(rec)
  /\ got' = got \o [i \in 1..(pos' - pos) |-> pos + i]
  /\ UNCHANGED <<put, ends, rec>>

\* The rest of a record can be passed over once it has ended.
FinishRecord ==
  /\ rec <= Len(ends)
  /\ pos' = EndOf(rec)
  /\ UNCHANGED <<put, ends, rec, got>>

NextRecord ==
  /\ rec <= Len(ends)
  /\ pos' = EndOf(rec) /\ rec' = rec + 1
  /\ UNCHANGED <<put, ends, got>>

Next == \/ Put
        \/ EndRecord
        \/ Deliver
        \/ FinishRecord
        \/ NextRecord

Spec == Init /\ [][Next]_pipeVars
=============================================================================
