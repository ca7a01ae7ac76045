----------------------------- MODULE XdrStream -----------------------------
(***************************************************************************)
(* xdr_stream.c: messages over a connection, each behind its length in two *)
(* bytes. One side sends, the other receives; both use their stream from   *)
(* one thread. The connection is external: a read or a write that times out*)
(* or fails has moved fewer bytes than it was asked for.                   *)
(*                                                                         *)
(* A message is the sequence of the bytes its filter encodes. No message is*)
(* the beginning of another one: XDR's formats delimit themselves. The     *)
(* receiver's filter takes at least a byte: xdr_void would succeed on any. *)
(***************************************************************************)
EXTENDS Integers, SequencesExt

CONSTANTS
    Messages,      \* what the sender's filter encodes
    Understood,    \* those of them that the receiver's filter decodes
    Base,          \* 256: the values of a byte
    BUFLEN,        \* XDR_STREAM_BUFLEN
    MaxSends,      \* bound: messages sent
    MaxCalls,      \* bound: calls of xdr_stream_recv in a broken connection
    MaxFaults      \* bound: reads and writes that fail

ASSUME StreamAssumption ==
    /\ Base \in Nat \ {0} /\ BUFLEN \in 3 .. Base * Base - 1
    /\ Messages \subseteq Seq(0 .. Base - 1) /\ Understood \subseteq Messages \ {<<>>}
    /\ \A m, n \in Messages \ {<<>>} : m # n => ~IsPrefix(m, n)

VARIABLES
    wire,       \* bytes written and not read
    open,       \* the sender has its stream
    pc,         \* where xdr_stream_recv is: "header" or "body"
    n,          \* its local n
    sends,      \* calls of xdr_stream_send
    accepted,   \* history: how many messages it has sent
    delivered,  \* history: the messages xdr_stream_recv has returned
    taken,      \* history: how many messages it has taken off the wire
    broken,     \* history: a call has failed in the middle of a message
    faults,     \* reads and writes that have failed
    calls       \* calls of xdr_stream_recv since then

sender == <<open, sends, accepted>>
receiver == <<pc, n, delivered, taken, calls>>
vars == <<wire, sender, receiver, broken, faults>>

---------------------------------------------------------------------------
(* htons and ntohs: the more significant byte comes first.                 *)
\* Mutant: the length counts its own two bytes.
MutantHeader(size) == <<(size + 2) \div Base, (size + 2) % Base>>
Header(size) == <<size \div Base, size % Base>>
\* Mutant: the bytes are taken in the order of the machine.
MutantLength(bytes) == bytes[2] * Base + bytes[1]
Length(bytes) == bytes[1] * Base + bytes[2]
InRange(size) == size > 0 /\ size < BUFLEN

(* Encoding fails when the message is longer than what is behind the       *)
(* length in buf; a message of no bytes is refused.                        *)
Encodes(m) == Len(m) <= BUFLEN - 2 /\ InRange(Len(m))
Frame(m) == Header(Len(m)) \o m
(* What a filter makes of the bytes of a message; more bytes than it takes *)
(* are not noticed.                                                        *)
Decoded(bytes) == {m \in Understood : IsPrefix(m, bytes)}

Refused == faults < MaxFaults /\ faults' = faults + 1

(* xdr_stream_send writes length and message with one call.                *)
Send ==
    /\ open /\ sends < MaxSends
    /\ \E m \in Messages :
          /\ Encodes(m)
          /\ wire' = wire \o Frame(m)
    /\ sends' = sends + 1 /\ accepted' = accepted + 1
    /\ UNCHANGED <<open, receiver, broken, faults>>
CannotEncode ==
    /\ open /\ sends < MaxSends
    /\ \E m \in Messages : ~Encodes(m)
    /\ sends' = sends + 1
    /\ UNCHANGED <<wire, open, accepted, receiver, broken, faults>>
(* i # n+2: what was written stays, the caller is told of the failure.     *)
ShortWrite ==
    /\ open /\ sends < MaxSends
    /\ Refused
    /\ \E m \in Messages, i \in 0 .. BUFLEN :
          /\ Encodes(m) /\ i < Len(Frame(m))
          /\ wire' = wire \o SubSeq(Frame(m), 1, i)
          /\ broken' = (broken \/ i > 0)
    /\ sends' = sends + 1
    /\ UNCHANGED <<open, accepted, receiver>>
(* xdr_stream_delete: closes the connection and frees the stream.          *)
Delete ==
    /\ open /\ open' = FALSE
    /\ UNCHANGED <<wire, sends, accepted, receiver, broken, faults>>

---------------------------------------------------------------------------
(* xdr_stream_recv: it reads the length, then the message. read(i) takes i *)
(* bytes off the wire.                                                     *)
read(i) == wire' = SubSeq(wire, i + 1, Len(wire))
Called == calls < MaxCalls /\ calls' = IF broken THEN calls + 1 ELSE 0

RecvHeader ==
    /\ pc = "header" /\ Len(wire) >= 2 /\ Called
    /\ read(2)
    /\ n' = Length(wire)
    /\ IF InRange(n') THEN pc' = "body" /\ UNCHANGED broken
       ELSE broken' = TRUE /\ UNCHANGED pc
    /\ UNCHANGED <<sender, delivered, taken, faults>>
(* read returns 0: the end, and for all the caller knows a time-out.       *)
RecvEnd ==
    /\ pc = "header" /\ wire = <<>> /\ ~open
    /\ UNCHANGED vars
(* A read that fails, or returns 1 of 2 bytes: the byte is lost.           *)
RecvHeaderFails ==
    /\ pc = "header" /\ Called
    /\ \E i \in {0, 1} :
          /\ IF i = 1 /\ Len(wire) = 1 /\ ~open THEN UNCHANGED faults ELSE Refused
          /\ i <= Len(wire) /\ read(i)
          /\ broken' = (broken \/ i > 0)
    /\ UNCHANGED <<sender, pc, n, delivered, taken>>
RecvBody ==
    /\ pc = "body" /\ Len(wire) >= n
    /\ read(n)
    /\ pc' = "header" /\ taken' = taken + 1
    /\ LET got == Decoded(SubSeq(wire, 1, n))
       IN delivered' = IF got = {} THEN delivered ELSE Append(delivered, CHOOSE m \in got : TRUE)
    /\ UNCHANGED <<sender, n, broken, faults, calls>>
(* A read that ends before n bytes: what it has taken is lost, with n.     *)
RecvBodyFails ==
    /\ pc = "body"
    /\ IF open \/ Len(wire) >= n THEN Refused ELSE UNCHANGED faults
    /\ \E i \in 0 .. BUFLEN : i <= Len(wire) /\ i < n /\ read(i)
    /\ pc' = "header" /\ broken' = TRUE
    /\ UNCHANGED <<sender, n, delivered, taken, calls>>

Init ==
    /\ wire = <<>> /\ open = TRUE /\ pc = "header" /\ n = 0
    /\ sends = 0 /\ accepted = 0 /\ delivered = <<>> /\ taken = 0
    /\ broken = FALSE /\ faults = 0 /\ calls = 0

Recv == RecvHeader \/ RecvBody
Next ==
    \/ Send \/ CannotEncode \/ ShortWrite \/ Delete
    \/ Recv \/ RecvEnd \/ RecvHeaderFails \/ RecvBodyFails

(* The receiver keeps calling.                                             *)
Spec == Init /\ [][Next]_vars /\ WF_vars(Recv)

---------------------------------------------------------------------------
(* Properties.                                                             *)

(* Until a call fails in the middle of a message, the stream is the queue  *)
(* of the messages between the length and the end of the wire: each is     *)
(* received once, in order and whole; calls that fail before the first byte*)
(* or behind the last one (no room, a time-out, a filter that refuses what *)
(* it is given) do not lose the place.                                     *)
Unread == IF pc = "body" THEN Header(n) \o wire ELSE wire
InFrames(bytes) ==
    LET from[i \in 0 .. Len(bytes)] ==
            IF i + 2 > Len(bytes) THEN <<>>
            ELSE LET end == i + 2 + Length(SubSeq(bytes, i + 1, i + 2))
                 IN IF end > Len(bytes) \/ end = i + 2 THEN <<>>
                    ELSE <<SubSeq(bytes, i + 3, end)>> \o from[end]
    IN from[0]
Understands(m) == m \in Understood
Queue == INSTANCE MessageQueue WITH queue <- IF broken THEN <<>> ELSE InFrames(Unread)
ImplementsMessageQueue == Queue!Spec

(* Every message that was sent is taken by a receiver that keeps calling,  *)
(* unless the connection has broken in the middle of a message.            *)
EveryMessageArrives ==
    \A k \in 1 .. MaxSends : accepted >= k ~> (broken \/ taken >= k)

===========================================================================
