---------------------------- MODULE MessageQueue ----------------------------
(***************************************************************************)
(* What xdr_stream_send and xdr_stream_recv promise: a queue of messages,  *)
(* from which the receiver takes them one by one; one that its filter does *)
(* not understand is taken and lost. A connection that has failed in the   *)
(* middle of a message promises nothing any more.                          *)
(***************************************************************************)
EXTENDS Sequences

CONSTANTS Messages, Understands(_)
VARIABLES queue, delivered, broken

Init == queue = <<>> /\ delivered = <<>> /\ broken = FALSE

Put ==
    /\ ~broken
    /\ \E m \in Messages : queue' = Append(queue, m)
    /\ UNCHANGED <<delivered, broken>>
Take ==
    /\ ~broken /\ queue # <<>>
    /\ queue' = Tail(queue)
    /\ delivered' = IF Understands(Head(queue)) THEN Append(delivered, Head(queue)) ELSE delivered
    /\ UNCHANGED broken
Break ==
    /\ broken' = TRUE /\ queue' = <<>>
    /\ UNCHANGED delivered
Broken ==
    /\ broken /\ broken'
    /\ UNCHANGED queue
    /\ \E m \in Messages : delivered' = Append(delivered, m)

Next == Put \/ Take \/ Break \/ Broken
Spec == Init /\ [][Next]_<<queue, delivered, broken>>

=============================================================================
