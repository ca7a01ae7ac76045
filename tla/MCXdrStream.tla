---------------------------- MODULE MCXdrStream ----------------------------
(***************************************************************************)
(* Messages of one byte, of as many as fit, of one more, of none, and one  *)
(* that only the sender's filter knows.                                    *)
(***************************************************************************)
EXTENDS XdrStream

TestMessages == {<<0>>, <<2, 0, 1, 2>>, <<3, 0, 1, 2, 3, 0>>, <<1, 0, 1, 2, 3, 0, 1>>, <<>>}
TestUnderstood == {<<0>>, <<3, 0, 1, 2, 3, 0>>}

=============================================================================
