---------------------------- MODULE MCRpcServer ----------------------------
(***************************************************************************)
(* Every way a generated server is written and started, for RpcServer.     *)
(***************************************************************************)
EXTENDS RpcServer

Nettypes == {<<"udp">>, <<"tcp">>, <<"udp", "tcp">>}
TestConfs ==
    {c \in [mode : {"inetd", "pm", "plain"}, nettypes : Nettypes,
            closetime : {"0", "-1", "120"}, monitor : BOOLEAN, fdtype : {"none"} \cup Transports,
            connected : BOOLEAN, nullproc : BOOLEAN, nofile : BOOLEAN] :
        /\ c.fdtype \in IF c.monitor THEN Transports ELSE {"none"}
        /\ ConfOK(c)
        /\ c.nofile => c.mode = "pm" /\ c.closetime = "120"
        /\ c.nullproc => c.mode = "inetd"}

=============================================================================
