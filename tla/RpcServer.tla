----------------------------- MODULE RpcServer -----------------------------
(***************************************************************************)
(* The server that rpcgen writes (rpc_svcout.c): main registers every      *)
(* version on every transport and calls svc_run, the dispatcher answers one*)
(* request after the other, and closedown, the handler of SIGALRM, ends a  *)
(* server that a port monitor has started and nobody has called for a while*)
(*                                                                         *)
(* The process has one thread. The signal comes between any two of its     *)
(* steps. svc_run, the portmapper and the clients are external: svc_run    *)
(* accepts connections, reads a request and calls the dispatcher.          *)
(***************************************************************************)
EXTENDS Naturals, Sequences, FiniteSets

CONSTANTS
    Versions,      \* the versions of the programs in the .x file
    Confs,         \* the servers and how they are started, see ConfOK
    MaxRequests,   \* bound: requests that clients send
    MaxConns,      \* bound: connections accepted at a time
    MaxFaults      \* bound: calls of the system that fail

(* mode: what rpcgen was told, "inetd" (-I), "pm" (port monitor, -5, which *)
(* is TIRPC) or "plain"; what -I and -5 write together does not compile,   *)
(* _rpcfdtype is not declared. nettypes: the -s options in their order.    *)
(* closetime: -K. monitor: whether descriptor 0 is a port monitor's socket,*)
(* fdtype and connected what kind of socket. nullproc: a version has a     *)
(* procedure 0 of its own. nofile: getrlimit says no file can be open.     *)
Transports == {"udp", "tcp"}
ConfOK(c) ==
    /\ c.mode \in {"inetd", "pm", "plain"}
    /\ c.mode = "plain" => ~c.monitor
    /\ c.nettypes \in Seq(Transports) /\ c.nettypes # <<>>
    /\ c.closetime \in {"0", "-1", "120"}
    /\ c.fdtype \in IF c.monitor THEN Transports ELSE {"none"}
    /\ c.connected => c.mode = "pm" /\ c.fdtype = "tcp"
    /\ c.nullproc \in BOOLEAN /\ c.nofile \in BOOLEAN
ASSUME ConfsAssumption == \A c \in Confs : ConfOK(c)

VARIABLES
    conf,          \* one of Confs
    pc,            \* where main or the dispatcher is
    todo,          \* transports main has not created yet
    unregistered,  \* versions it has not registered on the last one
    pmap,          \* the portmapper: who serves a version on a transport
    transp,        \* the handle: "garbage", "null" or "set"
    fds,           \* how many descriptors are in svc_fdset
    waiting,       \* requests that clients have sent
    sent,          \* how many they have sent so far
    rpcsvcstate,   \* _rpcsvcstate
    alarm,         \* SIGALRM will come, and finds closedown
    args,          \* the arguments of the request: "none", "decoded", "freed", "broken"
    result,        \* what the procedure has returned: "none", "NULL", "object", "void"
    unsent,        \* history: svc_sendreply has failed for this request
    answers,       \* history: the answers to the request in the dispatcher
    kept,          \* history: versions whose pmap_unset was refused
    called,        \* history: a request was dispatched since the last SIGALRM
    faults         \* calls that have failed

startVars == <<todo, unregistered, pmap, kept, transp>>
requestVars == <<args, result, unsent, answers>>
vars == <<conf, pc, startVars, fds, waiting, sent, rpcsvcstate, alarm, requestVars, called, faults>>

timerflag  == conf.closetime = "120" /\ conf.mode # "plain"
exitnow    == conf.closetime = "0"
rpcpmstart == conf.monitor
Running == pc \notin {"exit0", "exit1", "closed"}
Serving == pc \in {"select", "read", "switch", "getargs", "call", "send", "free"}

Refused == faults < MaxFaults /\ faults' = faults + 1
Fails(from) ==
    /\ pc = from /\ Refused
    /\ pc' = "exit1"
    /\ UNCHANGED <<conf, startVars, fds, waiting, sent, rpcsvcstate, alarm, requestVars, called>>
Goto(from, to) == pc = from /\ pc' = to

---------------------------------------------------------------------------
(* main.                                                                   *)

(* pmap_unset of every version but those it is refused for: on no transport*)
(* is it registered. main does not look at what pmap_unset returns.        *)
Unset(refused) ==
    [v \in Versions |-> IF v \in refused THEN pmap[v] ELSE [t \in Transports |-> "nobody"]]

(* A port monitor's socket is looked at, anyone else's server goes into the*)
(* background; both may fail. Without TIRPC the old registrations go, as   *)
(* far as the portmapper lets them.                                        *)
Unsets == conf.mode # "pm" /\ ~conf.monitor
Start ==
    /\ Goto("main", IF conf.mode = "pm" /\ conf.monitor THEN "handle0" ELSE "create")
    /\ ~(conf.mode = "pm" /\ ~conf.monitor /\ conf.nofile)
    /\ \E refused \in IF Unsets THEN SUBSET Versions ELSE {{}} :
          /\ faults + Cardinality(refused) <= MaxFaults
          /\ faults' = faults + Cardinality(refused)
          /\ pmap' = IF Unsets THEN Unset(refused) ELSE pmap
          /\ kept' = refused
    /\ UNCHANGED <<conf, todo, unregistered, transp, fds, waiting, sent, rpcsvcstate, alarm,
                   requestVars, called>>
StartFails == conf.mode # "plain" /\ Fails("main")
(* The child of a server in the background finds no descriptor to close.   *)
NoDescriptors ==
    /\ Goto("main", "exit1")
    /\ conf.mode = "pm" /\ ~conf.monitor /\ conf.nofile
    /\ UNCHANGED <<conf, startVars, fds, waiting, sent, rpcsvcstate, alarm, requestVars, called, faults>>

(* write_inetd_register, write_nettype_register, write_netid_register: a   *)
(* transport, and every version on it. A server on the socket of inetd     *)
(* creates the transport of its kind only.                                 *)
\* Mutant: _rpcfdtype == 0 is not asked, and a server of its own skips all.
MutantWanted(t) == conf.mode = "inetd" => t = conf.fdtype
Wanted(t) == conf.mode = "inetd" /\ conf.monitor => t = conf.fdtype
Create ==
    /\ Goto("create", "register") /\ todo # <<>> /\ Wanted(Head(todo))
    /\ transp' = "set" /\ fds' = IF conf.monitor THEN 1 ELSE fds + 1
    /\ unregistered' = Versions
    /\ UNCHANGED <<conf, todo, pmap, kept, waiting, sent, rpcsvcstate, alarm, requestVars, called, faults>>
CreateFails == todo # <<>> /\ Wanted(Head(todo)) /\ Fails("create")
SkipTransport ==
    /\ Goto("create", "create") /\ todo # <<>> /\ ~Wanted(Head(todo))
    /\ todo' = Tail(todo)
    /\ UNCHANGED <<conf, unregistered, pmap, kept, transp, fds, waiting, sent, rpcsvcstate, alarm,
                   requestVars, called, faults>>
(* write_pm_most: the port monitor's socket is the only transport.         *)
CreateOn0 ==
    /\ Goto("handle0", "register")
    /\ transp' = "set" /\ fds' = 1 /\ todo' = <<conf.fdtype>> /\ unregistered' = Versions
    /\ UNCHANGED <<conf, pmap, kept, waiting, sent, rpcsvcstate, alarm, requestVars, called, faults>>
CreateOn0Fails == Fails("handle0")

(* proto is 0 on a port monitor's socket: the portmapper is not told. It   *)
(* gives nobody what another server has. With TIRPC the transport is unset *)
(* first, by main (rpcb_unset) or in svc_create; when that is refused the  *)
(* registration is.                                                        *)
Taken(v) == Unsets /\ pmap[v][Head(todo)] = "other"
Register ==
    /\ pc = "register"
    /\ \E v \in unregistered :
          /\ ~Taken(v)
          /\ unregistered' = unregistered \ {v}
          /\ pmap' = IF conf.monitor THEN pmap ELSE [pmap EXCEPT ![v][Head(todo)] = "me"]
    /\ UNCHANGED <<conf, pc, todo, kept, transp, fds, waiting, sent, rpcsvcstate, alarm, requestVars,
                   called, faults>>
RegisterFails == unregistered # {} /\ Fails("register")
RegisterTaken ==
    /\ Goto("register", "exit1") /\ \E v \in unregistered : Taken(v)
    /\ UNCHANGED <<conf, startVars, fds, waiting, sent, rpcsvcstate, alarm, requestVars, called, faults>>
Registered ==
    /\ Goto("register", "create") /\ unregistered = {}
    /\ todo' = Tail(todo)
    /\ UNCHANGED <<conf, unregistered, pmap, kept, transp, fds, waiting, sent, rpcsvcstate, alarm,
                   requestVars, called, faults>>

(* write_rest and the end of write_pm_most: the handle is tested for NULL  *)
(* with -I only, and is uninitialised when no transport was created. The   *)
(* timer is set for a server that a port monitor has started; with TIRPC,  *)
(* unless it was given a connection (pmclose).                             *)
Timed ==
    /\ timerflag /\ rpcpmstart
    /\ conf.mode = "pm" => ~conf.connected
Run ==
    /\ Goto("create", "select") /\ todo = <<>>
    /\ alarm' = Timed
    /\ UNCHANGED <<conf, startVars, fds, waiting, sent, rpcsvcstate, requestVars, called, faults>>
NoHandle ==
    /\ Goto("create", "exit1") /\ todo = <<>>
    /\ conf.mode = "inetd" /\ transp = "garbage"
    /\ UNCHANGED <<conf, startVars, fds, waiting, sent, rpcsvcstate, alarm, requestVars, called, faults>>

---------------------------------------------------------------------------
(* svc_run and the clients.                                                *)
Send ==
    /\ Serving /\ fds > 0 /\ sent < MaxRequests
    /\ sent' = sent + 1 /\ waiting' = waiting + 1
    /\ UNCHANGED <<conf, pc, startVars, fds, rpcsvcstate, alarm, requestVars, called, faults>>

Listeners == IF conf.monitor THEN (IF conf.connected THEN 0 ELSE 1) ELSE Len(conf.nettypes)
Listening == \/ conf.monitor /\ conf.fdtype = "tcp" /\ ~conf.connected
             \/ ~conf.monitor /\ \E i \in DOMAIN conf.nettypes : conf.nettypes[i] = "tcp"
Connect ==
    /\ pc = "select" /\ fds >= Listeners /\ Listening /\ fds < Listeners + MaxConns
    /\ fds' = fds + 1
    /\ UNCHANGED <<conf, pc, startVars, waiting, sent, rpcsvcstate, alarm, requestVars, called, faults>>
Disconnect ==
    /\ pc = "select" /\ fds > Listeners
    /\ fds' = fds - 1
    /\ UNCHANGED <<conf, pc, startVars, waiting, sent, rpcsvcstate, alarm, requestVars, called, faults>>
Receive ==
    /\ Goto("select", "read") /\ waiting > 0
    /\ waiting' = waiting - 1
    /\ UNCHANGED <<conf, startVars, fds, sent, rpcsvcstate, alarm, requestVars, called, faults>>
(* svc_run returns when there is nothing to wait for, or poll fails.       *)
SvcRunReturns ==
    /\ Goto("select", "exit1")
    /\ IF fds = 0 THEN UNCHANGED faults ELSE Refused
    /\ UNCHANGED <<conf, startVars, fds, waiting, sent, rpcsvcstate, alarm, requestVars, called>>

---------------------------------------------------------------------------
(* write_program: the dispatcher of a version.                             *)
_IDLE == 0
_SERVED == 1
_SERVING == 2

Dispatch ==
    /\ Goto("read", "switch")
    /\ rpcsvcstate' = IF timerflag THEN _SERVING ELSE rpcsvcstate
    /\ args' = "none" /\ result' = "none" /\ unsent' = FALSE /\ answers' = 0 /\ called' = TRUE
    /\ UNCHANGED <<conf, startVars, fds, waiting, sent, alarm, faults>>

(* print_return, with the answers given on the way.                        *)
\* Mutant: the server is idle again when it has answered.
MutantReturn(from, n) ==
    /\ Goto(from, IF exitnow THEN "exit0" ELSE "select")
    /\ rpcsvcstate' = IF timerflag THEN _IDLE ELSE rpcsvcstate
    /\ answers' = answers + n
    /\ UNCHANGED <<conf, startVars, fds, waiting, sent, alarm, called>>
Return(from, n) ==
    /\ Goto(from, IF exitnow THEN "exit0" ELSE "select")
    /\ rpcsvcstate' = IF timerflag THEN _SERVED ELSE rpcsvcstate
    /\ answers' = answers + n
    /\ UNCHANGED <<conf, startVars, fds, waiting, sent, alarm, called>>
Goes(from, to) ==
    /\ Goto(from, to)
    /\ UNCHANGED <<conf, startVars, fds, waiting, sent, rpcsvcstate, alarm, called>>

(* case NULLPROC, unless a procedure of the version has number 0. What     *)
(* svc_sendreply returns is not looked at, so that a reply that cannot be  *)
(* sent leaves the client without any.                                     *)
\* Mutant: NULLPROC breaks out of the switch.
MutantNull ==
    /\ ~conf.nullproc
    /\ Goes("switch", "getargs") /\ answers' = answers + 1 /\ result' = "void"
    /\ UNCHANGED <<args, unsent, faults>>
Null ==
    /\ ~conf.nullproc
    /\ Return("switch", 1) /\ result' = "void"
    /\ UNCHANGED <<args, unsent, faults>>
NullFails ==
    /\ ~conf.nullproc
    /\ Return("switch", 0) /\ Refused
    /\ result' = "void" /\ unsent' = TRUE /\ UNCHANGED args
Procedure == Goes("switch", "getargs") /\ UNCHANGED <<requestVars, faults>>
(* svcerr_noproc; the functions svcerr_* return nothing, they are taken to *)
(* answer.                                                                 *)
NoProc == Return("switch", 1) /\ UNCHANGED <<args, result, unsent, faults>>

GetArgs ==
    /\ Goes("getargs", "call")
    /\ args' = "decoded" /\ UNCHANGED <<result, unsent, answers, faults>>
(* svcerr_decode; what was decoded before the failure is not freed.        *)
BadArgs == Return("getargs", 1) /\ args' = "broken" /\ UNCHANGED <<result, unsent, faults>>

Call ==
    /\ Goes("call", "send")
    /\ result' \in {"NULL", "object"}
    /\ UNCHANGED <<args, unsent, answers, faults>>
(* No reply for NULL. A reply that cannot be sent is followed by           *)
(* svcerr_systemerr.                                                       *)
Reply ==
    /\ Goes("send", "free")
    /\ answers' = IF result = "NULL" THEN answers ELSE answers + 1
    /\ UNCHANGED <<args, result, unsent, faults>>
ReplyFails ==
    /\ result # "NULL"
    /\ Goes("send", "free") /\ Refused
    /\ answers' = answers + 1 /\ unsent' = TRUE
    /\ UNCHANGED <<args, result>>
FreeArgs == Return("free", 0) /\ args' = "freed" /\ UNCHANGED <<result, unsent, faults>>
FreeArgsFails == Fails("free")

---------------------------------------------------------------------------
(* closedown, between any two steps of the process. A server of datagrams  *)
(* ends when it is idle, another one when it has no connection. Without a  *)
(* limit to look for, the handler returns and is not set up again.         *)
Alarmed(to, again) ==
    /\ Running /\ alarm
    /\ pc' = to /\ alarm' = again
    /\ called' = FALSE
    /\ UNCHANGED <<conf, startVars, fds, waiting, sent, requestVars, faults>>
NoLimit == conf.mode = "pm" /\ conf.nofile
Unneeded == conf.fdtype = "udp" \/ (~NoLimit /\ fds <= 1)

Close ==
    /\ rpcsvcstate = _IDLE /\ Unneeded
    /\ Alarmed("closed", FALSE) /\ UNCHANGED rpcsvcstate
GiveUp ==
    /\ rpcsvcstate = _IDLE /\ conf.fdtype # "udp" /\ NoLimit
    /\ Alarmed(pc, FALSE) /\ UNCHANGED rpcsvcstate
\* Mutant: the handler is set up again only when the server was idle.
MutantStay ==
    /\ rpcsvcstate = _IDLE => ~Unneeded /\ ~NoLimit
    /\ Alarmed(pc, rpcsvcstate = _IDLE)
    /\ rpcsvcstate' = IF rpcsvcstate = _SERVED THEN _IDLE ELSE rpcsvcstate
Stay ==
    /\ rpcsvcstate = _IDLE => ~Unneeded /\ ~NoLimit
    /\ Alarmed(pc, TRUE)
    /\ rpcsvcstate' = IF rpcsvcstate = _SERVED THEN _IDLE ELSE rpcsvcstate

---------------------------------------------------------------------------
Init ==
    /\ conf \in Confs
    /\ pc = "main" /\ todo = conf.nettypes /\ unregistered = {}
    /\ \E owner \in {"nobody", "other"} :
          pmap = [v \in Versions |-> [t \in Transports |-> owner]]
    /\ kept = {}
    /\ transp = "garbage" /\ fds = 0 /\ waiting = 0 /\ sent = 0
    /\ rpcsvcstate = _IDLE /\ alarm = FALSE
    /\ args = "none" /\ result = "none" /\ unsent = FALSE /\ answers = 0
    /\ called = FALSE /\ faults = 0

MainStep ==
    \/ Start \/ NoDescriptors \/ Create \/ SkipTransport \/ CreateOn0
    \/ Register \/ RegisterTaken \/ Registered \/ Run \/ NoHandle
ServeStep ==
    \/ Receive \/ Dispatch \/ Null \/ Procedure \/ NoProc \/ GetArgs \/ BadArgs
    \/ Call \/ Reply \/ FreeArgs
Failure ==
    \/ StartFails \/ CreateFails \/ CreateOn0Fails \/ RegisterFails
    \/ NullFails \/ ReplyFails \/ FreeArgsFails \/ SvcRunReturns
Client == Send \/ Connect \/ Disconnect
SigAlarm == Close \/ GiveUp \/ Stay

Next == MainStep \/ ServeStep \/ Failure \/ Client \/ SigAlarm

(* The process runs, the procedures of the service return, and a timer that*)
(* is set goes off.                                                        *)
Spec == Init /\ [][Next]_vars /\ WF_vars(MainStep \/ ServeStep) /\ WF_vars(SigAlarm)

---------------------------------------------------------------------------
(* Properties.                                                             *)

(* A request is answered exactly once, on every way through write_program's*)
(* dispatcher. Two go unanswered: one whose procedure returns NULL, and a  *)
(* ping (NULLPROC) whose reply cannot be sent; a procedure whose reply     *)
(* cannot be sent is answered by an error. Decoded arguments are freed.    *)
RequestSettled ==
    pc = "select" /\ (called \/ answers > 0) =>
        /\ answers = IF result = "NULL" \/ (result = "void" /\ unsent) THEN 0 ELSE 1
        /\ args # "decoded"

(* closedown never ends the server while it is in the dispatcher, and only *)
(* when it has dispatched nothing since the last SIGALRM: it has rested for*)
(* the whole time (the three states of _rpcsvcstate). It never ends a      *)
(* server that has a connection besides the socket it was started on. A    *)
(* request that svc_run has read and not yet dispatched does not count.    *)
ClosesOnlyWhenIdle ==
    [][pc' = "closed" => /\ pc \in {"select", "read"} /\ ~called
                         /\ conf.fdtype = "tcp" => fds <= 1]_vars

(* A server with a timer that nobody calls and nobody is connected to ends *)
(* (write_timeout_func), provided getrlimit knows a limit.                 *)
Unused == Running /\ waiting = 0 /\ fds <= 1
IdleServerExits == Timed /\ ~NoLimit => []<>~Unused

(* Once it serves, a server that no port monitor has started is registered *)
(* for every version on every transport it was written for, whoever was    *)
(* before, and on no other. With -I or without TIRPC nobody is registered  *)
(* for them on the other transports either, except for a version whose     *)
(* pmap_unset was refused: there the old server stays reachable beside it. *)
Asked == {conf.nettypes[i] : i \in DOMAIN conf.nettypes}
ServesWhatIsRegistered ==
    Serving /\ ~conf.monitor =>
        \A v \in Versions, t \in Transports :
            IF t \in Asked THEN pmap[v][t] = "me"
            ELSE /\ pmap[v][t] # "me"
                 /\ conf.mode # "pm" /\ pmap[v][t] = "other" => v \in kept

===========================================================================
