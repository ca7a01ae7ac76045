-------------------------- MODULE RpcServer_proofs --------------------------
(***************************************************************************)
(* Proofs about RpcServer, for every set of versions, every way a server is*)
(* written and started, and any number of requests, connections and calls  *)
(* that fail.                                                              *)
(***************************************************************************)
EXTENDS RpcServer, SequenceTheorems, TLAPS

Starting    == {"main", "create", "register", "handle0"}
Resting     == {"select", "read"}
Dispatching == {"switch", "getargs", "call", "send", "free"}
Final       == {"exit0", "exit1", "closed"}

---------------------------------------------------------------------------
(* What the inductive invariants are made of.                              *)

(* The types the arithmetic and the updates rest on.                       *)
ServerTypes ==
    /\ conf \in Confs
    /\ pc \in Starting \cup Resting \cup Dispatching \cup Final
    /\ todo \in Seq(Transports)
    /\ pc = "register" => todo # <<>>
    /\ pc = "handle0" => conf.monitor
    /\ unregistered \subseteq Versions
    /\ pmap \in [Versions -> [Transports -> {"nobody", "other", "me"}]]

(* How far the dispatcher has come with its request. What print_return     *)
(* leaves behind is true until the next request is dispatched.             *)
RequestProgress ==
    /\ pc \in Starting => ~called /\ answers = 0
    /\ pc \in {"switch", "getargs", "call"} => answers = 0 /\ result = "none" /\ ~unsent
    /\ pc \in {"send", "free"} => result \in {"NULL", "object"}
    /\ pc \in {"switch", "getargs"} => args = "none"
    /\ pc = "send" => answers = 0
    /\ pc = "free" => answers = IF result = "NULL" THEN 0 ELSE 1

(* The state the alarm looks at: _SERVING in the dispatcher, _SERVED after *)
(* it until the next alarm, and there is no alarm without the timer.       *)
StateIsProgress ==
    /\ alarm => timerflag /\ pc \notin Starting
    /\ timerflag /\ pc \in Dispatching => rpcsvcstate = _SERVING
    /\ timerflag /\ pc \in Resting /\ called => rpcsvcstate = _SERVED

(* A server of its own: what is asked for is registered or still to do,    *)
(* nothing else ever is, and once main has begun nobody else is there      *)
(* (without TIRPC), unless the portmapper has refused to forget him.       *)
InTodo(s) == {s[i] : i \in DOMAIN s}
Pending(v, t) ==
    \/ pc \in {"main", "create"} /\ t \in InTodo(todo)
    \/ pc = "register" /\ todo # <<>> /\
          (t \in InTodo(Tail(todo)) \/ (t = Head(todo) /\ v \in unregistered))
AskedIsRegistered ==
    ~conf.monitor /\ pc \notin Final =>
        /\ pc = "main" => InTodo(todo) = Asked
        /\ pc \in Starting => InTodo(todo) \subseteq Asked
        /\ \A v \in Versions, t \in Asked : pmap[v][t] = "me" \/ Pending(v, t)
        /\ \A v \in Versions, t \in Transports \ Asked : pmap[v][t] # "me"
        /\ pc # "main" /\ conf.mode # "pm" =>
              \A v \in Versions, t \in Transports \ Asked : pmap[v][t] = "other" => v \in kept

(***************************************************************************)
(* Facts about the sequence of the transports that are still to do.        *)
(***************************************************************************)
LEMMA HeadOfTodo ==
    ASSUME NEW T, NEW s \in Seq(T), s # <<>>
    PROVE  /\ Head(s) \in T /\ Tail(s) \in Seq(T)
           /\ InTodo(s) = {Head(s)} \cup InTodo(Tail(s))
<1>1. /\ Head(s) \in T /\ Tail(s) \in Seq(T) /\ Len(Tail(s)) = Len(s) - 1
      /\ \A i \in 1 .. Len(Tail(s)) : Tail(s)[i] = s[i + 1]
  BY HeadTailProperties
<1>2. Len(s) \in Nat \ {0} /\ DOMAIN s = 1 .. Len(s) /\ Head(s) = s[1]
  BY EmptySeq
<1>3. DOMAIN Tail(s) = 1 .. Len(s) - 1
  BY <1>1
<1>4. ASSUME NEW i \in DOMAIN s PROVE s[i] = Head(s) \/ s[i] \in InTodo(Tail(s))
  <2>1. CASE i = 1
    BY <2>1, <1>2
  <2>2. CASE i # 1
    <3>1. i - 1 \in DOMAIN Tail(s) /\ i - 1 + 1 = i
      BY <2>2, <1>2, <1>3
    <3>2. Tail(s)[i - 1] = s[i]
      BY <3>1, <1>1, <1>3
    <3>3. QED
      BY <3>1, <3>2 DEF InTodo
  <2>3. QED
    BY <2>1, <2>2
<1>5. ASSUME NEW i \in DOMAIN Tail(s) PROVE i + 1 \in DOMAIN s /\ Tail(s)[i] = s[i + 1]
  BY <1>1, <1>2, <1>3
<1>6. 1 \in DOMAIN s
  BY <1>2
<1>7. InTodo(s) \subseteq {Head(s)} \cup InTodo(Tail(s))
  BY <1>4 DEF InTodo
<1>8. Head(s) \in InTodo(s)
  BY <1>2, <1>6 DEF InTodo
<1>9. InTodo(Tail(s)) \subseteq InTodo(s)
  <2>1. SUFFICES ASSUME NEW i \in DOMAIN Tail(s) PROVE Tail(s)[i] \in InTodo(s)
    BY DEF InTodo
  <2>2. QED
    BY <1>5 DEF InTodo
<1>10. QED
  BY <1>1, <1>7, <1>8, <1>9

LEMMA OneInTodo ==
    ASSUME NEW T, NEW t \in T
    PROVE  <<t>> \in Seq(T) /\ <<t>> # <<>> /\ Len(<<t>>) = 1 /\ Head(<<t>>) = t
  OBVIOUS

(***************************************************************************)
(* Once main has reached svc_run, no step touches what main has set up, nor*)
(* does a failure before that; and nothing leads back.                     *)
(***************************************************************************)
LEMMA OnlyMainRegisters ==
    ASSUME ServeStep \/ Failure \/ Client \/ SigAlarm
    PROVE  /\ UNCHANGED <<conf, startVars>>
           /\ \/ pc' = pc \/ pc' \in Final
              \/ pc \in Resting \cup Dispatching /\ pc' \in Resting \cup Dispatching
<1> USE DEF Goto, Resting, Dispatching, Final
<1>1. CASE Receive
  BY <1>1 DEF Receive
<1>2. CASE Dispatch
  BY <1>2 DEF Dispatch
<1>3. CASE Null
  BY <1>3 DEF Null, Return, exitnow
<1>4. CASE Procedure
  BY <1>4 DEF Procedure, Goes
<1>5. CASE NoProc
  BY <1>5 DEF NoProc, Return, exitnow
<1>6. CASE GetArgs
  BY <1>6 DEF GetArgs, Goes
<1>7. CASE BadArgs
  BY <1>7 DEF BadArgs, Return, exitnow
<1>8. CASE Call
  BY <1>8 DEF Call, Goes
<1>9. CASE Reply
  BY <1>9 DEF Reply, Goes
<1>10. CASE FreeArgs
  BY <1>10 DEF FreeArgs, Return, exitnow
<1>11. CASE StartFails
  BY <1>11 DEF StartFails, Fails
<1>12. CASE CreateFails
  BY <1>12 DEF CreateFails, Fails
<1>13. CASE CreateOn0Fails
  BY <1>13 DEF CreateOn0Fails, Fails
<1>14. CASE RegisterFails
  BY <1>14 DEF RegisterFails, Fails
<1>15. CASE ReplyFails \/ NullFails
  BY <1>15 DEF ReplyFails, Goes, NullFails, Return, exitnow
<1>16. CASE FreeArgsFails
  BY <1>16 DEF FreeArgsFails, Fails
<1>17. CASE SvcRunReturns
  BY <1>17 DEF SvcRunReturns
<1>18. CASE Send
  BY <1>18 DEF Send
<1>19. CASE Connect
  BY <1>19 DEF Connect
<1>20. CASE Disconnect
  BY <1>20 DEF Disconnect
<1>21. CASE Close
  BY <1>21 DEF Close, Alarmed
<1>22. CASE GiveUp
  BY <1>22 DEF GiveUp, Alarmed
<1>23. CASE Stay
  BY <1>23 DEF Stay, Alarmed
<1>24. QED
  BY <1>1, <1>2, <1>3, <1>4, <1>5, <1>6, <1>7, <1>8, <1>9, <1>10, <1>11,
     <1>12, <1>13, <1>14, <1>15, <1>16, <1>17, <1>18, <1>19, <1>20, <1>21,
     <1>22, <1>23 DEF ServeStep, Failure, Client, SigAlarm

(***************************************************************************)
(* Types.                                                                  *)
(***************************************************************************)
LEMMA TypesInit == Init => ServerTypes
  BY ConfsAssumption DEF Init, ServerTypes, Starting, Transports, ConfOK

LEMMA TypesStep == ServerTypes /\ [Next]_vars => ServerTypes'
<1> SUFFICES ASSUME ServerTypes, [Next]_vars PROVE ServerTypes'
  OBVIOUS
<1> USE DEF ServerTypes, Goto, Starting, Resting, Dispatching, Final
<1>1. CASE MainStep
  <2>1. CASE Start
    BY <2>1 DEF Start, Unset
  <2>2. CASE NoDescriptors
    BY <2>2 DEF NoDescriptors, startVars
  <2>3. CASE Create
    BY <2>3 DEF Create
  <2>4. CASE SkipTransport
    BY <2>4, HeadOfTodo DEF SkipTransport
  <2>5. CASE CreateOn0
    <3>1. conf.monitor /\ ConfOK(conf)
      BY <2>5, ConfsAssumption DEF CreateOn0
    <3>2. conf.fdtype \in Transports
      BY <3>1 DEF ConfOK
    <3>3. <<conf.fdtype>> \in Seq(Transports) /\ <<conf.fdtype>> # <<>>
      BY <3>2, OneInTodo
    <3>4. QED
      BY <2>5, <3>3 DEF CreateOn0
  <2>6. CASE Register
    <3>1. Head(todo) \in Transports
      BY <2>6, HeadOfTodo DEF Register
    <3>2. QED
      BY <2>6, <3>1 DEF Register
  <2>7. CASE Registered
    BY <2>7, HeadOfTodo DEF Registered
  <2>8. CASE Run
    BY <2>8 DEF Run, startVars
  <2>9. CASE NoHandle \/ RegisterTaken
    BY <2>9 DEF NoHandle, RegisterTaken, startVars
  <2>10. QED
    BY <1>1, <2>1, <2>2, <2>3, <2>4, <2>5, <2>6, <2>7, <2>8, <2>9 DEF MainStep
<1>2. CASE ServeStep \/ Failure \/ Client \/ SigAlarm
  BY <1>2, OnlyMainRegisters DEF startVars
<1>3. CASE UNCHANGED vars
  BY <1>3 DEF vars, startVars
<1>4. QED
  BY <1>1, <1>2, <1>3 DEF Next

(***************************************************************************)
(* A request: one case per action.                                         *)
(***************************************************************************)
LEMMA RequestInit == Init => RequestProgress /\ RequestSettled
  BY DEF Init, RequestProgress, RequestSettled, Starting

LEMMA RequestStep ==
    RequestProgress /\ RequestSettled /\ [Next]_vars => (RequestProgress /\ RequestSettled)'
<1> SUFFICES ASSUME RequestProgress, RequestSettled, [Next]_vars
             PROVE  RequestProgress' /\ RequestSettled'
  OBVIOUS
<1> USE DEF RequestProgress, RequestSettled, Starting, Goto, startVars, requestVars
<1>1. CASE MainStep
  <2>1. CASE Start
    BY <2>1 DEF Start
  <2>2. CASE NoDescriptors
    BY <2>2 DEF NoDescriptors
  <2>3. CASE Create
    BY <2>3 DEF Create
  <2>4. CASE SkipTransport
    BY <2>4 DEF SkipTransport
  <2>5. CASE CreateOn0
    BY <2>5 DEF CreateOn0
  <2>6. CASE Register
    BY <2>6 DEF Register
  <2>7. CASE Registered
    BY <2>7 DEF Registered
  <2>8. CASE Run
    BY <2>8 DEF Run
  <2>9. CASE NoHandle \/ RegisterTaken
    BY <2>9 DEF NoHandle, RegisterTaken
  <2>10. QED
    BY <1>1, <2>1, <2>2, <2>3, <2>4, <2>5, <2>6, <2>7, <2>8, <2>9 DEF MainStep
<1>2. CASE ServeStep
  <2>1. CASE Receive
    BY <2>1 DEF Receive
  <2>2. CASE Dispatch
    BY <2>2 DEF Dispatch
  <2>3. CASE Null
    BY <2>3 DEF Null, Return, exitnow
  <2>4. CASE Procedure
    BY <2>4 DEF Procedure, Goes
  <2>5. CASE NoProc
    BY <2>5 DEF NoProc, Return, exitnow
  <2>6. CASE GetArgs
    BY <2>6 DEF GetArgs, Goes
  <2>7. CASE BadArgs
    BY <2>7 DEF BadArgs, Return, exitnow
  <2>8. CASE Call
    BY <2>8 DEF Call, Goes
  <2>9. CASE Reply
    BY <2>9 DEF Reply, Goes
  <2>10. CASE FreeArgs
    BY <2>10 DEF FreeArgs, Return, exitnow
  <2>11. QED
    BY <1>2, <2>1, <2>2, <2>3, <2>4, <2>5, <2>6, <2>7, <2>8, <2>9, <2>10 DEF ServeStep
<1>3. CASE Failure
  <2>1. CASE StartFails
    BY <2>1 DEF StartFails, Fails
  <2>2. CASE CreateFails
    BY <2>2 DEF CreateFails, Fails
  <2>3. CASE CreateOn0Fails
    BY <2>3 DEF CreateOn0Fails, Fails
  <2>4. CASE RegisterFails
    BY <2>4 DEF RegisterFails, Fails
  <2>5. CASE ReplyFails \/ NullFails
    BY <2>5 DEF ReplyFails, Goes, NullFails, Return, exitnow
  <2>6. CASE FreeArgsFails
    BY <2>6 DEF FreeArgsFails, Fails
  <2>7. CASE SvcRunReturns
    BY <2>7 DEF SvcRunReturns
  <2>8. QED
    BY <1>3, <2>1, <2>2, <2>3, <2>4, <2>5, <2>6, <2>7 DEF Failure
<1>4. CASE Client
  <2>1. CASE Send
    BY <2>1 DEF Send
  <2>2. CASE Connect
    BY <2>2 DEF Connect
  <2>3. CASE Disconnect
    BY <2>3 DEF Disconnect
  <2>4. QED
    BY <1>4, <2>1, <2>2, <2>3 DEF Client
<1>5. CASE SigAlarm
  <2>1. CASE Close
    BY <2>1 DEF Close, Alarmed
  <2>2. CASE GiveUp
    BY <2>2 DEF GiveUp, Alarmed
  <2>3. CASE Stay
    BY <2>3 DEF Stay, Alarmed
  <2>4. QED
    BY <1>5, <2>1, <2>2, <2>3 DEF SigAlarm
<1>6. CASE UNCHANGED vars
  BY <1>6 DEF vars
<1>7. QED
  BY <1>1, <1>2, <1>3, <1>4, <1>5, <1>6 DEF Next

(***************************************************************************)
(* The state the alarm looks at.                                           *)
(***************************************************************************)
LEMMA StateInit == Init => StateIsProgress
  BY DEF Init, StateIsProgress, Starting, Resting, Dispatching

LEMMA StateStep ==
    ServerTypes /\ RequestProgress /\ StateIsProgress /\ [Next]_vars => StateIsProgress'
<1> SUFFICES ASSUME ServerTypes, RequestProgress, StateIsProgress, [Next]_vars
             PROVE  StateIsProgress'
  OBVIOUS
<1> USE DEF StateIsProgress, Starting, Resting, Dispatching, Goto, startVars, requestVars,
            timerflag
<1>1. CASE MainStep
  <2>1. CASE Start
    BY <2>1 DEF Start
  <2>2. CASE NoDescriptors
    BY <2>2 DEF NoDescriptors
  <2>3. CASE Create
    BY <2>3 DEF Create
  <2>4. CASE SkipTransport
    BY <2>4 DEF SkipTransport
  <2>5. CASE CreateOn0
    BY <2>5 DEF CreateOn0
  <2>6. CASE Register
    BY <2>6 DEF Register
  <2>7. CASE Registered
    BY <2>7 DEF Registered
  <2>8. CASE Run
    BY <2>8 DEF Run, Timed, RequestProgress
  <2>9. CASE NoHandle \/ RegisterTaken
    BY <2>9 DEF NoHandle, RegisterTaken
  <2>10. QED
    BY <1>1, <2>1, <2>2, <2>3, <2>4, <2>5, <2>6, <2>7, <2>8, <2>9 DEF MainStep
<1>2. CASE ServeStep
  <2>1. CASE Receive
    BY <2>1 DEF Receive
  <2>2. CASE Dispatch
    BY <2>2 DEF Dispatch
  <2>3. CASE Null
    BY <2>3 DEF Null, Return, exitnow
  <2>4. CASE Procedure
    BY <2>4 DEF Procedure, Goes
  <2>5. CASE NoProc
    BY <2>5 DEF NoProc, Return, exitnow
  <2>6. CASE GetArgs
    BY <2>6 DEF GetArgs, Goes
  <2>7. CASE BadArgs
    BY <2>7 DEF BadArgs, Return, exitnow
  <2>8. CASE Call
    BY <2>8 DEF Call, Goes
  <2>9. CASE Reply
    BY <2>9 DEF Reply, Goes
  <2>10. CASE FreeArgs
    BY <2>10 DEF FreeArgs, Return, exitnow
  <2>11. QED
    BY <1>2, <2>1, <2>2, <2>3, <2>4, <2>5, <2>6, <2>7, <2>8, <2>9, <2>10 DEF ServeStep
<1>3. CASE Failure
  <2>1. CASE StartFails
    BY <2>1 DEF StartFails, Fails
  <2>2. CASE CreateFails
    BY <2>2 DEF CreateFails, Fails
  <2>3. CASE CreateOn0Fails
    BY <2>3 DEF CreateOn0Fails, Fails
  <2>4. CASE RegisterFails
    BY <2>4 DEF RegisterFails, Fails
  <2>5. CASE ReplyFails \/ NullFails
    BY <2>5 DEF ReplyFails, Goes, NullFails, Return, exitnow
  <2>6. CASE FreeArgsFails
    BY <2>6 DEF FreeArgsFails, Fails
  <2>7. CASE SvcRunReturns
    BY <2>7 DEF SvcRunReturns
  <2>8. QED
    BY <1>3, <2>1, <2>2, <2>3, <2>4, <2>5, <2>6, <2>7 DEF Failure
<1>4. CASE Client
  <2>1. CASE Send
    BY <2>1 DEF Send
  <2>2. CASE Connect
    BY <2>2 DEF Connect
  <2>3. CASE Disconnect
    BY <2>3 DEF Disconnect
  <2>4. QED
    BY <1>4, <2>1, <2>2, <2>3 DEF Client
<1>5. CASE SigAlarm
  <2>1. CASE Close
    BY <2>1 DEF Close, Alarmed
  <2>2. CASE GiveUp
    BY <2>2 DEF GiveUp, Alarmed
  <2>3. CASE Stay
    BY <2>3 DEF Stay, Alarmed, _SERVED, _SERVING
  <2>4. QED
    BY <1>5, <2>1, <2>2, <2>3 DEF SigAlarm
<1>6. CASE UNCHANGED vars
  BY <1>6 DEF vars
<1>7. QED
  BY <1>1, <1>2, <1>3, <1>4, <1>5, <1>6 DEF Next

(***************************************************************************)
(* What is registered: only main's steps matter (OnlyMainRegisters), and a *)
(* server of its own skips no transport.                                   *)
(***************************************************************************)
LEMMA AskedInit == Init => AskedIsRegistered
  BY DEF Init, AskedIsRegistered, Starting, Asked, InTodo, Pending

LEMMA AskedStep == ServerTypes /\ AskedIsRegistered /\ [Next]_vars => AskedIsRegistered'
<1> SUFFICES ASSUME ServerTypes, AskedIsRegistered, [Next]_vars,
                    (~conf.monitor)', (pc \notin Final)'
             PROVE  AskedIsRegistered'
  BY DEF AskedIsRegistered
<1> USE DEF AskedIsRegistered, Goto, Starting, Final, Pending, Asked
<1>1. CASE MainStep
  <2>1. CASE Start
    <3>1. PICK refused \in SUBSET Versions :
              /\ pmap' = IF Unsets THEN Unset(refused) ELSE pmap
              /\ kept' = refused
      BY <2>1 DEF Start
    <3>2. /\ pc = "main" /\ pc' \in {"create", "handle0"} /\ UNCHANGED <<conf, todo>>
          /\ pc' = "handle0" => conf.monitor
      BY <2>1 DEF Start
    <3>3. ~conf.monitor /\ pc' = "create" /\ (Unsets <=> conf.mode # "pm")
      BY <3>2 DEF Unsets
    <3>4. ASSUME NEW v \in Versions, NEW t \in Transports
          PROVE  /\ pmap[v][t] # "me" => pmap'[v][t] # "me"
                 /\ Unsets /\ pmap'[v][t] = "other" => v \in kept'
      <4>1. CASE Unsets
        <5>1. pmap'[v] = IF v \in refused THEN pmap[v] ELSE [u \in Transports |-> "nobody"]
          BY <4>1, <3>1 DEF Unset
        <5>2. QED
          BY <5>1, <3>1
      <4>2. CASE ~Unsets
        BY <4>2, <3>1
      <4>3. QED
        BY <4>1, <4>2
    <3>5. Asked \subseteq Transports
      BY ConfsAssumption DEF ServerTypes, ConfOK
    <3>6. QED
      BY <3>2, <3>3, <3>4, <3>5
  <2>2. CASE NoDescriptors
    BY <2>2 DEF NoDescriptors
  <2>3. CASE Create
    <3>1. InTodo(todo) = {Head(todo)} \cup InTodo(Tail(todo))
      BY <2>3, HeadOfTodo DEF Create, ServerTypes
    <3>2. QED
      BY <2>3, <3>1 DEF Create
  <2>4. CASE SkipTransport
    BY <2>4 DEF SkipTransport, Wanted
  <2>5. CASE CreateOn0
    BY <2>5 DEF CreateOn0, ServerTypes
  <2>6. CASE Register
    <3>1. PICK v \in unregistered :
              /\ unregistered' = unregistered \ {v}
              /\ pmap' = [pmap EXCEPT ![v][Head(todo)] = "me"]
      BY <2>6 DEF Register
    <3>2. /\ InTodo(todo) = {Head(todo)} \cup InTodo(Tail(todo))
          /\ Head(todo) \in Transports /\ v \in Versions
      BY <2>6, HeadOfTodo DEF Register, ServerTypes
    <3>3. \A w \in Versions, t \in Transports :
              pmap'[w][t] = IF w = v /\ t = Head(todo) THEN "me" ELSE pmap[w][t]
      BY <3>1, <3>2 DEF ServerTypes
    <3>4. Asked \subseteq Transports
      BY ConfsAssumption DEF ServerTypes, ConfOK
    <3>5. /\ pc = "register" /\ pc' = "register" /\ todo # <<>>
          /\ UNCHANGED <<conf, todo>> /\ unregistered \subseteq Versions
      BY <2>6 DEF Register, ServerTypes
    <3>6. ASSUME NEW w \in Versions, NEW t \in Asked
          PROVE  pmap'[w][t] = "me" \/ Pending(w, t)'
      <4>1. pmap[w][t] = "me" \/ t \in InTodo(Tail(todo)) \/ (t = Head(todo) /\ w \in unregistered)
        BY <3>5
      <4>2. QED
        BY <4>1, <3>1, <3>3, <3>4, <3>5
    <3>7. ASSUME NEW w \in Versions, NEW t \in Transports \ Asked
          PROVE  pmap'[w][t] = pmap[w][t]
      <4>1. t # Head(todo)
        BY <3>2, <3>5
      <4>2. QED
        BY <4>1, <3>3
    <3>8. kept' = kept
      BY <2>6 DEF Register
    <3>9. QED
      BY <3>5, <3>6, <3>7, <3>8
  <2>7. CASE Registered
    <3>1. InTodo(todo) = {Head(todo)} \cup InTodo(Tail(todo))
      BY <2>7, HeadOfTodo DEF Registered, ServerTypes
    <3>2. QED
      BY <2>7, <3>1 DEF Registered
  <2>8. CASE Run
    <3>1. InTodo(todo) = {}
      BY <2>8 DEF Run, InTodo
    <3>2. QED
      BY <2>8, <3>1 DEF Run, startVars
  <2>9. CASE NoHandle \/ RegisterTaken
    BY <2>9 DEF NoHandle, RegisterTaken
  <2>10. QED
    BY <1>1, <2>1, <2>2, <2>3, <2>4, <2>5, <2>6, <2>7, <2>8, <2>9 DEF MainStep
<1>2. CASE ServeStep \/ Failure \/ Client \/ SigAlarm
  BY <1>2, OnlyMainRegisters DEF startVars, Resting, Dispatching
<1>3. CASE UNCHANGED vars
  BY <1>3 DEF vars, startVars
<1>4. QED
  BY <1>1, <1>2, <1>3 DEF Next

(***************************************************************************)
(* The server ends as "closed" in closedown alone.                         *)
(***************************************************************************)
LEMMA OnlyCloseCloses == Next /\ pc' = "closed" => Close
<1> SUFFICES ASSUME Next, pc' = "closed" PROVE Close
  OBVIOUS
<1> USE DEF Goto
<1>1. ~MainStep
  BY DEF MainStep, Start, NoDescriptors, Create, SkipTransport, CreateOn0, Register,
         RegisterTaken, Registered, Run, NoHandle
<1>2. ~ServeStep
  BY DEF ServeStep, Receive, Dispatch, Null, Procedure, NoProc, GetArgs, BadArgs, Call,
         Reply, FreeArgs, Return, Goes
<1>3. ~Failure
  BY DEF Failure, StartFails, CreateFails, CreateOn0Fails, RegisterFails, NullFails,
         ReplyFails, FreeArgsFails, SvcRunReturns, Fails, Goes, Return
<1>4. ~Client
  BY DEF Client, Send, Connect, Disconnect, Serving
<1>5. ~GiveUp /\ ~Stay
  BY DEF GiveUp, Stay, Alarmed, Running
<1>6. QED
  BY <1>1, <1>2, <1>3, <1>4, <1>5 DEF Next, SigAlarm

LEMMA IdleWhenClosed ==
    ServerTypes /\ StateIsProgress /\ Close =>
        /\ pc \in {"select", "read"} /\ ~called
        /\ conf.fdtype = "tcp" => fds <= 1
<1> SUFFICES ASSUME ServerTypes, StateIsProgress, Close
             PROVE  /\ pc \in {"select", "read"} /\ ~called
                    /\ conf.fdtype = "tcp" => fds <= 1
  OBVIOUS
<1>1. alarm /\ pc \notin Final /\ rpcsvcstate = _IDLE /\ Unneeded
  BY DEF Close, Alarmed, Running, Final
<1>2. timerflag /\ pc \in Resting \cup Dispatching
  BY <1>1 DEF StateIsProgress, ServerTypes
<1>3. pc \in Resting /\ ~called
  BY <1>1, <1>2 DEF StateIsProgress, _IDLE, _SERVED, _SERVING
<1>4. conf.fdtype = "tcp" => fds <= 1
  BY <1>1 DEF Unneeded
<1>5. QED
  BY <1>3, <1>4 DEF Resting

---------------------------------------------------------------------------
(* The theorems.                                                           *)

(***************************************************************************)
(* The inductive invariant. The properties are not inductive: whether an   *)
(* answer is the only one depends on how far the dispatcher has come       *)
(* (RequestProgress), whether _IDLE means idle on where the signal finds   *)
(* the process (StateIsProgress), and what is registered on what main has  *)
(* still to do (AskedIsRegistered).                                        *)
(***************************************************************************)
IInv == ServerTypes /\ RequestProgress /\ RequestSettled /\ StateIsProgress /\ AskedIsRegistered

(* Every state of the generated server satisfies the invariant, whatever   *)
(* the versions, the transports, the clients and the failures.             *)
THEOREM ServerInvariance == Spec => []IInv
<1>1. Init => IInv
  BY TypesInit, RequestInit, StateInit, AskedInit DEF IInv
<1>2. IInv /\ [Next]_vars => IInv'
  BY TypesStep, RequestStep, StateStep, AskedStep DEF IInv
<1>3. QED
  BY <1>1, <1>2, PTL DEF Spec

(* When the server waits again, the last request has been answered exactly *)
(* once and its arguments do not stay decoded, on every path through the   *)
(* dispatcher, with failing calls and alarms in between; only a procedure  *)
(* that returns NULL and a ping whose reply cannot be sent are unanswered. *)
THEOREM RequestsAreSettled == Spec => []RequestSettled
<1>1. IInv => RequestSettled
  BY DEF IInv
<1>2. QED
  BY <1>1, ServerInvariance, PTL

(* closedown ends the server only while it waits or reads, when it has     *)
(* dispatched nothing since the last alarm and has at most the socket it   *)
(* was started on, at whatever point the signal comes.                     *)
THEOREM ClosesIdleOnly == Spec => ClosesOnlyWhenIdle
<1>1. IInv /\ [Next]_vars =>
          [pc' = "closed" => /\ pc \in {"select", "read"} /\ ~called
                             /\ conf.fdtype = "tcp" => fds <= 1]_vars
  BY OnlyCloseCloses, IdleWhenClosed DEF IInv
<1>2. QED
  BY <1>1, ServerInvariance, PTL DEF Spec, ClosesOnlyWhenIdle

(* A serving server of its own is registered with the portmapper for every *)
(* version on every transport it was written for and on no other one, and, *)
(* without TIRPC, another server is left on the others only for a version  *)
(* that the portmapper has refused to unset.                               *)
THEOREM ServesRegistered == Spec => []ServesWhatIsRegistered
<1>1. IInv => ServesWhatIsRegistered
  BY DEF IInv, AskedIsRegistered, ServesWhatIsRegistered, Pending, Serving, Final
<1>2. QED
  BY <1>1, ServerInvariance, PTL

===========================================================================
