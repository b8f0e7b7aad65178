--------------------------- MODULE AgentHubProofs ---------------------------
(***************************************************************************)
(* Proofs about AgentHub for any sets of servers, connections and calls.   *)
(***************************************************************************)
EXTENDS AgentHub, TLAPS

\* The local variables that a goroutine is about to dereference are not nil.
LocalsSet ==
    /\ \A c \in Conn : pc[c] \in {"failold", "closeold"} => old[c] \in Conn
    /\ \A s \in Server : kickPc[s] \in {"fail", "close"} => kicked[s] \in Conn
    /\ \A r \in Request :
        call[r] \in {"picked", "enrolled", "unsent", "waiting", "expired"} => client[r] \in Conn

TypeInv == TypeOK /\ LocalsSet

\* failPending answers every call it takes out of the map, and nobody else.
LEMMA DroppedType ==
    ASSUME NEW rs \in SUBSET Request
    PROVE  Dropped(rs) \in SUBSET Answer
  BY DEF Dropped, Answer, Result

LEMMA FailPendingType ==
    ASSUME TypeOK, NEW t \in Thread, NEW d \in Conn, FailPending(t, d)
    PROVE  /\ pending' \in [Conn -> SUBSET Request]
           /\ batch' \in [Thread -> SUBSET Answer]
  BY DroppedType DEF FailPending, TypeOK

LEMMA InitTypeInv == Init => TypeInv
  BY CrashAssumption DEF Init, TypeInv, TypeOK, LocalsSet, HandlerPc, CallPc, Outcome

LEMMA NextTypeInv == TypeInv /\ [Next]_vars => TypeInv'
<1> SUFFICES ASSUME TypeInv, [Next]_vars PROVE TypeInv'
  OBVIOUS
<1>1. ASSUME NEW c \in Conn, Accept(c) PROVE TypeInv'
  BY <1>1, ServerOfAssumption DEF Accept, TypeInv, TypeOK, LocalsSet, HandlerPc, CallPc, hubVars, callVars, dbVars, agentVars
<1>2. ASSUME NEW c \in Conn, AbortHandshake(c) PROVE TypeInv'
  BY <1>2 DEF AbortHandshake, TypeInv, TypeOK, LocalsSet, HandlerPc, CallPc, hubVars, callVars, dbVars, agentVars
<1>3. ASSUME NEW c \in Conn, PingFails(c) PROVE TypeInv'
  BY <1>3 DEF PingFails, TypeInv, TypeOK, LocalsSet, HandlerPc, CallPc, hubVars, callVars, dbVars, agentVars
<1>4. ASSUME NEW c \in Conn, ConnectionLost(c) PROVE TypeInv'
  BY <1>4 DEF ConnectionLost, TypeInv, TypeOK, LocalsSet, HandlerPc, CallPc, hubVars, callVars, dbVars, agentVars
<1>5. ASSUME NEW c \in Conn, LoadServer(c) PROVE TypeInv'
  BY <1>5 DEF LoadServer, TypeInv, TypeOK, LocalsSet, HandlerPc, CallPc, hubVars, callVars, dbVars, agentVars
<1>6. ASSUME NEW c \in Conn, CreateServer(c) PROVE TypeInv'
  <2>1. /\ row' \in [Server -> {"absent", "online", "offline"}]
        /\ sock' \in [Conn -> {"none", "up", "lost", "closed"}]
    BY <1>6, ServerOfAssumption DEF CreateServer, TypeInv, TypeOK
  <2>2. PICK p \in {"register", "gone"} : pc' = [pc EXCEPT ![c] = p]
    BY <1>6 DEF CreateServer
  <2>3. pc' \in [Conn -> HandlerPc]
    BY <2>2 DEF TypeInv, TypeOK, HandlerPc
  <2>4. LocalsSet'
    BY <1>6, <2>2 DEF CreateServer, callVars, TypeInv, TypeOK, LocalsSet
  <2>5. QED
    BY <1>6, <2>1, <2>3, <2>4 DEF CreateServer, TypeInv, TypeOK, callVars, agentVars
<1>7. ASSUME NEW c \in Conn, UpdateServer(c) PROVE TypeInv'
  BY <1>7, ServerOfAssumption DEF UpdateServer, TypeInv, TypeOK, LocalsSet, HandlerPc, CallPc, hubVars, callVars, dbVars, agentVars
<1>8. ASSUME NEW c \in Conn, RegisterAgent(c) PROVE TypeInv'
  <2>1. ServerOf[c] \in Server
    BY ServerOfAssumption
  <2>2. /\ agents' \in [Server -> Conn \cup {NoConn}]
        /\ old' \in [Conn -> Conn \cup {NoConn}]
    BY <1>8, <2>1 DEF RegisterAgent, TypeInv, TypeOK
  <2>3. pc' \in [Conn -> HandlerPc]
    BY <1>8 DEF RegisterAgent, TypeInv, TypeOK, HandlerPc
  <2>4. pc'[c] \in {"failold", "closeold"} => old'[c] \in Conn
    BY <1>8, <2>1 DEF RegisterAgent, TypeInv, TypeOK
  <2>5. LocalsSet'
    BY <1>8, <2>4 DEF RegisterAgent, callVars, TypeInv, TypeOK, LocalsSet
  <2>6. QED
    BY <1>8, <2>2, <2>3, <2>5 DEF RegisterAgent, TypeInv, TypeOK, callVars, agentVars
<1>9. ASSUME NEW c \in Conn, FailOld(c) PROVE TypeInv'
  <2>1. FailPending(c, old[c])
    BY <1>9 DEF FailOld
  <2>2. c \in Thread /\ old[c] \in Conn
    BY <1>9 DEF FailOld, TypeInv, LocalsSet, Thread
  <2>3. pending' \in [Conn -> SUBSET Request] /\ batch' \in [Thread -> SUBSET Answer]
    BY <2>1, <2>2, FailPendingType DEF TypeInv
  <2> QED
    BY <1>9, <2>3 DEF FailOld, TypeInv, TypeOK, LocalsSet, HandlerPc, CallPc, hubVars, callVars, dbVars, agentVars
<1>10. ASSUME NEW c \in Conn, CloseOld(c) PROVE TypeInv'
  BY <1>10 DEF CloseOld, TypeInv, TypeOK, LocalsSet, HandlerPc, CallPc, hubVars, callVars, dbVars, agentVars
<1>11. ASSUME NEW c \in Conn, ReadResponse(c) PROVE TypeInv'
  BY <1>11 DEF ReadResponse, CompleteRequest, Answer, Thread, TypeInv, TypeOK, LocalsSet, HandlerPc, CallPc, hubVars, callVars, dbVars, agentVars
<1>12. ASSUME NEW c \in Conn, ReadError(c) PROVE TypeInv'
  BY <1>12 DEF ReadError, TypeInv, TypeOK, LocalsSet, HandlerPc, CallPc, hubVars, callVars, dbVars, agentVars
<1>13. ASSUME NEW c \in Conn, UnregisterAgent(c) PROVE TypeInv'
  BY <1>13, ServerOfAssumption DEF UnregisterAgent, TypeInv, TypeOK, LocalsSet, HandlerPc, CallPc, hubVars, callVars, dbVars, agentVars
<1>14. ASSUME NEW c \in Conn, FailOwn(c) PROVE TypeInv'
  <2>1. FailPending(c, c)
    BY <1>14 DEF FailOwn
  <2>2. c \in Thread /\ c \in Conn
    BY <1>14 DEF FailOwn, TypeInv, LocalsSet, Thread
  <2>3. pending' \in [Conn -> SUBSET Request] /\ batch' \in [Thread -> SUBSET Answer]
    BY <2>1, <2>2, FailPendingType DEF TypeInv
  <2> QED
    BY <1>14, <2>3 DEF FailOwn, TypeInv, TypeOK, LocalsSet, HandlerPc, CallPc, hubVars, callVars, dbVars, agentVars
<1>15. ASSUME NEW c \in Conn, CloseOwn(c) PROVE TypeInv'
  BY <1>15 DEF CloseOwn, TypeInv, TypeOK, LocalsSet, HandlerPc, CallPc, hubVars, callVars, dbVars, agentVars
<1>16. ASSUME NEW c \in Conn, SetOffline(c) PROVE TypeInv'
  BY <1>16, ServerOfAssumption DEF SetOffline, TypeInv, TypeOK, LocalsSet, HandlerPc, CallPc, hubVars, callVars, dbVars, agentVars
<1>17. ASSUME NEW s \in Server, RevokeToken(s) PROVE TypeInv'
  BY <1>17 DEF RevokeToken, TypeInv, TypeOK, LocalsSet, HandlerPc, CallPc, hubVars, callVars, dbVars, agentVars
<1>18. ASSUME NEW s \in Server, KickLookup(s) PROVE TypeInv'
  BY <1>18 DEF KickLookup, TypeInv, TypeOK, LocalsSet, HandlerPc, CallPc, hubVars, callVars, dbVars, agentVars
<1>19. ASSUME NEW s \in Server, KickFail(s) PROVE TypeInv'
  <2>1. FailPending(s, kicked[s])
    BY <1>19 DEF KickFail
  <2>2. s \in Thread /\ kicked[s] \in Conn
    BY <1>19 DEF KickFail, TypeInv, LocalsSet, Thread
  <2>3. pending' \in [Conn -> SUBSET Request] /\ batch' \in [Thread -> SUBSET Answer]
    BY <2>1, <2>2, FailPendingType DEF TypeInv
  <2> QED
    BY <1>19, <2>3 DEF KickFail, TypeInv, TypeOK, LocalsSet, HandlerPc, CallPc, hubVars, callVars, dbVars, agentVars
<1>20. ASSUME NEW s \in Server, KickClose(s) PROVE TypeInv'
  BY <1>20 DEF KickClose, TypeInv, TypeOK, LocalsSet, HandlerPc, CallPc, hubVars, callVars, dbVars, agentVars
<1>21. ASSUME NEW t \in Thread, Deliver(t) PROVE TypeInv'
  BY <1>21 DEF Deliver, Answer, TypeInv, TypeOK, LocalsSet, HandlerPc, CallPc, hubVars, callVars, dbVars, agentVars
<1>22. ASSUME NEW r \in Request, PickAgent(r) PROVE TypeInv'
  <2>1. agents[TargetOf[r]] \in Conn \cup {NoConn}
    BY TargetOfAssumption DEF TypeInv, TypeOK
  <2>2. /\ client' \in [Request -> Conn \cup {NoConn}]
        /\ call' \in [Request -> CallPc]
        /\ outcome' \in [Request -> Outcome]
    BY <1>22, <2>1 DEF PickAgent, Outcome, CallPc, TypeInv, TypeOK
  <2>3. LocalsSet'
    BY <1>22, <2>1 DEF PickAgent, LocalsSet, TypeInv, TypeOK, hubVars
  <2> QED
    BY <1>22, <2>2, <2>3 DEF PickAgent, TypeInv, TypeOK, hubVars, dbVars, agentVars
<1>23. ASSUME NEW r \in Request, Enroll(r) PROVE TypeInv'
  BY <1>23 DEF Enroll, TypeInv, TypeOK, LocalsSet, HandlerPc, CallPc, hubVars, callVars, dbVars, agentVars
<1>24. ASSUME NEW r \in Request, SendCommand(r) PROVE TypeInv'
  BY <1>24 DEF SendCommand, TypeInv, TypeOK, LocalsSet, HandlerPc, CallPc, hubVars, callVars, dbVars, agentVars
<1>25. ASSUME NEW r \in Request, SendFailed(r) PROVE TypeInv'
  BY <1>25 DEF SendFailed, Withdraw, Outcome, TypeInv, TypeOK, LocalsSet, HandlerPc, CallPc, hubVars, callVars, dbVars, agentVars
<1>26. ASSUME NEW r \in Request, ForgetExpired(r) PROVE TypeInv'
  BY <1>26 DEF ForgetExpired, Withdraw, Outcome, TypeInv, TypeOK, LocalsSet, HandlerPc, CallPc, hubVars, callVars, dbVars, agentVars
<1>27. ASSUME NEW r \in Request, Receive(r) PROVE TypeInv'
  BY <1>27 DEF Receive, Outcome, TypeInv, TypeOK, LocalsSet, HandlerPc, CallPc, hubVars, callVars, dbVars, agentVars
<1>28. ASSUME NEW r \in Request, Expire(r) PROVE TypeInv'
  BY <1>28 DEF Expire, TypeInv, TypeOK, LocalsSet, HandlerPc, CallPc, hubVars, callVars, dbVars, agentVars
<1>29. ASSUME NEW r \in Request, AgentAnswers(r) PROVE TypeInv'
  BY <1>29 DEF AgentAnswers, Answer, Result, TypeInv, TypeOK, LocalsSet, HandlerPc, CallPc, hubVars, callVars, dbVars, agentVars
<1>32. ASSUME NEW r \in Request, AgentStarts(r) PROVE TypeInv'
  BY <1>32 DEF AgentStarts, TypeInv, TypeOK, LocalsSet, hubVars, callVars, dbVars
<1>30. ASSUME BackendCrash PROVE TypeInv'
  BY <1>30, CrashAssumption DEF BackendCrash, Outcome, TypeInv, TypeOK, LocalsSet, HandlerPc, CallPc, hubVars, callVars, dbVars, agentVars
<1>31. CASE UNCHANGED vars
  BY <1>31 DEF vars, TypeInv, TypeOK, LocalsSet
<1> QED
  BY <1>1, <1>2, <1>3, <1>4, <1>5, <1>6, <1>7, <1>8, <1>9, <1>10, <1>11, <1>12, <1>13, <1>14, <1>15, <1>16, <1>17, <1>18, <1>19, <1>20, <1>21, <1>22, <1>23, <1>24, <1>25, <1>26, <1>27, <1>28, <1>29, <1>30, <1>31, <1>32 DEF Next, Handler, Kicker, Caller

\* Every variable keeps its type, for any number of servers, connections, calls and restarts.
THEOREM TypeCorrect == Spec => []TypeOK
<1>1. Spec => []TypeInv
  BY InitTypeInv, NextTypeInv, PTL DEF Spec
<1>2. TypeInv => TypeOK
  BY DEF TypeInv
<1>3. QED
  BY <1>1, <1>2, PTL

-----------------------------------------------------------------------------
(* The map of agents and the online column *)

RegistrationInv == RegisteredIsServed /\ NoForgottenAgent /\ OnlineHasHandler

LEMMA InitRegistrationInv == Init => RegistrationInv
  BY ServerOfAssumption
     DEF Init, RegistrationInv, RegisteredIsServed, NoForgottenAgent, OnlineHasHandler, Serving

\* The steps that only touch pending maps, calls, the agent and KickServer's own locals.
LEMMA CallStepsLeaveRegistration ==
    ASSUME RegistrationInv, UNCHANGED <<row, agents, pc, old, sock, crashes>>
    PROVE  RegistrationInv'
  BY DEF RegistrationInv, RegisteredIsServed, NoForgottenAgent, OnlineHasHandler

\* Sockets are only ever closed or lost while a handler serves them.
LEMMA SocketStepsLeaveRegistration ==
    ASSUME TypeInv, RegistrationInv, UNCHANGED <<row, agents, pc, old, crashes>>,
           \A c \in Conn : sock'[c] = "up" => sock[c] = "up"
    PROVE  RegistrationInv'
  BY DEF RegistrationInv, RegisteredIsServed, NoForgottenAgent, OnlineHasHandler

LEMMA NextRegistrationInv ==
    TypeInv /\ RegistrationInv /\ [Next]_vars => RegistrationInv'
<1> SUFFICES ASSUME TypeInv, RegistrationInv, [Next]_vars PROVE RegistrationInv'
  OBVIOUS
<1> USE ServerOfAssumption, ConnAssumption
    DEF RegistrationInv, RegisteredIsServed, NoForgottenAgent, OnlineHasHandler, Serving
<1>1. ASSUME NEW c \in Conn, Accept(c) PROVE RegistrationInv'
  BY <1>1 DEF Accept, TypeInv, TypeOK
<1>2. ASSUME NEW c \in Conn, AbortHandshake(c) PROVE RegistrationInv'
  BY <1>2 DEF AbortHandshake, TypeInv, TypeOK
<1>3. ASSUME NEW c \in Conn, PingFails(c) PROVE RegistrationInv'
  BY <1>3, SocketStepsLeaveRegistration DEF PingFails, TypeInv, TypeOK, hubVars, dbVars
<1>4. ASSUME NEW c \in Conn, ConnectionLost(c) PROVE RegistrationInv'
  BY <1>4, SocketStepsLeaveRegistration DEF ConnectionLost, TypeInv, TypeOK, hubVars, dbVars
<1>5. ASSUME NEW c \in Conn, LoadServer(c) PROVE RegistrationInv'
  BY <1>5 DEF LoadServer, TypeInv, TypeOK
<1>6. ASSUME NEW c \in Conn, CreateServer(c) PROVE RegistrationInv'
  <2>1. RegisteredIsServed' /\ NoForgottenAgent'
    <3>1. /\ pc[c] = "create" /\ pc'[c] \in {"register", "gone"}
          /\ UNCHANGED <<agents, old>>
          /\ \A d \in Conn : d # c => pc'[d] = pc[d] /\ sock'[d] = sock[d]
      BY <1>6 DEF CreateServer, TypeInv, TypeOK
    <3>2. \A s \in Server : agents[s] \in Conn \cup {NoConn}
      BY DEF TypeInv, TypeOK
    <3>3. RegisteredIsServed'
      BY <3>1, <3>2
    <3>4. NoForgottenAgent'
      BY <3>1
    <3>5. QED
      BY <3>3, <3>4
  <2>2. CASE row[ServerOf[c]] = "absent"
    <3>1. pc'[c] = "register" /\ \A s \in Server : s # ServerOf[c] => row'[s] = row[s]
      BY <1>6, <2>2 DEF CreateServer, TypeInv, TypeOK
    <3>2. \A d \in Conn : d # c => pc'[d] = pc[d]
      BY <1>6, <2>2 DEF CreateServer, TypeInv, TypeOK
    <3>3. pc[c] = "create" /\ crashes' = crashes
      BY <1>6 DEF CreateServer
    <3>4. OnlineHasHandler'
      BY <3>1, <3>2, <3>3
    <3>5. QED
      BY <2>1, <3>4
  <2>3. CASE row[ServerOf[c]] # "absent"
    BY <1>6, <2>1, <2>3 DEF CreateServer, TypeInv, TypeOK
  <2>4. QED
    BY <2>2, <2>3
<1>7. ASSUME NEW c \in Conn, UpdateServer(c) PROVE RegistrationInv'
  BY <1>7 DEF UpdateServer, TypeInv, TypeOK
<1>8. ASSUME NEW c \in Conn, RegisterAgent(c) PROVE RegistrationInv'
  <2>1. RegisteredIsServed'
    BY <1>8 DEF RegisterAgent, TypeInv, TypeOK
  <2>2. NoForgottenAgent'
    <3> SUFFICES ASSUME NEW d \in Conn, pc'[d] \in Serving, sock'[d] = "up",
                        agents'[ServerOf[d]] # d
                 PROVE  \E e \in Conn : old'[e] = d /\ pc'[e] \in {"failold", "closeold"}
      BY DEF NoForgottenAgent
    <3>1. d # c /\ pc[d] \in Serving /\ sock[d] = "up"
      BY <1>8 DEF RegisterAgent, TypeInv, TypeOK
    \* d was the registered one: it is now the old client of c.
    <3>2. CASE agents[ServerOf[d]] = d
      <4>1. ServerOf[d] = ServerOf[c]
        BY <1>8, <3>2 DEF RegisterAgent, TypeInv, TypeOK
      <4>2. old'[c] = d /\ pc'[c] = "failold"
        BY <1>8, <3>2, <4>1 DEF RegisterAgent, TypeInv, TypeOK
      <4>3. QED
        BY <4>2
    <3>3. CASE \E e \in Conn : old[e] = d /\ pc[e] \in {"failold", "closeold"}
      BY <1>8, <3>3 DEF RegisterAgent, TypeInv, TypeOK
    <3>4. QED
      BY <3>1, <3>2, <3>3
  <2>3. OnlineHasHandler'
    BY <1>8 DEF RegisterAgent, TypeInv, TypeOK
  <2>4. QED
    BY <2>1, <2>2, <2>3
<1>9. ASSUME NEW c \in Conn, FailOld(c) PROVE RegistrationInv'
  BY <1>9 DEF FailOld, TypeInv, TypeOK
<1>10. ASSUME NEW c \in Conn, CloseOld(c) PROVE RegistrationInv'
  BY <1>10 DEF CloseOld, TypeInv, TypeOK
<1>11. ASSUME NEW c \in Conn, ReadError(c) PROVE RegistrationInv'
  BY <1>11 DEF ReadError, TypeInv, TypeOK
<1>12. ASSUME NEW c \in Conn, UnregisterAgent(c) PROVE RegistrationInv'
  BY <1>12 DEF UnregisterAgent, TypeInv, TypeOK
<1>13. ASSUME NEW c \in Conn, FailOwn(c) PROVE RegistrationInv'
  BY <1>13 DEF FailOwn, TypeInv, TypeOK
<1>14. ASSUME NEW c \in Conn, CloseOwn(c) PROVE RegistrationInv'
  BY <1>14 DEF CloseOwn, TypeInv, TypeOK
<1>15. ASSUME NEW c \in Conn, SetOffline(c) PROVE RegistrationInv'
  BY <1>15 DEF SetOffline, TypeInv, TypeOK
<1>16. ASSUME NEW s \in Server, KickClose(s) PROVE RegistrationInv'
  BY <1>16, SocketStepsLeaveRegistration DEF KickClose, TypeInv, TypeOK
<1>17. ASSUME BackendCrash PROVE RegistrationInv'
  BY <1>17 DEF BackendCrash, TypeInv, TypeOK
<1>18. ASSUME \/ \E c \in Conn : ReadResponse(c)
              \/ \E s \in Server : RevokeToken(s) \/ KickLookup(s) \/ KickFail(s)
              \/ \E t \in Thread : Deliver(t)
              \/ \E r \in Request : PickAgent(r) \/ Caller(r) \/ Receive(r)
              \/ \E r \in Request : AgentStarts(r) \/ AgentAnswers(r)
              \/ UNCHANGED vars
       PROVE  RegistrationInv'
  <2>1. UNCHANGED <<row, agents, pc, old, sock, crashes>>
    BY <1>18 DEF ReadResponse, RevokeToken, KickLookup, KickFail, Deliver, PickAgent, Caller,
       Enroll, SendCommand, SendFailed, ForgetExpired, Withdraw, Expire, Receive, AgentStarts,
       AgentAnswers, hubVars, callVars, dbVars, agentVars, vars
  <2>2. QED
    BY <2>1, CallStepsLeaveRegistration
<1>19. QED
  BY <1>1, <1>2, <1>3, <1>4, <1>5, <1>6, <1>7, <1>8, <1>9, <1>10, <1>11, <1>12, <1>13, <1>14,
     <1>15, <1>16, <1>17, <1>18 DEF Next, Handler, Kicker

\* Whatever connections come, go and are kicked, in whatever order their handlers clean up:
\* requests are routed to a client that is still served, a served connection is never
\* dropped from the map by another one's cleanup, and an online row has a handler left.
THEOREM RegistrationCorrect ==
    Spec => [](RegisteredIsServed /\ NoForgottenAgent /\ OnlineHasHandler)
<1>1. TypeInv /\ RegistrationInv /\ [Next]_vars => (TypeInv /\ RegistrationInv)'
  BY NextTypeInv, NextRegistrationInv
<1>2. Init => TypeInv /\ RegistrationInv
  BY InitTypeInv, InitRegistrationInv
<1>3. Spec => [](TypeInv /\ RegistrationInv)
  BY <1>1, <1>2, PTL DEF Spec
<1>4. TypeInv /\ RegistrationInv => RegisteredIsServed /\ NoForgottenAgent /\ OnlineHasHandler
  BY DEF RegistrationInv
<1>5. QED
  BY <1>3, <1>4, PTL

\* A client in the map is that of its own server, and its handler still serves it or is about to
\* take it out (hub.go:83-148).
COROLLARY RegisteredIsServedCorrect == Spec => []RegisteredIsServed
<1>1. RegisteredIsServed /\ NoForgottenAgent /\ OnlineHasHandler => RegisteredIsServed
  OBVIOUS
<1>2. QED
  BY <1>1, RegistrationCorrect, PTL

\* A server that is shown online has a handler that will write it offline, unless the backend
\* ended (ws_handlers.go:120-136).
COROLLARY OnlineHasHandlerCorrect == Spec => []OnlineHasHandler
<1>1. RegisteredIsServed /\ NoForgottenAgent /\ OnlineHasHandler => OnlineHasHandler
  OBVIOUS
<1>2. QED
  BY <1>1, RegistrationCorrect, PTL

-----------------------------------------------------------------------------
(* Pending maps and result channels *)

\* An entry of a pending map belongs to a call that will still read or withdraw it.
PendingOwned ==
    \A c \in Conn : \A r \in pending[c] :
        /\ client[r] = c
        /\ call[r] \in {"enrolled", "unsent", "waiting", "expired"}
        /\ chan[r] = "empty"

\* Whoever takes a call out of a pending map is alone with its channel.
PendingNotTaken ==
    \A c \in Conn : \A r \in pending[c] : \A t \in Thread : \A a \in batch[t] : a.req # r

\* A call that has not enrolled yet has a fresh channel that nobody can know of.
FreshChannel ==
    \A r \in Request : call[r] \in {"idle", "picked"} =>
        /\ chan[r] = "empty"
        /\ \A t \in Thread : \A a \in batch[t] : a.req # r

ChannelInv == PendingOwned /\ PendingNotTaken /\ FreshChannel /\ NoSenderBlocks

LEMMA InitChannelInv == Init => ChannelInv
  BY DEF Init, ChannelInv, PendingOwned, PendingNotTaken, FreshChannel, NoSenderBlocks

\* Taking entries out of one pending map, to answer them from an empty batch, is safe.
LEMMA TakeEntries ==
    ASSUME TypeInv, ChannelInv, NEW t \in Thread, NEW d \in Conn,
           NEW taken \in SUBSET Answer,
           \A a \in taken : a.req \in pending[d],
           \A a, b \in taken : a.req = b.req => a = b,
           batch' = [batch EXCEPT ![t] = taken],
           pending' = [pending EXCEPT ![d] = @ \ {a.req : a \in taken}],
           UNCHANGED <<call, client, chan>>
    PROVE  ChannelInv'
<1> USE DEF ChannelInv
<1>1. \A c \in Conn : pending'[c] \subseteq pending[c]
  BY DEF TypeInv, TypeOK
<1>2. \A u \in Thread : batch'[u] = IF u = t THEN taken ELSE batch[u]
  BY DEF TypeInv, TypeOK
<1>3. PendingOwned'
  BY <1>1 DEF PendingOwned
\* What was taken is gone from the map of d, and was never in another one.
<1>4. PendingNotTaken'
  <2> SUFFICES ASSUME NEW c \in Conn, NEW r \in pending'[c], NEW a \in taken, a.req = r
               PROVE  FALSE
    BY <1>1, <1>2 DEF PendingNotTaken
  <2>1. r \in pending[c] /\ r \in pending[d]
    BY <1>1
  <2>2. c = d
    BY <2>1 DEF PendingOwned
  <2>3. r \notin pending'[d]
    BY DEF TypeInv, TypeOK
  <2>4. QED
    BY <2>2, <2>3
<1>5. FreshChannel'
  BY <1>2 DEF FreshChannel, PendingOwned
<1>6. NoSenderBlocks'
  BY <1>2 DEF NoSenderBlocks, PendingOwned, PendingNotTaken
<1>7. QED
  BY <1>3, <1>4, <1>5, <1>6

LEMMA FailPendingKeepsChannelInv ==
    ASSUME TypeInv, ChannelInv, NEW t \in Thread, NEW d \in Conn, FailPending(t, d),
           UNCHANGED <<call, client, chan>>
    PROVE  ChannelInv'
<1>1. pending[d] \in SUBSET Request
  BY DEF TypeInv, TypeOK
<1>2. Dropped(pending[d]) \in SUBSET Answer
  BY <1>1, DroppedType
<1>3. \A a \in Dropped(pending[d]) : a.req \in pending[d]
  BY DEF Dropped
<1>4. \A a, b \in Dropped(pending[d]) : a.req = b.req => a = b
  BY DEF Dropped
<1>5. pending[d] \ {a.req : a \in Dropped(pending[d])} = {}
  <2>1. \A r \in pending[d] : \E a \in Dropped(pending[d]) : a.req = r
    <3> SUFFICES ASSUME NEW r \in pending[d]
                 PROVE  \E a \in Dropped(pending[d]) : a.req = r
      OBVIOUS
    <3>1. [req |-> r, res |-> "dropped"] \in Dropped(pending[d])
      BY DEF Dropped
    <3>2. [req |-> r, res |-> "dropped"].req = r
      OBVIOUS
    <3>3. QED
      BY <3>1, <3>2
  <2>2. QED
    BY <2>1
<1>6. pending' = [pending EXCEPT ![d] = @ \ {a.req : a \in Dropped(pending[d])}]
  BY <1>5 DEF FailPending
<1>7. QED
  BY <1>2, <1>3, <1>4, <1>6, TakeEntries DEF FailPending

LEMMA NextChannelInv == TypeInv /\ ChannelInv /\ [Next]_vars => ChannelInv'
<1> SUFFICES ASSUME TypeInv, ChannelInv, [Next]_vars PROVE ChannelInv'
  OBVIOUS
<1>1. ASSUME NEW c \in Conn, FailOld(c) PROVE ChannelInv'
  <2>1. c \in Thread /\ old[c] \in Conn
    BY <1>1 DEF FailOld, TypeInv, LocalsSet, Thread
  <2>2. QED
    BY <1>1, <2>1, FailPendingKeepsChannelInv DEF FailOld, callVars
<1>2. ASSUME NEW c \in Conn, FailOwn(c) PROVE ChannelInv'
  BY <1>2, FailPendingKeepsChannelInv DEF FailOwn, Thread, callVars
<1>3. ASSUME NEW s \in Server, KickFail(s) PROVE ChannelInv'
  <2>1. s \in Thread /\ kicked[s] \in Conn
    BY <1>3 DEF KickFail, TypeInv, LocalsSet, Thread
  <2>2. QED
    BY <1>3, <2>1, FailPendingKeepsChannelInv DEF KickFail, callVars
<1>4. ASSUME NEW c \in Conn, ReadResponse(c) PROVE ChannelInv'
  <2>1. PICK a \in resp[c] : CompleteRequest(c, a)
    BY <1>4 DEF ReadResponse
  <2>2. c \in Thread /\ a \in Answer /\ UNCHANGED <<call, client, chan>>
    BY <1>4 DEF ReadResponse, Thread, TypeInv, TypeOK, callVars
  <2> DEFINE taken == IF a.req \in pending[c] THEN {a} ELSE {}
  <2>3. taken \in SUBSET Answer
    BY <2>2
  <2>4. \A x \in taken : x.req \in pending[c]
    OBVIOUS
  <2>5. \A x, y \in taken : x.req = y.req => x = y
    OBVIOUS
  <2>6. pending[c] \ {x.req : x \in taken} = pending[c] \ {a.req}
    BY <2>2 DEF TypeInv, TypeOK
  <2>7. /\ batch' = [batch EXCEPT ![c] = taken]
        /\ pending' = [pending EXCEPT ![c] = @ \ {x.req : x \in taken}]
    BY <2>1, <2>6 DEF CompleteRequest
  <2> HIDE DEF taken
  <2>8. QED
    BY <2>2, <2>3, <2>4, <2>5, <2>7, TakeEntries
<1>5. ASSUME NEW t \in Thread, Deliver(t) PROVE ChannelInv'
  <2>1. PICK a \in batch[t] :
            /\ chan[a.req] = "empty"
            /\ chan' = [chan EXCEPT ![a.req] = a.res]
            /\ batch' = [batch EXCEPT ![t] = @ \ {a}]
            /\ UNCHANGED <<pending, call, client>>
    BY <1>5 DEF Deliver
  <2>2. a \in Answer /\ a.req \in Request
    BY DEF TypeInv, TypeOK, Answer
  <2>3. \A r \in Request : r # a.req => chan'[r] = chan[r]
    BY <2>1 DEF TypeInv, TypeOK
  <2>4. /\ \A u \in Thread : batch'[u] \subseteq batch[u]
        /\ a \notin batch'[t]
    BY <2>1 DEF TypeInv, TypeOK
  <2>5. \A u \in Thread : \A b \in batch'[u] : b.req # a.req
    BY <2>1, <2>4 DEF ChannelInv, NoSenderBlocks
  <2>6. \A u \in Thread : \A b \in batch'[u] : b.req \in Request
    BY <2>4 DEF TypeInv, TypeOK, Answer
  <2>7. \A c \in Conn : \A r \in pending[c] : r # a.req /\ r \in Request
    BY <2>1 DEF ChannelInv, PendingNotTaken, TypeInv, TypeOK
  <2>8. PendingOwned' /\ PendingNotTaken'
    BY <2>1, <2>3, <2>4, <2>7 DEF ChannelInv, PendingOwned, PendingNotTaken
  <2>9. FreshChannel'
    BY <2>1, <2>3, <2>4 DEF ChannelInv, FreshChannel
  <2>10. NoSenderBlocks'
    BY <2>3, <2>4, <2>5, <2>6 DEF ChannelInv, NoSenderBlocks
  <2>11. QED
    BY <2>8, <2>9, <2>10 DEF ChannelInv
<1>6. ASSUME NEW r \in Request, PickAgent(r) PROVE ChannelInv'
  <2>1. /\ call[r] = "idle"
        /\ \E p \in {"done", "picked"} : call' = [call EXCEPT ![r] = p]
        /\ \A q \in Request \ {r} : client'[q] = client[q]
        /\ UNCHANGED <<pending, batch, chan>>
    BY <1>6 DEF PickAgent, hubVars, TypeInv, TypeOK
  <2>2. \A q \in Request \ {r} : call'[q] = call[q]
    BY <2>1 DEF TypeInv, TypeOK
  <2>3. QED
    BY <2>1, <2>2 DEF ChannelInv, PendingOwned, PendingNotTaken, FreshChannel, NoSenderBlocks,
       TypeInv, TypeOK
<1>7. ASSUME NEW r \in Request, Enroll(r) PROVE ChannelInv'
  <2>1. /\ call[r] = "picked" /\ client[r] \in Conn
        /\ pending' = [pending EXCEPT ![client[r]] = @ \cup {r}]
        /\ call' = [call EXCEPT ![r] = "enrolled"]
        /\ UNCHANGED <<batch, client, chan>>
    BY <1>7 DEF Enroll, TypeInv, LocalsSet
  <2>2. chan[r] = "empty" /\ \A t \in Thread : \A a \in batch[t] : a.req # r
    BY <2>1 DEF ChannelInv, FreshChannel
  <2>3. \A c \in Conn : \A q \in pending'[c] : q \in pending[c] \/ (q = r /\ c = client[r])
    BY <2>1 DEF TypeInv, TypeOK
  <2>4. PendingOwned'
    BY <2>1, <2>2, <2>3 DEF ChannelInv, PendingOwned, TypeInv, TypeOK
  <2>5. PendingNotTaken'
    BY <2>1, <2>2, <2>3 DEF ChannelInv, PendingNotTaken
  <2>6. FreshChannel' /\ NoSenderBlocks'
    BY <2>1 DEF ChannelInv, FreshChannel, NoSenderBlocks, TypeInv, TypeOK
  <2>7. QED
    BY <2>4, <2>5, <2>6 DEF ChannelInv
<1>8. ASSUME NEW r \in Request, SendCommand(r) \/ Expire(r) PROVE ChannelInv'
  BY <1>8, SMTT(30) DEF SendCommand, Expire, hubVars, ChannelInv, PendingOwned, PendingNotTaken,
     FreshChannel, NoSenderBlocks, TypeInv, TypeOK
<1>9. ASSUME NEW r \in Request, SendFailed(r) \/ ForgetExpired(r) PROVE ChannelInv'
  <2>1. /\ call[r] \in {"unsent", "expired"} /\ client[r] \in Conn
        /\ pending' = [pending EXCEPT ![client[r]] = @ \ {r}]
        /\ call' = [call EXCEPT ![r] = "done"]
        /\ client' = [client EXCEPT ![r] = NoConn]
        /\ UNCHANGED <<batch, chan>>
    BY <1>9 DEF SendFailed, ForgetExpired, Withdraw, TypeInv, LocalsSet
  <2>2. \A c \in Conn : r \notin pending'[c] /\ pending'[c] \subseteq pending[c]
    BY <2>1 DEF ChannelInv, PendingOwned, TypeInv, TypeOK
  <2>3. PendingOwned' /\ PendingNotTaken'
    BY <2>1, <2>2 DEF ChannelInv, PendingOwned, PendingNotTaken, TypeInv, TypeOK
  <2>4. FreshChannel' /\ NoSenderBlocks'
    BY <2>1 DEF ChannelInv, FreshChannel, NoSenderBlocks, TypeInv, TypeOK
  <2>5. QED
    BY <2>3, <2>4 DEF ChannelInv
<1>10. ASSUME NEW r \in Request, Receive(r) PROVE ChannelInv'
  <2>1. /\ call[r] = "waiting" /\ chan[r] # "empty"
        /\ call' = [call EXCEPT ![r] = "done"]
        /\ chan' = [chan EXCEPT ![r] = "empty"]
        /\ client' = [client EXCEPT ![r] = NoConn]
        /\ UNCHANGED <<pending, batch>>
    BY <1>10 DEF Receive, hubVars
  <2>2. \A c \in Conn : r \notin pending[c]
    BY <2>1 DEF ChannelInv, PendingOwned
  <2>3. PendingOwned' /\ PendingNotTaken'
    BY <2>1, <2>2 DEF ChannelInv, PendingOwned, PendingNotTaken, TypeInv, TypeOK
  <2>4. FreshChannel'
    BY <2>1 DEF ChannelInv, FreshChannel, TypeInv, TypeOK
  <2>5. NoSenderBlocks'
    BY <2>1 DEF ChannelInv, NoSenderBlocks, TypeInv, TypeOK
  <2>6. QED
    BY <2>3, <2>4, <2>5 DEF ChannelInv
<1>11. ASSUME BackendCrash PROVE ChannelInv'
  BY <1>11 DEF BackendCrash, ChannelInv, PendingOwned, PendingNotTaken, FreshChannel,
     NoSenderBlocks, TypeInv, TypeOK
<1>12. ASSUME \/ \E c \in Conn : \/ Accept(c) \/ AbortHandshake(c) \/ PingFails(c)
                                \/ ConnectionLost(c) \/ LoadServer(c) \/ CreateServer(c)
                                \/ UpdateServer(c) \/ RegisterAgent(c) \/ CloseOld(c)
                                \/ ReadError(c) \/ UnregisterAgent(c) \/ CloseOwn(c)
                                \/ SetOffline(c)
              \/ \E s \in Server : RevokeToken(s) \/ KickLookup(s) \/ KickClose(s)
              \/ \E r \in Request : AgentStarts(r) \/ AgentAnswers(r)
              \/ UNCHANGED vars
       PROVE  ChannelInv'
  <2>1. UNCHANGED <<pending, batch, call, client, chan>>
    BY <1>12 DEF Accept, AbortHandshake, PingFails, ConnectionLost, LoadServer, CreateServer,
       UpdateServer, RegisterAgent, CloseOld, ReadError, UnregisterAgent, CloseOwn, SetOffline,
       RevokeToken, KickLookup, KickClose, AgentStarts, AgentAnswers, hubVars, callVars, vars
  <2>2. QED
    BY <2>1 DEF ChannelInv, PendingOwned, PendingNotTaken, FreshChannel, NoSenderBlocks
<1>13. QED
  BY <1>1, <1>2, <1>3, <1>4, <1>5, <1>6, <1>7, <1>8, <1>9, <1>10, <1>11, <1>12
     DEF Next, Handler, Kicker, Caller

\* No goroutine of the hub ever blocks on a result channel, whatever timeouts, late answers,
\* reconnects and kicks race: each channel has at most one sender left and room for it.
THEOREM SendersNeverBlock == Spec => []NoSenderBlocks
<1>1. TypeInv /\ ChannelInv /\ [Next]_vars => (TypeInv /\ ChannelInv)'
  BY NextTypeInv, NextChannelInv
<1>2. Init => TypeInv /\ ChannelInv
  BY InitTypeInv, InitChannelInv
<1>3. TypeInv /\ ChannelInv => NoSenderBlocks
  BY DEF ChannelInv
<1>4. QED
  BY <1>1, <1>2, <1>3, PTL DEF Spec

-----------------------------------------------------------------------------
(* The hub implements AgentCall *)

\* Wherever an answer is on its way back, its command was started; a command that has not been
\* sent yet was not; and one that is still in a socket was not either, and its caller waits or
\* has been told that nothing is known.
HonestInv ==
    /\ \A c \in Conn : \A a \in resp[c] : a.req \in ran
    /\ \A t \in Thread : \A a \in batch[t] : a.res \in {"ok", "refused"} => a.req \in ran
    /\ \A r \in Request : chan[r] \in {"ok", "refused"} => r \in ran
    /\ executing \subseteq ran
    /\ \A r \in Request :
        call[r] \in {"idle", "picked", "enrolled", "unsent"} => r \notin ran \cup sent
    /\ \A r \in sent :
        /\ r \notin ran
        /\ call[r] = "done" => outcome[r] \in {"dropped", "timeout", "crashed"}

LEMMA InitHonestInv == Init => HonestInv
  BY DEF Init, HonestInv

LEMMA FailPendingKeepsHonestInv ==
    ASSUME TypeInv, HonestInv, NEW t \in Thread, NEW d \in Conn, FailPending(t, d),
           UNCHANGED <<call, chan, outcome, sent, executing, resp, ran>>
    PROVE  HonestInv'
<1>1. \A a \in Dropped(pending[d]) : a.res = "dropped"
  BY DEF Dropped
<1>2. \A u \in Thread : batch'[u] = IF u = t THEN Dropped(pending[d]) ELSE batch[u]
  BY DEF FailPending, TypeInv, TypeOK
<1>3. QED
  BY <1>1, <1>2 DEF HonestInv

LEMMA NextHonestInv == TypeInv /\ HonestInv /\ [Next]_vars => HonestInv'
<1> SUFFICES ASSUME TypeInv, HonestInv, [Next]_vars PROVE HonestInv'
  OBVIOUS
<1>1. ASSUME NEW c \in Conn, FailOld(c) PROVE HonestInv'
  <2>1. c \in Thread /\ old[c] \in Conn
    BY <1>1 DEF FailOld, TypeInv, LocalsSet, Thread
  <2>2. QED
    BY <1>1, <2>1, FailPendingKeepsHonestInv DEF FailOld, callVars, agentVars
<1>2. ASSUME NEW c \in Conn, FailOwn(c) PROVE HonestInv'
  BY <1>2, FailPendingKeepsHonestInv DEF FailOwn, Thread, callVars, agentVars
<1>3. ASSUME NEW s \in Server, KickFail(s) PROVE HonestInv'
  <2>1. s \in Thread /\ kicked[s] \in Conn
    BY <1>3 DEF KickFail, TypeInv, LocalsSet, Thread
  <2>2. QED
    BY <1>3, <2>1, FailPendingKeepsHonestInv DEF KickFail, callVars, agentVars
<1>4. ASSUME NEW c \in Conn, ReadResponse(c) PROVE HonestInv'
  <2>1. PICK a \in resp[c] : /\ resp' = [resp EXCEPT ![c] = @ \ {a}]
                             /\ CompleteRequest(c, a)
    BY <1>4 DEF ReadResponse
  <2>2. a.req \in ran
    BY DEF HonestInv
  <2>3. \A t \in Thread : \A b \in batch'[t] : b = a \/ b \in batch[t]
    BY <2>1 DEF CompleteRequest, TypeInv, TypeOK
  <2>4. \A d \in Conn : resp'[d] \subseteq resp[d]
    BY <2>1 DEF TypeInv, TypeOK
  <2>5. QED
    BY <1>4, <2>2, <2>3, <2>4 DEF ReadResponse, HonestInv, callVars
<1>5. ASSUME NEW t \in Thread, Deliver(t) PROVE HonestInv'
  <2>1. PICK a \in batch[t] :
            /\ chan' = [chan EXCEPT ![a.req] = a.res]
            /\ batch' = [batch EXCEPT ![t] = @ \ {a}]
            /\ UNCHANGED <<call, outcome, sent, executing, resp, ran>>
    BY <1>5 DEF Deliver, agentVars
  <2>2. \A r \in Request : chan'[r] = IF r = a.req THEN a.res ELSE chan[r]
    BY <2>1 DEF TypeInv, TypeOK
  <2>3. \A u \in Thread : batch'[u] \subseteq batch[u]
    BY <2>1 DEF TypeInv, TypeOK
  <2>4. QED
    BY <2>1, <2>2, <2>3 DEF HonestInv
<1>6. ASSUME NEW r \in Request, SendCommand(r) PROVE HonestInv'
  BY <1>6 DEF SendCommand, HonestInv, hubVars, TypeInv, TypeOK
<1>7. ASSUME NEW r \in Request, AgentAnswers(r) PROVE HonestInv'
  <2>1. PICK c \in Conn, res \in {"ok", "refused"} :
            resp' = [resp EXCEPT ![c] = @ \cup {[req |-> r, res |-> res]}]
    BY <1>7 DEF AgentAnswers
  <2>2. \A d \in Conn : \A a \in resp'[d] : a \in resp[d] \/ a.req = r
    BY <2>1 DEF TypeInv, TypeOK
  <2>3. r \in ran
    BY <1>7 DEF AgentAnswers, HonestInv
  <2>4. QED
    BY <1>7, <2>2, <2>3 DEF AgentAnswers, HonestInv, hubVars, callVars
<1>14. ASSUME NEW c \in Conn, ReadError(c) PROVE HonestInv'
  BY <1>14 DEF ReadError, HonestInv, callVars, TypeInv, TypeOK
<1>13. ASSUME NEW r \in Request, AgentStarts(r) PROVE HonestInv'
  BY <1>13 DEF AgentStarts, HonestInv, hubVars, callVars, TypeInv, TypeOK
<1>8. ASSUME NEW r \in Request, PickAgent(r) \/ Enroll(r) \/ SendFailed(r) \/ ForgetExpired(r)
                                \/ Expire(r)
      PROVE  HonestInv'
  BY <1>8 DEF PickAgent, Enroll, SendFailed, ForgetExpired, Withdraw, Expire, HonestInv,
     hubVars, agentVars, TypeInv, TypeOK
<1>9. ASSUME NEW r \in Request, Receive(r) PROVE HonestInv'
  <2>1. chan[r] \in Result /\ chan[r] \in {"ok", "refused"} => r \in ran
    BY <1>9 DEF Receive, HonestInv, TypeInv, TypeOK
  <2>2. QED
    BY <1>9, <2>1 DEF Receive, Result, HonestInv, hubVars, agentVars, TypeInv, TypeOK
<1>10. ASSUME BackendCrash PROVE HonestInv'
  BY <1>10 DEF BackendCrash, HonestInv, TypeInv, TypeOK
<1>11. ASSUME \/ \E c \in Conn : \/ Accept(c) \/ AbortHandshake(c) \/ PingFails(c)
                                \/ ConnectionLost(c) \/ LoadServer(c) \/ CreateServer(c)
                                \/ UpdateServer(c) \/ RegisterAgent(c) \/ CloseOld(c)
                                \/ UnregisterAgent(c) \/ CloseOwn(c)
                                \/ SetOffline(c)
              \/ \E s \in Server : RevokeToken(s) \/ KickLookup(s) \/ KickClose(s)
              \/ UNCHANGED vars
       PROVE  HonestInv'
  <2>1. UNCHANGED <<batch, call, chan, outcome, sent, executing, resp, ran>>
    BY <1>11 DEF Accept, AbortHandshake, PingFails, ConnectionLost, LoadServer, CreateServer,
       UpdateServer, RegisterAgent, CloseOld, UnregisterAgent, CloseOwn, SetOffline,
       RevokeToken, KickLookup, KickClose, hubVars, callVars, agentVars, vars
  <2>2. QED
    BY <2>1 DEF HonestInv
<1>12. QED
  BY <1>1, <1>2, <1>3, <1>4, <1>5, <1>6, <1>7, <1>8, <1>9, <1>10, <1>11, <1>13, <1>14
     DEF Next, Handler, Kicker, Caller

\* The steps in which no caller moves and no command starts are stuttering for AgentCall.
LEMMA QuietStep ==
    ASSUME UNCHANGED <<call, outcome, ran>>
    PROVE  UNCHANGED Abstract!vars
  BY DEF Abstract!vars, CallPhase

\* A call that moves between its phases moves only its own.
LEMMA PhaseOfCall ==
    ASSUME TypeInv, NEW r \in Request, NEW p \in CallPc, call' = [call EXCEPT ![r] = p]
    PROVE  CallPhase' = [CallPhase EXCEPT ![r] =
                            IF p = "idle" THEN "idle" ELSE IF p = "done" THEN "done" ELSE "open"]
  BY DEF CallPhase, TypeInv, TypeOK

\* Returning from a call is the abstract Return, if the outcome is an honest one.
LEMMA ReturnStep ==
    ASSUME TypeInv, NEW r \in Request, NEW o \in Outcome \ {"none"},
           call[r] # "done", call' = [call EXCEPT ![r] = "done"],
           outcome' = [outcome EXCEPT ![r] = o], ran' = ran,
           o \in {"ok", "refused"} => r \in ran,
           o \in {"offline", "sendError"} => r \notin ran
    PROVE  Abstract!Next
<1>1. CallPhase' = [CallPhase EXCEPT ![r] = "done"]
  BY PhaseOfCall DEF CallPc
<1>2. CallPhase[r] \in {"idle", "open"}
  BY DEF CallPhase
<1>3. Abstract!Return(r, o)
  BY <1>1, <1>2 DEF Abstract!Return, Abstract!Answered, Abstract!NeverSent
<1>4. o \in Abstract!Answered \cup Abstract!NeverSent \cup Abstract!Unknown
  BY DEF Outcome, Result, Abstract!Answered, Abstract!NeverSent, Abstract!Unknown
<1>5. QED
  BY <1>3, <1>4 DEF Abstract!Next

LEMMA StepImplements ==
    TypeInv /\ HonestInv /\ [Next]_vars => [Abstract!Next]_Abstract!vars
<1> DEFINE Refined == Abstract!Next \/ UNCHANGED Abstract!vars
<1> SUFFICES ASSUME TypeInv, HonestInv, [Next]_vars PROVE Refined
  OBVIOUS
<1>1. ASSUME NEW r \in Request, PickAgent(r) PROVE Refined
  <2>1. call[r] = "idle" /\ r \notin ran /\ ran' = ran
    BY <1>1 DEF PickAgent, HonestInv, agentVars
  <2>2. CASE agents[TargetOf[r]] = NoConn
    BY <1>1, <2>1, <2>2, ReturnStep DEF PickAgent, Outcome, Result
  <2>3. CASE agents[TargetOf[r]] # NoConn
    <3>1. call' = [call EXCEPT ![r] = "picked"] /\ outcome' = outcome
      BY <1>1, <2>3 DEF PickAgent
    <3>2. CallPhase' = [CallPhase EXCEPT ![r] = "open"]
      BY <3>1, PhaseOfCall DEF CallPc
    <3>3. CallPhase[r] = "idle"
      BY <2>1 DEF CallPhase
    <3>4. Abstract!Begin(r)
      BY <2>1, <3>1, <3>2, <3>3 DEF Abstract!Begin
    <3>5. QED
      BY <3>4 DEF Abstract!Next
  <2>4. QED
    BY <2>2, <2>3
<1>2. ASSUME NEW r \in Request, Enroll(r) \/ Expire(r) PROVE Refined
  <2>1. /\ call[r] \in {"picked", "waiting"} /\ outcome' = outcome /\ ran' = ran
        /\ \E p \in {"enrolled", "expired"} : call' = [call EXCEPT ![r] = p]
    BY <1>2 DEF Enroll, Expire, agentVars
  <2>2. CallPhase' = CallPhase
    BY <2>1 DEF CallPhase, TypeInv, TypeOK
  <2>3. QED
    BY <2>1, <2>2 DEF Abstract!vars
<1>3. ASSUME NEW r \in Request, SendCommand(r) PROVE Refined
  <2>1. /\ call[r] = "enrolled" /\ outcome' = outcome /\ ran' = ran
        /\ \E p \in {"waiting", "unsent"} : call' = [call EXCEPT ![r] = p]
    BY <1>3 DEF SendCommand
  <2>2. CallPhase' = CallPhase
    BY <2>1 DEF CallPhase, TypeInv, TypeOK
  <2>3. QED
    BY <2>1, <2>2 DEF Abstract!vars
\* The command left the socket while its call is open, or after it returned without knowing.
<1>10. ASSUME NEW r \in Request, AgentStarts(r) PROVE Refined
  <2>1. /\ r \in sent /\ ran' = ran \cup {r}
        /\ UNCHANGED <<call, outcome>>
    BY <1>10 DEF AgentStarts, callVars
  <2>2. r \notin ran /\ call[r] \notin {"idle", "picked", "enrolled", "unsent"}
    BY <2>1 DEF HonestInv
  <2>3. CallPhase[r] = "open" \/ outcome[r] \in Abstract!Unknown
    BY <2>1, <2>2 DEF HonestInv, CallPhase, Abstract!Unknown
  <2>4. Abstract!Run(r)
    BY <2>1, <2>2, <2>3 DEF Abstract!Run, CallPhase
  <2>5. QED
    BY <2>4 DEF Abstract!Next
<1>4. ASSUME NEW r \in Request, SendFailed(r) PROVE Refined
  <2>1. /\ call[r] = "unsent" /\ r \notin ran /\ ran' = ran
        /\ call' = [call EXCEPT ![r] = "done"]
        /\ outcome' = [outcome EXCEPT ![r] = "sendError"]
    BY <1>4 DEF SendFailed, Withdraw, HonestInv, agentVars
  <2>2. QED
    BY <2>1, ReturnStep DEF Outcome
<1>5. ASSUME NEW r \in Request, ForgetExpired(r) PROVE Refined
  <2>1. /\ call[r] = "expired" /\ ran' = ran
        /\ call' = [call EXCEPT ![r] = "done"]
        /\ outcome' = [outcome EXCEPT ![r] = "timeout"]
    BY <1>5 DEF ForgetExpired, Withdraw, agentVars
  <2>2. QED
    BY <2>1, ReturnStep DEF Outcome
<1>6. ASSUME NEW r \in Request, Receive(r) PROVE Refined
  <2>1. /\ call[r] = "waiting" /\ chan[r] \in Result /\ ran' = ran
        /\ call' = [call EXCEPT ![r] = "done"]
        /\ outcome' = [outcome EXCEPT ![r] = chan[r]]
    BY <1>6 DEF Receive, agentVars, TypeInv, TypeOK
  <2>2. chan[r] \in {"ok", "refused"} => r \in ran
    BY DEF HonestInv
  <2>3. chan[r] \in Outcome \ {"none"} /\ chan[r] \notin {"offline", "sendError"}
    BY <2>1 DEF Outcome, Result
  <2>4. QED
    BY <2>1, <2>2, <2>3, ReturnStep
<1>7. ASSUME BackendCrash PROVE Refined
  <2>1. CallPhase' = [r \in Request |-> IF CallPhase[r] = "idle" THEN "idle" ELSE "done"]
    BY <1>7 DEF BackendCrash, CallPhase, TypeInv, TypeOK
  <2>2. outcome' = [r \in Request |-> IF CallPhase[r] = "open" THEN "crashed" ELSE outcome[r]]
    BY <1>7 DEF BackendCrash, CallPhase, TypeInv, TypeOK
  <2>3. Abstract!Abandon
    BY <1>7, <2>1, <2>2 DEF BackendCrash, Abstract!Abandon
  <2>4. QED
    BY <2>3 DEF Abstract!Next
<1>8. ASSUME \/ \E c \in Conn : \/ Accept(c) \/ AbortHandshake(c) \/ PingFails(c)
                               \/ ConnectionLost(c) \/ Handler(c)
             \/ \E s \in Server : RevokeToken(s) \/ Kicker(s)
             \/ \E t \in Thread : Deliver(t)
             \/ \E r \in Request : AgentAnswers(r)
             \/ UNCHANGED vars
      PROVE  Refined
  <2>1. UNCHANGED <<call, outcome, ran>>
    BY <1>8 DEF Accept, AbortHandshake, PingFails, ConnectionLost, Handler, LoadServer,
       CreateServer, UpdateServer, RegisterAgent, FailOld, CloseOld, ReadResponse, ReadError,
       UnregisterAgent, FailOwn, CloseOwn, SetOffline, RevokeToken, Kicker, KickLookup, KickFail,
       KickClose, Deliver, AgentAnswers, callVars, agentVars, vars
  <2>2. QED
    BY <2>1, QuietStep
<1> HIDE DEF Refined
<1>9. QED
  BY <1>1, <1>2, <1>3, <1>4, <1>5, <1>6, <1>7, <1>8, <1>10 DEF Next, Caller

\* RequestAgent keeps the contract of AgentCall: one outcome per call and an honest one, with
\* any number of agents, reconnections, crashes, commands that start late and late answers
\* around it.
THEOREM HubImplementsAgentCall == Spec => ImplementsAgentCall
<1>1. Init => Abstract!Init
  BY DEF Init, Abstract!Init, CallPhase
<1>2. TypeInv /\ HonestInv /\ [Next]_vars => (TypeInv /\ HonestInv)'
  BY NextTypeInv, NextHonestInv
<1>3. Init => TypeInv /\ HonestInv
  BY InitTypeInv, InitHonestInv
<1>4. QED
  BY <1>1, <1>2, <1>3, StepImplements, PTL DEF Spec, ImplementsAgentCall, Abstract!Spec
=============================================================================
