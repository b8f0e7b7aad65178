------------------------------ MODULE AgentHub ------------------------------
(***************************************************************************)
(* The half of the hub that talks to agents: internal/app/hub.go with the  *)
(* goroutines that drive it, handleAgentWS (ws_handlers.go), the callers   *)
(* of RequestAgent (every HTTP handler that needs an agent) and the caller *)
(* of KickServer (token revocation, server deletion).                      *)
(*                                                                         *)
(* Every critical section of Hub.mu and AgentClient.pendingMu is one       *)
(* action; what the code does between two locks is an action of its own,   *)
(* so that all the goroutines interleave where the code lets them.         *)
(***************************************************************************)
EXTENDS Naturals, FiniteSets

CONSTANTS
    Server,      \* servers; an agent token belongs to exactly one (unique TokenID)
    Conn,        \* websocket connections to /agent/ws, one handler goroutine each
    Request,     \* calls of RequestAgent
    ServerOf,    \* ServerOf[c]: the server whose token connection c presents
    TargetOf,    \* TargetOf[r]: the serverID argument of call r
    NoConn,      \* the nil *AgentClient
    MaxCrashes   \* bound on the restarts of the backend process

ASSUME ConnAssumption == NoConn \notin Conn
ASSUME ThreadAssumption == Conn \cap Server = {}
ASSUME ServerOfAssumption == ServerOf \in [Conn -> Server]
ASSUME TargetOfAssumption == TargetOf \in [Request -> Server]
ASSUME CrashAssumption == MaxCrashes \in Nat

VARIABLES
    row,         \* servers table: does the row exist, and its online column
    revoked,     \* agent_tokens table: the revoked column of the server's token
    agents,      \* Hub.agents
    pc,          \* where the handler goroutine of a connection is
    old,         \* the local variable old of RegisterAgent
    sock,        \* state of the TCP connection under a websocket
    pending,     \* AgentClient.pending of the client made for a connection
    batch,       \* results a goroutine has taken from a pending map and must still send
    kickPc,      \* where the goroutine running KickServer(s) is
    kicked,      \* the local variable client of KickServer
    call,        \* where a RequestAgent call is
    client,      \* the local variable agent of RequestAgent
    chan,        \* the buffered channel (capacity 1) of a call
    outcome,     \* what RequestAgent returned
    sent,        \* commands written to a socket, which the agent has not read
    executing,   \* commands the agent has read and not answered
    resp,        \* answers written by the agent and not read by the handler
    ran,         \* history: commands that an agent ever started
    crashes      \* history: restarts of the backend so far

hubVars   == <<agents, pc, old, pending, batch, kickPc, kicked>>
callVars  == <<call, client, chan, outcome>>
dbVars    == <<row, revoked>>
agentVars == <<sent, executing, resp, ran>>
vars      == <<row, revoked, agents, pc, old, sock, pending, batch, kickPc, kicked,
               call, client, chan, outcome, sent, executing, resp, ran, crashes>>

-----------------------------------------------------------------------------
(* Values *)

Thread == Conn \cup Server      \* handler goroutines, and one KickServer goroutine per server

\* What a channel can carry: the agent's answer, or the error of failPending.
Result == {"ok", "refused", "dropped"}
Answer == [req : Request, res : Result]

HandlerPc == {"idle", "load", "create", "update", "register", "failold", "closeold",
              "loop", "unregister", "failown", "closeown", "offline", "gone"}
CallPc    == {"idle", "picked", "enrolled", "unsent", "waiting", "expired", "done"}
Outcome   == Result \cup {"none", "offline", "sendError", "timeout", "crashed"}

\* The handler owns a client that RegisterAgent has put in the map.
Serving == {"failold", "closeold", "loop"}

Dropped(rs) == {[req |-> r, res |-> "dropped"] : r \in rs}

TypeOK ==
    /\ row \in [Server -> {"absent", "online", "offline"}]
    /\ revoked \in [Server -> BOOLEAN]
    /\ agents \in [Server -> Conn \cup {NoConn}]
    /\ pc \in [Conn -> HandlerPc]
    /\ old \in [Conn -> Conn \cup {NoConn}]
    /\ sock \in [Conn -> {"none", "up", "lost", "closed"}]
    /\ pending \in [Conn -> SUBSET Request]
    /\ batch \in [Thread -> SUBSET Answer]
    /\ kickPc \in [Server -> {"idle", "lookup", "fail", "close"}]
    /\ kicked \in [Server -> Conn \cup {NoConn}]
    /\ call \in [Request -> CallPc]
    /\ client \in [Request -> Conn \cup {NoConn}]
    /\ chan \in [Request -> Result \cup {"empty"}]
    /\ outcome \in [Request -> Outcome]
    /\ sent \in SUBSET Request
    /\ executing \in SUBSET Request
    /\ resp \in [Conn -> SUBSET Answer]
    /\ ran \in SUBSET Request
    /\ crashes \in 0..MaxCrashes

Init ==
    /\ row \in [Server -> {"absent", "offline"}]
    /\ revoked = [s \in Server |-> FALSE]
    /\ agents = [s \in Server |-> NoConn]
    /\ pc = [c \in Conn |-> "idle"]
    /\ old = [c \in Conn |-> NoConn]
    /\ sock = [c \in Conn |-> "none"]
    /\ pending = [c \in Conn |-> {}]
    /\ batch = [t \in Thread |-> {}]
    /\ kickPc = [s \in Server |-> "idle"]
    /\ kicked = [s \in Server |-> NoConn]
    /\ call = [r \in Request |-> "idle"]
    /\ client = [r \in Request |-> NoConn]
    /\ chan = [r \in Request |-> "empty"]
    /\ outcome = [r \in Request |-> "none"]
    /\ sent = {}
    /\ executing = {}
    /\ resp = [c \in Conn |-> {}]
    /\ ran = {}
    /\ crashes = 0

-----------------------------------------------------------------------------
(* handleAgentWS: handshake, registration, read loop, deferred cleanup *)

\* The token is looked up with revoked = false, then the connection is upgraded.
Accept(c) ==
    /\ pc[c] = "idle"
    /\ ~revoked[ServerOf[c]]
    /\ pc' = [pc EXCEPT ![c] = "load"]
    /\ sock' = [sock EXCEPT ![c] = "up"]
    /\ UNCHANGED <<row, revoked, agents, old, pending, batch, kickPc, kicked,
                   callVars, agentVars, crashes>>

\* First(&server) by token_id: the branch taken is remembered, the row may change meanwhile.
LoadServer(c) ==
    /\ pc[c] = "load"
    /\ pc' = [pc EXCEPT ![c] = IF row[ServerOf[c]] = "absent" THEN "create" ELSE "update"]
    /\ UNCHANGED <<row, revoked, agents, old, sock, pending, batch, kickPc, kicked,
                   callVars, agentVars, crashes>>

\* Create(&server) with Online: true; a second row for the token breaks the unique index.
CreateServer(c) ==
    /\ pc[c] = "create"
    /\ IF row[ServerOf[c]] = "absent"
         THEN /\ row' = [row EXCEPT ![ServerOf[c]] = "online"]
              /\ pc' = [pc EXCEPT ![c] = "register"]
              /\ UNCHANGED sock
         ELSE /\ pc' = [pc EXCEPT ![c] = "gone"]
              /\ sock' = [sock EXCEPT ![c] = "closed"]
              /\ UNCHANGED row
    /\ UNCHANGED <<revoked, agents, old, pending, batch, kickPc, kicked,
                   callVars, agentVars, crashes>>

UpdateServer(c) ==
    /\ pc[c] = "update"
    /\ row' = [row EXCEPT ![ServerOf[c]] = "online"]
    /\ pc' = [pc EXCEPT ![c] = "register"]
    /\ UNCHANGED <<revoked, agents, old, sock, pending, batch, kickPc, kicked,
                   callVars, agentVars, crashes>>

\* A wrong variant: a handshake that gives up after it has marked the server online.
AbortHandshakeLate(c) ==
    /\ pc[c] \in {"load", "create", "update", "register"}
    /\ pc' = [pc EXCEPT ![c] = "gone"]
    /\ sock' = [sock EXCEPT ![c] = "closed"]
    /\ UNCHANGED <<row, revoked, agents, old, pending, batch, kickPc, kicked,
                   callVars, agentVars, crashes>>

\* The database refuses a read or a write of the handshake: the handler returns.
AbortHandshake(c) ==
    /\ pc[c] \in {"load", "create", "update"}
    /\ pc' = [pc EXCEPT ![c] = "gone"]
    /\ sock' = [sock EXCEPT ![c] = "closed"]
    /\ UNCHANGED <<row, revoked, agents, old, pending, batch, kickPc, kicked,
                   callVars, agentVars, crashes>>

\* RegisterAgent, the section under Hub.mu.
RegisterAgent(c) ==
    LET s == ServerOf[c] IN
    /\ pc[c] = "register"
    /\ old' = [old EXCEPT ![c] = agents[s]]
    /\ agents' = [agents EXCEPT ![s] = c]
    /\ pc' = [pc EXCEPT ![c] = IF agents[s] = NoConn THEN "loop" ELSE "failold"]
    /\ UNCHANGED <<row, revoked, sock, pending, batch, kickPc, kicked,
                   callVars, agentVars, crashes>>

\* failPending(d) run by goroutine t: the whole map is swapped out under pendingMu, and
\* its channels become the goroutine's to answer.
FailPending(t, d) ==
    /\ batch' = [batch EXCEPT ![t] = Dropped(pending[d])]
    /\ pending' = [pending EXCEPT ![d] = {}]

FailOld(c) ==
    /\ pc[c] = "failold"
    /\ FailPending(c, old[c])
    /\ pc' = [pc EXCEPT ![c] = "closeold"]
    /\ UNCHANGED <<row, revoked, agents, old, sock, kickPc, kicked,
                   callVars, agentVars, crashes>>

CloseOld(c) ==
    /\ pc[c] = "closeold"
    /\ batch[c] = {}
    /\ sock' = [sock EXCEPT ![old[c]] = "closed"]
    /\ old' = [old EXCEPT ![c] = NoConn]
    /\ pc' = [pc EXCEPT ![c] = "loop"]
    /\ UNCHANGED <<row, revoked, agents, pending, batch, kickPc, kicked,
                   callVars, agentVars, crashes>>

\* ch <- result: blocks while the one-place buffer is full.
Deliver(t) ==
    \E a \in batch[t] :
        /\ chan[a.req] = "empty"
        /\ chan' = [chan EXCEPT ![a.req] = a.res]
        /\ batch' = [batch EXCEPT ![t] = @ \ {a}]
        /\ UNCHANGED <<row, revoked, agents, pc, old, sock, pending, kickPc, kicked,
                       call, client, outcome, agentVars, crashes>>

\* A wrong variant: the entry stays in the map after its answer was taken.
CompleteRequestKeepsEntry(c, a) ==
    /\ batch' = [batch EXCEPT ![c] = IF a.req \in pending[c] THEN {a} ELSE {}]
    /\ UNCHANGED pending

\* completeRequest under pendingMu: the entry is taken out together with its channel; an
\* answer to a call that is no longer pending is ignored.
CompleteRequest(c, a) ==
    /\ batch' = [batch EXCEPT ![c] = IF a.req \in pending[c] THEN {a} ELSE {}]
    /\ pending' = [pending EXCEPT ![c] = @ \ {a.req}]

ReadResponse(c) ==
    /\ pc[c] = "loop"
    /\ sock[c] # "closed"
    /\ batch[c] = {}
    /\ \E a \in resp[c] :
        /\ resp' = [resp EXCEPT ![c] = @ \ {a}]
        /\ CompleteRequest(c, a)
    /\ UNCHANGED <<row, revoked, agents, pc, old, sock, kickPc, kicked,
                   callVars, sent, executing, ran, crashes>>

\* ReadMessage fails: the peer is gone, the read deadline passed, or someone closed the socket.
\* What the socket still held is never read.
ReadError(c) ==
    /\ pc[c] = "loop"
    /\ batch[c] = {}
    /\ sock[c] # "up"
    /\ pc' = [pc EXCEPT ![c] = "unregister"]
    /\ resp' = [resp EXCEPT ![c] = {}]
    /\ UNCHANGED <<row, revoked, agents, old, sock, pending, batch, kickPc, kicked,
                   callVars, sent, executing, ran, crashes>>

\* The keepalive goroutine cannot write its ping and closes the connection.
PingFails(c) ==
    /\ pc[c] \in Serving
    /\ sock[c] = "lost"
    /\ sock' = [sock EXCEPT ![c] = "closed"]
    /\ UNCHANGED <<hubVars, callVars, dbVars, agentVars, crashes>>

\* A wrong variant: whichever client is registered leaves the map.
UnregisterAnyClient(c) ==
    /\ pc[c] = "unregister"
    /\ agents' = [agents EXCEPT ![ServerOf[c]] = NoConn]
    /\ pc' = [pc EXCEPT ![c] = "failown"]
    /\ UNCHANGED <<row, revoked, old, sock, pending, batch, kickPc, kicked,
                   callVars, agentVars, crashes>>

\* A wrong variant: the client stays in the map.
UnregisterNothing(c) ==
    /\ pc[c] = "unregister"
    /\ pc' = [pc EXCEPT ![c] = "failown"]
    /\ UNCHANGED <<row, revoked, agents, old, sock, pending, batch, kickPc, kicked,
                   callVars, agentVars, crashes>>

\* UnregisterAgent, the section under Hub.mu: only the current client leaves the map.
UnregisterAgent(c) ==
    LET s == ServerOf[c] IN
    /\ pc[c] = "unregister"
    /\ agents' = IF agents[s] = c THEN [agents EXCEPT ![s] = NoConn] ELSE agents
    /\ pc' = [pc EXCEPT ![c] = "failown"]
    /\ UNCHANGED <<row, revoked, old, sock, pending, batch, kickPc, kicked,
                   callVars, agentVars, crashes>>

FailOwn(c) ==
    /\ pc[c] = "failown"
    /\ FailPending(c, c)
    /\ pc' = [pc EXCEPT ![c] = "closeown"]
    /\ UNCHANGED <<row, revoked, agents, old, sock, kickPc, kicked,
                   callVars, agentVars, crashes>>

CloseOwn(c) ==
    /\ pc[c] = "closeown"
    /\ batch[c] = {}
    /\ sock' = [sock EXCEPT ![c] = "closed"]
    /\ pc' = [pc EXCEPT ![c] = "offline"]
    /\ UNCHANGED <<row, revoked, agents, old, pending, batch, kickPc, kicked,
                   callVars, agentVars, crashes>>

\* The deferred update, by server id and whoever is registered now.
SetOffline(c) ==
    /\ pc[c] = "offline"
    /\ row' = [row EXCEPT ![ServerOf[c]] = "offline"]
    /\ pc' = [pc EXCEPT ![c] = "gone"]
    /\ UNCHANGED <<revoked, agents, old, sock, pending, batch, kickPc, kicked,
                   callVars, agentVars, crashes>>

-----------------------------------------------------------------------------
(* handleRevokeAgentToken and KickServer *)

RevokeToken(s) ==
    /\ kickPc[s] = "idle"
    /\ revoked' = [revoked EXCEPT ![s] = TRUE]
    /\ kickPc' = [kickPc EXCEPT ![s] = IF row[s] = "absent" THEN "idle" ELSE "lookup"]
    /\ UNCHANGED <<row, agents, pc, old, sock, pending, batch, kicked,
                   callVars, agentVars, crashes>>

KickLookup(s) ==
    /\ kickPc[s] = "lookup"
    /\ kicked' = [kicked EXCEPT ![s] = agents[s]]
    /\ kickPc' = [kickPc EXCEPT ![s] = IF agents[s] = NoConn THEN "idle" ELSE "fail"]
    /\ UNCHANGED <<row, revoked, agents, pc, old, sock, pending, batch,
                   callVars, agentVars, crashes>>

KickFail(s) ==
    /\ kickPc[s] = "fail"
    /\ FailPending(s, kicked[s])
    /\ kickPc' = [kickPc EXCEPT ![s] = "close"]
    /\ UNCHANGED <<row, revoked, agents, pc, old, sock, kicked,
                   callVars, agentVars, crashes>>

KickClose(s) ==
    /\ kickPc[s] = "close"
    /\ batch[s] = {}
    /\ sock' = [sock EXCEPT ![kicked[s]] = "closed"]
    /\ kicked' = [kicked EXCEPT ![s] = NoConn]
    /\ kickPc' = [kickPc EXCEPT ![s] = "idle"]
    /\ UNCHANGED <<row, revoked, agents, pc, old, pending, batch,
                   callVars, agentVars, crashes>>

-----------------------------------------------------------------------------
(* RequestAgent *)

\* The lookup under Hub.mu; a nil client ends the call at once.
PickAgent(r) ==
    /\ call[r] = "idle"
    /\ client' = [client EXCEPT ![r] = agents[TargetOf[r]]]
    /\ IF agents[TargetOf[r]] = NoConn
         THEN /\ call' = [call EXCEPT ![r] = "done"]
              /\ outcome' = [outcome EXCEPT ![r] = "offline"]
         ELSE /\ call' = [call EXCEPT ![r] = "picked"]
              /\ UNCHANGED outcome
    /\ UNCHANGED <<hubVars, chan, dbVars, sock, agentVars, crashes>>

Enroll(r) ==
    /\ call[r] = "picked"
    /\ pending' = [pending EXCEPT ![client[r]] = @ \cup {r}]
    /\ call' = [call EXCEPT ![r] = "enrolled"]
    /\ UNCHANGED <<row, revoked, agents, pc, old, sock, batch, kickPc, kicked,
                   client, chan, outcome, agentVars, crashes>>

\* sendJSON: the socket takes the command, also for a peer that is gone and not known to be;
\* or the write fails, and what was written of the frame is no message to anybody.
SendCommand(r) ==
    /\ call[r] = "enrolled"
    /\ \/ /\ sock[client[r]] \in {"up", "lost"}
          /\ sent' = sent \cup {r}
          /\ call' = [call EXCEPT ![r] = "waiting"]
       \/ /\ sock[client[r]] \in {"lost", "closed"}
          /\ call' = [call EXCEPT ![r] = "unsent"]
          /\ UNCHANGED sent
    /\ UNCHANGED <<hubVars, client, chan, outcome, dbVars, sock, executing, resp, ran, crashes>>

\* delete(agent.pending, requestID) and return an error, after a failed send or a timeout.
Withdraw(r, from, error) ==
    /\ call[r] = from
    /\ pending' = [pending EXCEPT ![client[r]] = @ \ {r}]
    /\ call' = [call EXCEPT ![r] = "done"]
    /\ outcome' = [outcome EXCEPT ![r] = error]
    /\ client' = [client EXCEPT ![r] = NoConn]
    /\ UNCHANGED <<row, revoked, agents, pc, old, sock, batch, kickPc, kicked,
                   chan, agentVars, crashes>>

\* Wrong variants: a failed send is only reported while failPending has not seen the call;
\* a timed out call is reported as one to an offline agent.
SendFailedIfPending(r) ==
    call[r] = "unsent" /\ r \in pending[client[r]] /\ Withdraw(r, "unsent", "sendError")
ForgetExpiredAsOffline(r) == Withdraw(r, "expired", "offline")

SendFailed(r) == Withdraw(r, "unsent", "sendError")
ForgetExpired(r) == Withdraw(r, "expired", "timeout")

\* A wrong variant: the call returns whatever its channel holds, without waiting.
ReceiveWithoutWaiting(r) ==
    /\ call[r] = "waiting"
    /\ outcome' = [outcome EXCEPT ![r] = chan[r]]
    /\ call' = [call EXCEPT ![r] = "done"]
    /\ chan' = [chan EXCEPT ![r] = "empty"]
    /\ client' = [client EXCEPT ![r] = NoConn]
    /\ UNCHANGED <<hubVars, dbVars, sock, agentVars, crashes>>

\* The select takes either ready case: a result that is already there does not rule out Expire.
Receive(r) ==
    /\ call[r] = "waiting"
    /\ chan[r] # "empty"
    /\ outcome' = [outcome EXCEPT ![r] = chan[r]]
    /\ call' = [call EXCEPT ![r] = "done"]
    /\ chan' = [chan EXCEPT ![r] = "empty"]
    /\ client' = [client EXCEPT ![r] = NoConn]
    /\ UNCHANGED <<hubVars, dbVars, sock, agentVars, crashes>>

Expire(r) ==
    /\ call[r] = "waiting"
    /\ call' = [call EXCEPT ![r] = "expired"]
    /\ UNCHANGED <<hubVars, client, chan, outcome, dbVars, sock, agentVars, crashes>>

-----------------------------------------------------------------------------
(* The agent and the network *)

\* The read loop of the agent starts handleCommand in a goroutine. It gets to the command
\* whatever became of the call meanwhile, and from a connection the backend has closed too;
\* a command that is lost with its connection is one that is never read.
AgentStarts(r) ==
    /\ r \in sent
    /\ sent' = sent \ {r}
    /\ executing' = executing \cup {r}
    /\ ran' = ran \cup {r}
    /\ UNCHANGED <<hubVars, callVars, dbVars, sock, resp, crashes>>

\* handleCommand runs in a goroutine of its own and answers over whatever connection the
\* agent has by then, which need not be the one the command came from. An answer that the agent
\* fails to send (its conn is nil, or the write fails) is one that never comes.
AgentAnswers(r) ==
    /\ r \in executing
    /\ executing' = executing \ {r}
    /\ \E c \in Conn, res \in {"ok", "refused"} :
        /\ ServerOf[c] = TargetOf[r]
        /\ sock[c] = "up"
        /\ resp' = [resp EXCEPT ![c] = @ \cup {[req |-> r, res |-> res]}]
    /\ UNCHANGED <<hubVars, callVars, dbVars, sock, sent, ran, crashes>>

ConnectionLost(c) ==
    /\ sock[c] = "up"
    /\ sock' = [sock EXCEPT ![c] = "lost"]
    /\ UNCHANGED <<hubVars, callVars, dbVars, agentVars, crashes>>

\* The backend process dies and starts again: the database survives, the hub does not.
BackendCrash ==
    /\ crashes < MaxCrashes
    /\ crashes' = crashes + 1
    /\ agents' = [s \in Server |-> NoConn]
    /\ pc' = [c \in Conn |-> IF pc[c] = "idle" THEN "idle" ELSE "gone"]
    /\ old' = [c \in Conn |-> NoConn]
    /\ sock' = [c \in Conn |-> IF sock[c] = "none" THEN "none" ELSE "closed"]
    /\ pending' = [c \in Conn |-> {}]
    /\ batch' = [t \in Thread |-> {}]
    /\ kickPc' = [s \in Server |-> "idle"]
    /\ kicked' = [s \in Server |-> NoConn]
    /\ call' = [r \in Request |-> IF call[r] = "idle" THEN "idle" ELSE "done"]
    /\ client' = [r \in Request |-> NoConn]
    /\ chan' = [r \in Request |-> "empty"]
    /\ outcome' = [r \in Request |-> IF call[r] \in {"idle", "done"} THEN outcome[r] ELSE "crashed"]
    /\ resp' = [c \in Conn |-> {}]
    /\ UNCHANGED <<row, revoked, sent, executing, ran>>

-----------------------------------------------------------------------------
Handler(c) ==
    \/ LoadServer(c) \/ CreateServer(c) \/ UpdateServer(c) \/ RegisterAgent(c)
    \/ FailOld(c) \/ CloseOld(c) \/ ReadResponse(c) \/ ReadError(c)
    \/ UnregisterAgent(c) \/ FailOwn(c) \/ CloseOwn(c) \/ SetOffline(c)

Kicker(s) == KickLookup(s) \/ KickFail(s) \/ KickClose(s)

\* The steps RequestAgent takes without waiting for anybody, and its timer.
Caller(r) == Enroll(r) \/ SendCommand(r) \/ SendFailed(r) \/ Expire(r) \/ ForgetExpired(r)

Next ==
    \/ \E c \in Conn : Accept(c) \/ AbortHandshake(c) \/ PingFails(c) \/ ConnectionLost(c)
    \/ \E c \in Conn : Handler(c)
    \/ \E s \in Server : RevokeToken(s) \/ Kicker(s)
    \/ \E t \in Thread : Deliver(t)
    \/ \E r \in Request : PickAgent(r) \/ Caller(r) \/ Receive(r)
    \/ \E r \in Request : AgentStarts(r) \/ AgentAnswers(r)
    \/ BackendCrash

\* A goroutine of the backend that can run is run, and a timer that was started fires.
\* Nothing is assumed of agents, of the network, of new connections or of users.
Fairness ==
    /\ \A c \in Conn : WF_vars(Handler(c))
    /\ \A s \in Server : WF_vars(Kicker(s))
    /\ \A t \in Thread : WF_vars(Deliver(t))
    /\ \A r \in Request : WF_vars(Caller(r))

Spec == Init /\ [][Next]_vars
FairSpec == Spec /\ Fairness

-----------------------------------------------------------------------------
(* Properties *)

\* A goroutine that has taken a call out of a pending map is the only one that will ever
\* write to its channel, and finds it empty: no send on a result channel blocks, neither
\* the read loop of an agent (completeRequest) nor RegisterAgent, UnregisterAgent or
\* KickServer (failPending). hub.go:298-320 against the capacity-1 channel of hub.go:202.
NoSenderBlocks ==
    \A t \in Thread : \A a \in batch[t] :
        /\ chan[a.req] = "empty"
        /\ \A u \in Thread : \A b \in batch[u] : b.req = a.req => u = t /\ b = a

\* An agent whose connection is up and being served is the one requests are routed to,
\* unless a newer connection is just about to close it: a cleanup that runs late never
\* drops the newer registration (UnregisterAgent, hub.go:155-160).
NoForgottenAgent ==
    \A c \in Conn :
        pc[c] \in Serving /\ sock[c] = "up" =>
            \/ agents[ServerOf[c]] = c
            \/ \E d \in Conn : old[d] = c /\ pc[d] \in {"failold", "closeold"}

\* The map of agents never holds a client whose handler has already unregistered it, so a
\* lookup never yields a client that nothing will fail or close any more (hub.go:134-160).
RegisteredIsServed ==
    \A s \in Server : agents[s] # NoConn =>
        /\ ServerOf[agents[s]] = s
        /\ pc[agents[s]] \in Serving \cup {"unregister"}

\* A server shown online has a handler that will still write it offline, except after the
\* backend itself was restarted (ws_handlers.go:76, 91, 131).
OnlineHasHandler ==
    \A s \in Server : row[s] = "online" =>
        \/ crashes > 0
        \/ \E c \in Conn :
            /\ ServerOf[c] = s
            /\ pc[c] \in Serving \cup {"register", "unregister", "failown", "closeown", "offline"}

\* A server shown offline has no agent that commands reach, once no connection of it is
\* being set up or torn down: what ServerPage.tsx tells the user of an offline server.
OfflineMeansUnreachable ==
    \A s \in Server :
        row[s] = "offline" /\ (\A c \in Conn : ServerOf[c] = s =>
                                   \/ pc[c] \in {"idle", "gone"}
                                   \/ pc[c] = "loop" /\ sock[c] = "up")
        => agents[s] = NoConn

\* The hub keeps the promise of AgentCall (hub.go:182-243): one outcome per call, "ok" or
\* "refused" only for a command that was started, "offline" or "sendError" only for one that
\* was not and never will be. A caller told of a timeout knows nothing: the command may still
\* be in the socket, and start later.
CallPhase == [r \in Request |->
    IF call[r] = "idle" THEN "idle" ELSE IF call[r] = "done" THEN "done" ELSE "open"]

Abstract == INSTANCE AgentCall WITH phase <- CallPhase

ImplementsAgentCall == Abstract!Spec

\* No call of RequestAgent stays under way for ever: one that found an agent returns
\* (hub.go:225-242).
EveryCallReturns == \A r \in Request : []<>(call[r] \in {"idle", "done"})

\* A connection that is gone has a handler under way.
Unfinished(c) == pc[c] \notin {"idle", "gone"} /\ sock[c] \in {"lost", "closed"}

\* The handler of a connection that is gone always finishes, in whatever it is then: it is
\* never stuck on a channel nobody reads (ws_handlers.go:64-136).
HandlerFinishes == \A c \in Conn : []<>~Unfinished(c)

=============================================================================
