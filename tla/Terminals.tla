------------------------------ MODULE Terminals ------------------------------
(***************************************************************************)
(* Terminal sessions, from the page of a user to the shell on a server:    *)
(* OpenTerminal, CloseTerminal and RemoveSite of the hub, the goroutine of *)
(* a site connection that calls them (handleSiteWS), and openTerminal,     *)
(* closeTerminal and closeAllTerminals of the agent with the goroutines    *)
(* that run them.                                                          *)
(*                                                                         *)
(* A site has one goroutine: while it waits for an agent it reads nothing. *)
(* The agent reads terminal_close in its read loop, but run_terminal runs  *)
(* in a goroutine of its own that outlives the connection it came from.    *)
(***************************************************************************)
EXTENDS Naturals, Sequences, FiniteSets

CONSTANTS
    Site,         \* websocket connections of users, one goroutine each
    Server,
    Session,      \* calls of OpenTerminal: each draws a fresh session id
    NoSession,    \* the empty session id
    OpenerOf,     \* OpenerOf[s]: the site that asks for session s
    ServerOf,     \* ServerOf[s]: the server it asks for
    MaxLinks,     \* bound on the connections an agent makes
    MaxCrashes    \* bound on the restarts of the backend process

ASSUME SessionAssumption == NoSession \notin Session
ASSUME OpenerAssumption == OpenerOf \in [Session -> Site]
ASSUME ServerAssumption == ServerOf \in [Session -> Server]
ASSUME LinkAssumption == MaxLinks \in Nat /\ MaxCrashes \in Nat

VARIABLES
    terminals,   \* Hub.terminals; what an entry holds is OpenerOf and ServerOf of its key
    active,      \* SiteClient.activeTerminals
    site,        \* where the goroutine of a site is
    toClose,     \* sessions it has taken out of the maps and must still tell the agent of
    call,        \* the OpenTerminal call of a session
    via,         \* the connection of the agent its request was sent over, or 0 for an older one
    hub,         \* the client the hub has for a server: of its connection, an older one, none
    agent,       \* where connectAndRun of the agent is
    link,        \* connections the agent has made
    wire,        \* does the newest of them still carry messages?
    inbox,       \* messages on it, on their way to the agent
    shell,       \* the shell of a session, and its place in Agent.terminals
    answer,      \* what the run_terminal goroutine of a session has answered
    missed,      \* history: shells listed between closeAllTerminals and the end of the connection
    crashes      \* history: restarts of the backend so far

mapVars   == <<terminals, active>>
netVars   == <<hub, agent, link, wire>>
shellVars == <<shell, answer, missed>>
vars      == <<terminals, active, site, toClose, call, via, hub, agent, link, wire, inbox,
               shell, answer, missed, crashes>>

-----------------------------------------------------------------------------
(* Values *)

Message == [kind : {"run", "close"}, session : Session]

\* A shell process that runs or is about to; only a listed one can be found by its session.
Alive == {"starting", "unlisted", "listed"}

TypeOK ==
    /\ terminals \in SUBSET Session
    /\ active \in [Site -> [Server -> Session \cup {NoSession}]]
    /\ site \in [Site -> {"loop", "opening", "closing", "leaving", "gone"}]
    /\ toClose \in [Site -> SUBSET Session]
    /\ call \in [Session -> {"unused", "asked", "opened", "failed"}]
    /\ via \in [Session -> 0..MaxLinks]
    /\ hub \in [Server -> {"none", "stale", "current"}]
    /\ agent \in [Server -> {"down", "up", "closing"}]
    /\ link \in [Server -> 0..MaxLinks]
    /\ wire \in [Server -> BOOLEAN]
    /\ inbox \in [Server -> Seq(Message)]
    /\ shell \in [Session -> Alive \cup {"none", "dead"}]
    /\ answer \in [Session -> {"none", "ok", "error", "lost"}]
    /\ missed \in SUBSET Session
    /\ crashes \in 0..MaxCrashes

Init ==
    /\ terminals = {}
    /\ active = [i \in Site |-> [v \in Server |-> NoSession]]
    /\ site = [i \in Site |-> "loop"]
    /\ toClose = [i \in Site |-> {}]
    /\ call = [s \in Session |-> "unused"]
    /\ via = [s \in Session |-> 0]
    /\ hub = [v \in Server |-> "none"]
    /\ agent = [v \in Server |-> "down"]
    /\ link = [v \in Server |-> 0]
    /\ wire = [v \in Server |-> FALSE]
    /\ inbox = [v \in Server |-> <<>>]
    /\ shell = [s \in Session |-> "none"]
    /\ answer = [s \in Session |-> "none"]
    /\ missed = {}
    /\ crashes = 0

-----------------------------------------------------------------------------
(* The goroutine of a site *)

\* sendJSON of the client the hub has: it reaches the agent over a connection that carries.
Reaches(v) == hub[v] = "current" /\ wire[v]

Send(v, kind, s) ==
    inbox' = IF Reaches(v) THEN [inbox EXCEPT ![v] = Append(@, [kind |-> kind, session |-> s])]
                           ELSE inbox

\* open_terminal: RequestAgent finds no client, fails to write, or waits.
OpenTerminal(s) ==
    LET i == OpenerOf[s]  v == ServerOf[s] IN
    /\ site[i] = "loop"
    /\ call[s] = "unused"
    /\ \/ /\ ~Reaches(v)
          /\ call' = [call EXCEPT ![s] = "failed"]
          /\ UNCHANGED <<site, via>>
       \/ /\ hub[v] # "none"
          /\ call' = [call EXCEPT ![s] = "asked"]
          /\ via' = [via EXCEPT ![s] = IF hub[v] = "current" THEN link[v] ELSE 0]
          /\ site' = [site EXCEPT ![i] = "opening"]
    /\ IF call'[s] = "asked" THEN Send(v, "run", s) ELSE UNCHANGED inbox
    /\ UNCHANGED <<mapVars, toClose, netVars, shellVars, crashes>>

\* A wrong variant: the previous session of the site stays in the hub's map.
OpenSucceedsOverOld(s) ==
    LET i == OpenerOf[s]  v == ServerOf[s] IN
    /\ call[s] = "asked" /\ answer[s] = "ok"
    /\ call' = [call EXCEPT ![s] = "opened"]
    /\ terminals' = terminals \cup {s}
    /\ active' = [active EXCEPT ![i][v] = s]
    /\ toClose' = [toClose EXCEPT ![i] = {active[i][v]} \ {NoSession}]
    /\ site' = [site EXCEPT ![i] = IF active[i][v] = NoSession THEN "loop" ELSE "closing"]
    /\ UNCHANGED <<via, netVars, inbox, shellVars, crashes>>

\* The agent's answer: the session takes the place of the one the site had on that server.
OpenSucceeds(s) ==
    LET i == OpenerOf[s]  v == ServerOf[s]  previous == active[i][v] IN
    /\ call[s] = "asked" /\ answer[s] = "ok"
    /\ call' = [call EXCEPT ![s] = "opened"]
    /\ terminals' = (terminals \ {previous}) \cup {s}
    /\ active' = [active EXCEPT ![i][v] = s]
    /\ toClose' = [toClose EXCEPT ![i] = {previous} \ {NoSession}]
    /\ site' = [site EXCEPT ![i] = IF previous = NoSession THEN "loop" ELSE "closing"]
    /\ UNCHANGED <<via, netVars, inbox, shellVars, crashes>>

\* An error of the agent, a connection that ends (failPending), or fifteen seconds: nothing
\* is told to the agent, whatever it has started or will start.
OpenFails(s) ==
    /\ call[s] = "asked"
    /\ call' = [call EXCEPT ![s] = "failed"]
    /\ site' = [site EXCEPT ![OpenerOf[s]] = "loop"]
    /\ UNCHANGED <<mapVars, toClose, via, netVars, inbox, shellVars, crashes>>

\* A wrong variant: a page without a session on the server closes one all the same.
CloseWhatever(i, v) ==
    LET s == active[i][v] IN
    /\ site[i] = "loop"
    /\ active' = [active EXCEPT ![i][v] = NoSession]
    /\ terminals' = terminals \ {s}
    /\ toClose' = [toClose EXCEPT ![i] = {s}]
    /\ site' = [site EXCEPT ![i] = "closing"]
    /\ UNCHANGED <<call, via, netVars, inbox, shellVars, crashes>>

\* close_terminal
CloseTerminal(i, v) ==
    LET s == active[i][v] IN
    /\ site[i] = "loop"
    /\ s # NoSession
    /\ active' = [active EXCEPT ![i][v] = NoSession]
    /\ terminals' = terminals \ {s}
    /\ toClose' = [toClose EXCEPT ![i] = {s}]
    /\ site' = [site EXCEPT ![i] = "closing"]
    /\ UNCHANGED <<call, via, netVars, inbox, shellVars, crashes>>

\* A wrong variant: the sessions of a site that leaves are forgotten, not closed.
RemoveSiteQuietly(i) ==
    /\ site[i] = "loop"
    /\ terminals' = {s \in terminals : OpenerOf[s] # i}
    /\ active' = [active EXCEPT ![i] = [v \in Server |-> NoSession]]
    /\ site' = [site EXCEPT ![i] = "gone"]
    /\ UNCHANGED <<toClose, call, via, netVars, inbox, shellVars, crashes>>

\* ReadMessage fails, and the deferred RemoveSite empties what the site has.
RemoveSite(i) ==
    LET mine == {active[i][v] : v \in Server} \ {NoSession} IN
    /\ site[i] = "loop"
    /\ terminals' = terminals \ mine
    /\ active' = [active EXCEPT ![i] = [v \in Server |-> NoSession]]
    /\ toClose' = [toClose EXCEPT ![i] = mine]
    /\ site' = [site EXCEPT ![i] = IF mine = {} THEN "gone" ELSE "leaving"]
    /\ UNCHANGED <<call, via, netVars, inbox, shellVars, crashes>>

\* SendAgentEvent(terminal_close) after the unlock, whose error is ignored.
SendClose(i) ==
    \E s \in toClose[i] :
        /\ Send(ServerOf[s], "close", s)
        /\ toClose' = [toClose EXCEPT ![i] = @ \ {s}]
        /\ site' = IF toClose[i] # {s} THEN site ELSE
                       [site EXCEPT ![i] = IF @ = "leaving" THEN "gone" ELSE "loop"]
        /\ UNCHANGED <<mapVars, call, via, netVars, shellVars, crashes>>

-----------------------------------------------------------------------------
(* The read loop of the agent *)

ReadRun(v) ==
    LET s == Head(inbox[v]).session IN
    /\ agent[v] = "up" /\ inbox[v] # <<>>
    /\ Head(inbox[v]).kind = "run"
    /\ inbox' = [inbox EXCEPT ![v] = Tail(@)]
    /\ shell' = [shell EXCEPT ![s] = "starting"]
    /\ UNCHANGED <<mapVars, site, toClose, call, via, netVars, answer, missed, crashes>>

\* closeTerminal: nothing happens to a session that is not listed.
ReadClose(v) ==
    LET s == Head(inbox[v]).session IN
    /\ agent[v] = "up" /\ inbox[v] # <<>>
    /\ Head(inbox[v]).kind = "close"
    /\ inbox' = [inbox EXCEPT ![v] = Tail(@)]
    /\ shell' = [shell EXCEPT ![s] = IF @ = "listed" THEN "dead" ELSE @]
    /\ UNCHANGED <<mapVars, site, toClose, call, via, netVars, answer, missed, crashes>>

\* A wrong variant: the shells survive the connection they were opened over.
AgentReadFailsOnly(v) ==
    /\ agent[v] = "up"
    /\ agent' = [agent EXCEPT ![v] = "closing"]
    /\ inbox' = [inbox EXCEPT ![v] = <<>>]
    /\ UNCHANGED <<mapVars, site, toClose, call, via, hub, link, wire, shellVars, crashes>>

\* ReadMessage fails on a connection that carries no more, or whose pongs came too late.
\* closeAllTerminals runs first, while answers can still be sent.
AgentReadFails(v) ==
    /\ agent[v] = "up"
    /\ agent' = [agent EXCEPT ![v] = "closing"]
    /\ inbox' = [inbox EXCEPT ![v] = <<>>]
    /\ shell' = [s \in Session |->
                    IF ServerOf[s] = v /\ shell[s] = "listed" THEN "dead" ELSE shell[s]]
    /\ UNCHANGED <<mapVars, site, toClose, call, via, hub, link, wire, answer, missed, crashes>>

\* conn.Close(), and no connection until the next one is made.
AgentDisconnects(v) ==
    /\ agent[v] = "closing"
    /\ agent' = [agent EXCEPT ![v] = "down"]
    /\ wire' = [wire EXCEPT ![v] = FALSE]
    /\ UNCHANGED <<mapVars, site, toClose, call, via, hub, link, inbox, shellVars, crashes>>

-----------------------------------------------------------------------------
(* The goroutine of run_terminal, and the shell *)

\* pty.StartWithSize gives a process, or an error that is answered.
StartShell(s) ==
    /\ shell[s] = "starting"
    /\ shell' = [shell EXCEPT ![s] = "unlisted"]
    /\ UNCHANGED <<mapVars, site, toClose, call, via, netVars, inbox, answer, missed, crashes>>

StartFails(s) ==
    /\ shell[s] = "starting"
    /\ shell' = [shell EXCEPT ![s] = "dead"]
    /\ answer' = [answer EXCEPT ![s] = "error"]
    /\ UNCHANGED <<mapVars, site, toClose, call, via, netVars, inbox, missed, crashes>>

\* a.terminals[sessionID] = ..., under termMu.
ListShell(s) ==
    /\ shell[s] = "unlisted"
    /\ shell' = [shell EXCEPT ![s] = "listed"]
    /\ missed' = IF agent[ServerOf[s]] = "closing" THEN missed \cup {s} ELSE missed
    /\ UNCHANGED <<mapVars, site, toClose, call, via, netVars, inbox, answer, crashes>>

\* A wrong variant: the agent answers before the session can be found.
AnswerEarly(s) ==
    LET v == ServerOf[s] IN
    /\ answer[s] = "none"
    /\ shell[s] \in {"unlisted", "listed", "dead"}
    /\ answer' = [answer EXCEPT ![s] =
                     IF agent[v] # "down" /\ wire[v] /\ via[s] = link[v] THEN "ok" ELSE "lost"]
    /\ UNCHANGED <<mapVars, site, toClose, call, via, netVars, inbox, shell, missed, crashes>>

\* sendCommandResponse over whatever connection there is: only one that carries, and is the
\* one the request came over, has somebody waiting.
AnswerOpened(s) ==
    LET v == ServerOf[s] IN
    /\ answer[s] = "none"
    /\ shell[s] \in {"listed", "dead"}
    /\ answer' = [answer EXCEPT ![s] =
                     IF agent[v] # "down" /\ wire[v] /\ via[s] = link[v] THEN "ok" ELSE "lost"]
    /\ UNCHANGED <<mapVars, site, toClose, call, via, netVars, inbox, shell, missed, crashes>>

\* The user leaves the shell: streamTerminalOutput reads an error and closes the session on
\* the agent. Nobody tells the hub.
ShellExits(s) ==
    /\ shell[s] = "listed"
    /\ shell' = [shell EXCEPT ![s] = "dead"]
    /\ UNCHANGED <<mapVars, site, toClose, call, via, netVars, inbox, answer, missed, crashes>>

-----------------------------------------------------------------------------
(* Connections *)

\* The agent dials and the backend accepts; RegisterAgent comes later, and until then the
\* hub may still have the client of the connection before.
Connect(v) ==
    /\ agent[v] = "down" /\ link[v] < MaxLinks
    /\ agent' = [agent EXCEPT ![v] = "up"]
    /\ link' = [link EXCEPT ![v] = @ + 1]
    /\ wire' = [wire EXCEPT ![v] = TRUE]
    /\ hub' = [hub EXCEPT ![v] = IF @ = "none" THEN "none" ELSE "stale"]
    /\ inbox' = [inbox EXCEPT ![v] = <<>>]
    /\ UNCHANGED <<mapVars, site, toClose, call, via, shellVars, crashes>>

Register(v) ==
    /\ hub[v] # "current" /\ wire[v]
    /\ hub' = [hub EXCEPT ![v] = "current"]
    /\ UNCHANGED <<mapVars, site, toClose, call, via, agent, link, wire, inbox, shellVars, crashes>>

\* What the agent has been sent and not read is lost from some message on.
CutOff(v, kept) == inbox' = [inbox EXCEPT ![v] = SubSeq(@, 1, kept)]

ConnectionLost(v) ==
    /\ wire[v]
    /\ wire' = [wire EXCEPT ![v] = FALSE]
    /\ \E kept \in 0..Len(inbox[v]) : CutOff(v, kept)
    /\ UNCHANGED <<mapVars, site, toClose, call, via, hub, agent, link, shellVars, crashes>>

\* The handler of the hub's client ends: UnregisterAgent, and the connection is closed.
HubForgets(v) ==
    /\ \/ hub[v] = "stale" /\ UNCHANGED <<wire, inbox>>
       \/ /\ hub[v] = "current"
          /\ wire' = [wire EXCEPT ![v] = FALSE]
          /\ \E kept \in 0..Len(inbox[v]) : CutOff(v, kept)
    /\ hub' = [hub EXCEPT ![v] = "none"]
    /\ UNCHANGED <<mapVars, site, toClose, call, via, agent, link, shellVars, crashes>>

\* The backend dies: hub, sites and calls are gone, agents see their connections end.
BackendCrash ==
    /\ crashes < MaxCrashes
    /\ crashes' = crashes + 1
    /\ terminals' = {}
    /\ active' = [i \in Site |-> [v \in Server |-> NoSession]]
    /\ site' = [i \in Site |-> "gone"]
    /\ toClose' = [i \in Site |-> {}]
    /\ call' = [s \in Session |-> IF call[s] = "asked" THEN "failed" ELSE call[s]]
    /\ hub' = [v \in Server |-> "none"]
    /\ wire' = [v \in Server |-> FALSE]
    /\ UNCHANGED <<via, agent, link, inbox, shellVars>>

-----------------------------------------------------------------------------
\* resolveOwnedTerminal: the session that input from page i goes to. The page names the session
\* or, with none, the server, of which it has no more than one.
Resolved(i, s, v) ==
    {t \in terminals : OpenerOf[t] = i /\ (t = s \/ (s = NoSession /\ t = active[i][v]))}

-----------------------------------------------------------------------------
Caller(s) == OpenSucceeds(s) \/ OpenFails(s)
Reader(v) == ReadRun(v) \/ ReadClose(v) \/ AgentDisconnects(v)
Starter(s) == StartShell(s) \/ StartFails(s) \/ ListShell(s) \/ AnswerOpened(s)

Next ==
    \/ \E s \in Session : OpenTerminal(s) \/ Caller(s) \/ Starter(s) \/ ShellExits(s)
    \/ \E i \in Site : RemoveSite(i) \/ SendClose(i) \/ \E v \in Server : CloseTerminal(i, v)
    \/ \E v \in Server :
        Reader(v) \/ AgentReadFails(v) \/ Connect(v) \/ Register(v) \/ ConnectionLost(v) \/ HubForgets(v)
    \/ BackendCrash

\* Goroutines that can run are run, the timer of a request fires, and the read deadline of
\* the agent passes on a connection that is dead. Nothing is assumed of users and networks.
Fairness ==
    /\ \A s \in Session : WF_vars(Caller(s)) /\ WF_vars(Starter(s))
    /\ \A i \in Site : WF_vars(SendClose(i))
    /\ \A v \in Server : WF_vars(Reader(v)) /\ WF_vars(~wire[v] /\ AgentReadFails(v))

Spec == Init /\ [][Next]_vars
FairSpec == Spec /\ Fairness

-----------------------------------------------------------------------------
(* Properties *)

InFlight(v) == {inbox[v][n] : n \in 1..Len(inbox[v])}

\* The two maps tell the same story: a session the hub routes is the one its site shows for
\* that server, and only that one, at every unlock of Hub.mu (hub.go:507-514, 594-600, 633-666).
MapsAgree ==
    \A s \in Session : s \in terminals <=> active[OpenerOf[s]][ServerOf[s]] = s

\* Input that is accepted, for a session or for a server, never finds a shell that runs and is not
\* listed yet: the agent says opened only once it can find the session (main.go:1202-1206,
\* 1807-1815).
RoutedIsListed ==
    \A i \in Site, v \in Server, s \in Session \cup {NoSession} :
        \A t \in Resolved(i, s, v) : shell[t] \in {"listed", "dead"}

\* A shell that runs although nobody owns its session is on the way out: its request is not
\* decided, its close is still to be sent or read, or the agent is about to find its
\* connection dead and close everything. The exceptions are those whose request failed after
\* the agent had read it, and those closeAllTerminals missed.
NoOrphan ==
    \A s \in Session : shell[s] \in Alive =>
        LET v == ServerOf[s] IN
        \/ s \in terminals
        \/ call[s] \in {"asked", "failed"}
        \/ s \in missed
        \/ s \in toClose[OpenerOf[s]] /\ agent[v] = "up"
        \/ [kind |-> "close", session |-> s] \in InFlight(v) /\ agent[v] = "up"
        \/ agent[v] = "up" /\ ~wire[v]

\* A terminal that was opened and is closed, by its user, by another one opened in its place,
\* or by a page that goes away, leaves no shell behind (ws-protocol.md:149).
ClosedShellEnds ==
    \A s \in Session :
        call[s] = "opened" /\ s \notin terminals /\ s \notin missed ~> shell[s] = "dead"

=============================================================================
