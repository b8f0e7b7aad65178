-------------------------- MODULE TerminalsProofs --------------------------
(***************************************************************************)
(* Proofs about Terminals, for any pages, servers, sessions, connections   *)
(* and restarts.                                                           *)
(***************************************************************************)
EXTENDS Terminals, TLAPS

-----------------------------------------------------------------------------
(* The messages of a queue *)

Msgs(q) == {q[n] : n \in 1..Len(q)}

\* No session has two run messages in a queue.
OneRun(q) ==
    \A m, n \in 1..Len(q) :
        q[m].kind = "run" /\ q[n].kind = "run" /\ q[m].session = q[n].session => m = n

LEMMA AppendMsgs ==
    ASSUME NEW q \in Seq(Message), NEW x \in Message
    PROVE  /\ Append(q, x) \in Seq(Message)
           /\ Msgs(Append(q, x)) = Msgs(q) \cup {x}
           /\ OneRun(q) /\ (x.kind = "run" => \A y \in Msgs(q) : y.kind = "run" => y.session # x.session)
              => OneRun(Append(q, x))
<1> DEFINE a == Append(q, x)
<1>1. a \in Seq(Message) /\ Len(a) = Len(q) + 1 /\ Len(q) \in Nat
  OBVIOUS
<1>2. \A n \in 1..Len(q) : a[n] = q[n]
  OBVIOUS
<1>3. a[Len(q) + 1] = x
  OBVIOUS
<1> HIDE DEF a
<1>4. Msgs(a) = Msgs(q) \cup {x}
  BY <1>1, <1>2, <1>3 DEF Msgs
<1>5. ASSUME OneRun(q), x.kind = "run" => \A y \in Msgs(q) : y.kind = "run" => y.session # x.session
      PROVE  OneRun(a)
  BY <1>1, <1>2, <1>3, <1>5 DEF OneRun, Msgs
<1> QED
  BY <1>1, <1>4, <1>5 DEF a

LEMMA TailMsgs ==
    ASSUME NEW q \in Seq(Message), q # <<>>
    PROVE  /\ Head(q) \in Message /\ Tail(q) \in Seq(Message)
           /\ Msgs(q) = {Head(q)} \cup Msgs(Tail(q))
           /\ OneRun(q) => OneRun(Tail(q))
           /\ OneRun(q) /\ Head(q).kind = "run" =>
                \A y \in Msgs(Tail(q)) : y.kind = "run" => y.session # Head(q).session
<1> DEFINE t == Tail(q)
<1>1. Len(q) \in Nat \ {0} /\ Len(t) = Len(q) - 1 /\ Head(q) = q[1]
  OBVIOUS
<1>2. Head(q) \in Message /\ t \in Seq(Message)
  OBVIOUS
<1>3. \A n \in 1..Len(t) : t[n] = q[n + 1]
  OBVIOUS
<1> HIDE DEF t
<1>4. \A n \in 2..Len(q) : n - 1 \in 1..Len(t) /\ q[n] = t[n - 1]
  BY <1>1, <1>3
<1>5. Msgs(q) = {Head(q)} \cup Msgs(t)
  BY <1>1, <1>3, <1>4 DEF Msgs
<1>6. OneRun(q) => OneRun(t)
  BY <1>1, <1>3 DEF OneRun
<1>7. ASSUME OneRun(q), Head(q).kind = "run"
      PROVE  \A y \in Msgs(t) : y.kind = "run" => y.session # Head(q).session
  BY <1>1, <1>3, <1>7 DEF OneRun, Msgs
<1> QED
  BY <1>2, <1>5, <1>6, <1>7 DEF t

LEMMA SubSeqMsgs ==
    ASSUME NEW q \in Seq(Message), NEW k \in 0..Len(q)
    PROVE  /\ SubSeq(q, 1, k) \in Seq(Message)
           /\ Msgs(SubSeq(q, 1, k)) \subseteq Msgs(q)
           /\ OneRun(q) => OneRun(SubSeq(q, 1, k))
<1> DEFINE p == SubSeq(q, 1, k)
<1>1. p \in Seq(Message) /\ Len(p) = k /\ \A n \in 1..k : p[n] = q[n]
  OBVIOUS
<1> HIDE DEF p
<1> QED
  BY <1>1 DEF Msgs, OneRun, p

LEMMA EmptyMsgs == <<>> \in Seq(Message) /\ Msgs(<<>>) = {} /\ OneRun(<<>>)
  BY DEF Msgs, OneRun

-----------------------------------------------------------------------------
(* Types *)

\* Sending puts a message at the end of the queue of one server, or nowhere.
LEMMA SendStep ==
    ASSUME TypeOK, NEW v \in Server, NEW kind \in {"run", "close"}, NEW s \in Session,
           Send(v, kind, s)
    PROVE  /\ inbox' \in [Server -> Seq(Message)]
           /\ [kind |-> kind, session |-> s] \in Message
           /\ ~Reaches(v) => inbox' = inbox
           /\ Reaches(v) => inbox' = [inbox EXCEPT ![v] = Append(inbox[v], [kind |-> kind, session |-> s])]
<1>1. [kind |-> kind, session |-> s] \in Message
  BY DEF Message
<1>2. inbox[v] \in Seq(Message)
  BY DEF TypeOK
<1>3. Append(inbox[v], [kind |-> kind, session |-> s]) \in Seq(Message)
  BY <1>1, <1>2, AppendMsgs
<1> QED
  BY <1>1, <1>3 DEF Send, TypeOK

\* Reading takes the message at the head of a queue.
LEMMA HeadType ==
    ASSUME TypeOK, NEW v \in Server, inbox[v] # <<>>
    PROVE  /\ Head(inbox[v]) \in Message /\ Head(inbox[v]).session \in Session
           /\ Tail(inbox[v]) \in Seq(Message)
           /\ [inbox EXCEPT ![v] = Tail(@)] \in [Server -> Seq(Message)]
<1>1. inbox[v] \in Seq(Message)
  BY DEF TypeOK
<1>2. Head(inbox[v]) \in Message /\ Tail(inbox[v]) \in Seq(Message)
  BY <1>1, TailMsgs
<1> QED
  BY <1>2 DEF TypeOK, Message

LEMMA CutOffType ==
    ASSUME TypeOK, NEW v \in Server, NEW kept \in 0..Len(inbox[v]), CutOff(v, kept)
    PROVE  inbox' \in [Server -> Seq(Message)]
<1>1. inbox[v] \in Seq(Message)
  BY DEF TypeOK
<1>2. SubSeq(inbox[v], 1, kept) \in Seq(Message)
  BY <1>1, SubSeqMsgs
<1> QED
  BY <1>2 DEF CutOff, TypeOK

LEMMA InitTypeOK == Init => TypeOK
  BY LinkAssumption, EmptyMsgs DEF Init, TypeOK, Alive

LEMMA NextTypeOK == TypeOK /\ [Next]_vars => TypeOK'
<1> SUFFICES ASSUME TypeOK, [Next]_vars PROVE TypeOK'
  OBVIOUS
<1> USE OpenerAssumption, ServerAssumption
<1>1. ASSUME NEW s \in Session, OpenTerminal(s) PROVE TypeOK'
  <2>1. ServerOf[s] \in Server /\ OpenerOf[s] \in Site
    OBVIOUS
  <2>2. inbox' \in [Server -> Seq(Message)]
    <3>1. CASE Send(ServerOf[s], "run", s)
      BY <2>1, <3>1, SendStep
    <3>2. CASE UNCHANGED inbox
      BY <3>2 DEF TypeOK
    <3> QED
      BY <1>1, <3>1, <3>2 DEF OpenTerminal
  <2>3. via' \in [Session -> 0..MaxLinks]
    BY <1>1, <2>1, LinkAssumption DEF OpenTerminal, TypeOK
  <2>4. /\ call' \in [Session -> {"unused", "asked", "opened", "failed"}]
        /\ site' \in [Site -> {"loop", "opening", "closing", "leaving", "gone"}]
    <3>1. \/ call' = [call EXCEPT ![s] = "failed"] /\ site' = site
          \/ /\ call' = [call EXCEPT ![s] = "asked"]
             /\ site' = [site EXCEPT ![OpenerOf[s]] = "opening"]
      BY <1>1 DEF OpenTerminal
    <3>2. OpenerOf[s] \in Site
      OBVIOUS
    <3>3. call' \in [Session -> {"unused", "asked", "opened", "failed"}]
      BY <3>1 DEF TypeOK
    <3>4. site' \in [Site -> {"loop", "opening", "closing", "leaving", "gone"}]
      BY <3>1, <3>2 DEF TypeOK
    <3> QED
      BY <3>3, <3>4
  <2> QED
    BY <1>1, <2>2, <2>3, <2>4 DEF OpenTerminal, TypeOK, mapVars, netVars, shellVars
<1>2. ASSUME NEW s \in Session, OpenSucceeds(s) PROVE TypeOK'
  <2> DEFINE i == OpenerOf[s]
             v == ServerOf[s]
             p == active[i][v]
  <2>1. v \in Server /\ i \in Site
    OBVIOUS
  <2>2. p \in Session \cup {NoSession} /\ active[i] \in [Server -> Session \cup {NoSession}]
    BY <2>1 DEF TypeOK
  <2>3. terminals' \in SUBSET Session
    BY <1>2 DEF OpenSucceeds, TypeOK
  <2>4. active' \in [Site -> [Server -> Session \cup {NoSession}]]
    BY <1>2, <2>1, <2>2 DEF OpenSucceeds, TypeOK
  <2>5. toClose' \in [Site -> SUBSET Session]
    BY <1>2, <2>1, <2>2 DEF OpenSucceeds, TypeOK
  <2>6. /\ call' \in [Session -> {"unused", "asked", "opened", "failed"}]
        /\ site' \in [Site -> {"loop", "opening", "closing", "leaving", "gone"}]
    BY <1>2 DEF OpenSucceeds, TypeOK
  <2> QED
    BY <1>2, <2>3, <2>4, <2>5, <2>6 DEF OpenSucceeds, TypeOK, netVars, shellVars
<1>3. ASSUME NEW s \in Session, OpenFails(s) PROVE TypeOK'
  BY <1>3 DEF OpenFails, TypeOK, mapVars, netVars, shellVars
<1>4. ASSUME NEW i \in Site, NEW v \in Server, CloseTerminal(i, v) PROVE TypeOK'
  <2>1. active[i][v] \in Session /\ active[i] \in [Server -> Session \cup {NoSession}]
    BY <1>4 DEF CloseTerminal, TypeOK
  <2>2. active' \in [Site -> [Server -> Session \cup {NoSession}]]
    BY <1>4, <2>1 DEF CloseTerminal, TypeOK
  <2>3. toClose' \in [Site -> SUBSET Session] /\ terminals' \in SUBSET Session
    BY <1>4, <2>1 DEF CloseTerminal, TypeOK
  <2> QED
    BY <1>4, <2>2, <2>3 DEF CloseTerminal, TypeOK, netVars, shellVars
<1>5. ASSUME NEW i \in Site, RemoveSite(i) PROVE TypeOK'
  <2> DEFINE mine == {active[i][v] : v \in Server} \ {NoSession}
  <2>1. mine \in SUBSET Session
    BY DEF TypeOK
  <2>2. /\ terminals' = terminals \ mine
        /\ active' = [active EXCEPT ![i] = [v \in Server |-> NoSession]]
        /\ toClose' = [toClose EXCEPT ![i] = mine]
        /\ \E w \in {"gone", "leaving"} : site' = [site EXCEPT ![i] = w]
    BY <1>5 DEF RemoveSite
  <2> HIDE DEF mine
  <2>3. /\ terminals' \in SUBSET Session /\ toClose' \in [Site -> SUBSET Session]
        /\ active' \in [Site -> [Server -> Session \cup {NoSession}]]
        /\ site' \in [Site -> {"loop", "opening", "closing", "leaving", "gone"}]
    BY <2>1, <2>2 DEF TypeOK
  <2> QED
    BY <1>5, <2>3 DEF RemoveSite, TypeOK, netVars, shellVars
<1>6. ASSUME NEW i \in Site, SendClose(i) PROVE TypeOK'
  <2>1. PICK s \in toClose[i] :
            /\ Send(ServerOf[s], "close", s)
            /\ toClose' = [toClose EXCEPT ![i] = @ \ {s}]
            /\ site' = IF toClose[i] # {s} THEN site ELSE
                           [site EXCEPT ![i] = IF @ = "leaving" THEN "gone" ELSE "loop"]
    BY <1>6 DEF SendClose
  <2>2. s \in Session /\ ServerOf[s] \in Server
    BY DEF TypeOK
  <2>3. inbox' \in [Server -> Seq(Message)]
    BY <2>1, <2>2, SendStep
  <2>4. /\ toClose' \in [Site -> SUBSET Session]
        /\ site' \in [Site -> {"loop", "opening", "closing", "leaving", "gone"}]
    BY <2>1 DEF TypeOK
  <2> QED
    BY <1>6, <2>3, <2>4 DEF SendClose, TypeOK, mapVars, netVars, shellVars
<1>7. ASSUME NEW v \in Server, ReadRun(v) \/ ReadClose(v) PROVE TypeOK'
  <2> DEFINE s == Head(inbox[v]).session
  <2>1. inbox[v] # <<>> /\ inbox' = [inbox EXCEPT ![v] = Tail(@)]
    BY <1>7 DEF ReadRun, ReadClose
  <2>2. inbox' \in [Server -> Seq(Message)] /\ s \in Session
    BY <2>1, HeadType
  <2>3. shell' \in [Session -> Alive \cup {"none", "dead"}]
    <3>1. \E x \in {"starting", "dead", shell[s]} : shell' = [shell EXCEPT ![s] = x]
      BY <1>7 DEF ReadRun, ReadClose
    <3> QED
      BY <2>2, <3>1 DEF TypeOK, Alive
  <2> QED
    BY <1>7, <2>2, <2>3 DEF ReadRun, ReadClose, TypeOK, mapVars, netVars
<1>8. ASSUME NEW v \in Server, AgentReadFails(v) PROVE TypeOK'
  <2>1. inbox' \in [Server -> Seq(Message)]
    BY <1>8, EmptyMsgs DEF AgentReadFails, TypeOK
  <2>2. shell' \in [Session -> Alive \cup {"none", "dead"}]
    BY <1>8 DEF AgentReadFails, TypeOK
  <2> QED
    BY <1>8, <2>1, <2>2 DEF AgentReadFails, TypeOK, mapVars
<1>9. ASSUME NEW v \in Server, AgentDisconnects(v) PROVE TypeOK'
  BY <1>9 DEF AgentDisconnects, TypeOK, mapVars, shellVars
<1>10. ASSUME NEW s \in Session, Starter(s) \/ ShellExits(s) PROVE TypeOK'
  <2>1. /\ shell' \in [Session -> Alive \cup {"none", "dead"}]
        /\ answer' \in [Session -> {"none", "ok", "error", "lost"}]
        /\ missed' \in SUBSET Session
    <3>1. \/ UNCHANGED shell
          \/ \E x \in {"unlisted", "listed", "dead"} : shell' = [shell EXCEPT ![s] = x]
      BY <1>10 DEF Starter, StartShell, StartFails, ListShell, AnswerOpened, ShellExits
    <3>2. \/ UNCHANGED answer
          \/ \E x \in {"ok", "error", "lost"} : answer' = [answer EXCEPT ![s] = x]
      BY <1>10 DEF Starter, StartShell, StartFails, ListShell, AnswerOpened, ShellExits
    <3>3. missed' = missed \/ missed' = missed \cup {s}
      BY <1>10 DEF Starter, StartShell, StartFails, ListShell, AnswerOpened, ShellExits
    <3>4. shell' \in [Session -> Alive \cup {"none", "dead"}]
      BY <3>1 DEF TypeOK, Alive
    <3>5. answer' \in [Session -> {"none", "ok", "error", "lost"}]
      BY <3>2 DEF TypeOK
    <3>6. missed' \in SUBSET Session
      BY <3>3 DEF TypeOK
    <3> QED
      BY <3>4, <3>5, <3>6
  <2>2. UNCHANGED <<terminals, active, site, toClose, call, via, hub, agent, link, wire, inbox, crashes>>
    BY <1>10 DEF Starter, StartShell, StartFails, ListShell, AnswerOpened, ShellExits, mapVars, netVars
  <2> QED
    BY <2>1, <2>2 DEF TypeOK
<1>11. ASSUME NEW v \in Server, Connect(v) PROVE TypeOK'
  <2>1. link' \in [Server -> 0..MaxLinks]
    BY <1>11, LinkAssumption DEF Connect, TypeOK
  <2>2. inbox' \in [Server -> Seq(Message)]
    BY <1>11, EmptyMsgs DEF Connect, TypeOK
  <2>3. hub' \in [Server -> {"none", "stale", "current"}]
    BY <1>11 DEF Connect, TypeOK
  <2> QED
    BY <1>11, <2>1, <2>2, <2>3 DEF Connect, TypeOK, mapVars, shellVars
<1>12. ASSUME NEW v \in Server, Register(v) PROVE TypeOK'
  BY <1>12 DEF Register, TypeOK, mapVars, shellVars
<1>13. ASSUME NEW v \in Server, ConnectionLost(v) PROVE TypeOK'
  <2>1. PICK kept \in 0..Len(inbox[v]) : CutOff(v, kept)
    BY <1>13 DEF ConnectionLost
  <2>2. inbox' \in [Server -> Seq(Message)]
    BY <2>1, CutOffType
  <2> QED
    BY <1>13, <2>2 DEF ConnectionLost, TypeOK, mapVars, shellVars
<1>14. ASSUME NEW v \in Server, HubForgets(v) PROVE TypeOK'
  <2>1. inbox' \in [Server -> Seq(Message)]
    <3>1. CASE UNCHANGED inbox
      BY <3>1 DEF TypeOK
    <3>2. ASSUME NEW kept \in 0..Len(inbox[v]), CutOff(v, kept) PROVE inbox' \in [Server -> Seq(Message)]
      BY <3>2, CutOffType
    <3> QED
      BY <1>14, <3>1, <3>2 DEF HubForgets
  <2>2. hub' \in [Server -> {"none", "stale", "current"}] /\ wire' \in [Server -> BOOLEAN]
    BY <1>14 DEF HubForgets, TypeOK
  <2> QED
    BY <1>14, <2>1, <2>2 DEF HubForgets, TypeOK, mapVars, shellVars
<1>15. ASSUME BackendCrash PROVE TypeOK'
  <2>1. crashes' \in 0..MaxCrashes
    BY <1>15, LinkAssumption DEF BackendCrash, TypeOK
  <2>2. /\ call' \in [Session -> {"unused", "asked", "opened", "failed"}]
        /\ active' \in [Site -> [Server -> Session \cup {NoSession}]]
    BY <1>15 DEF BackendCrash, TypeOK
  <2> QED
    BY <1>15, <2>1, <2>2 DEF BackendCrash, TypeOK, shellVars
<1>16. CASE UNCHANGED vars
  BY <1>16 DEF vars, TypeOK
<1> QED
  BY <1>1, <1>2, <1>3, <1>4, <1>5, <1>6, <1>7, <1>8, <1>9, <1>10, <1>11, <1>12, <1>13, <1>14,
     <1>15, <1>16 DEF Next, Caller, Reader

\* Every variable keeps its type, for any pages, servers, sessions, connections and restarts.
THEOREM TypeCorrect == Spec => []TypeOK
  BY InitTypeOK, NextTypeOK, PTL DEF Spec

-----------------------------------------------------------------------------
(* A session, from its request to the answer *)

\* A session is unknown to the agent until its only run message is read, and is answered
\* after its shell was listed; a session the hub calls opened was answered ok.
CallInv ==
    /\ \A s \in Session : call[s] = "unused" => shell[s] = "none"
    /\ \A v \in Server : \A m \in Msgs(inbox[v]) :
          m.kind = "run" => call[m.session] # "unused" /\ shell[m.session] = "none"
    /\ \A v \in Server : \A m \in Msgs(inbox[v]) : m.session \in Session /\ ServerOf[m.session] = v
    /\ \A v \in Server : OneRun(inbox[v])
    /\ \A s \in Session : answer[s] # "none" => shell[s] \in {"listed", "dead"}
    /\ \A s \in Session : call[s] = "opened" => answer[s] = "ok"

LEMMA InitCallInv == Init => CallInv
  BY EmptyMsgs DEF Init, CallInv

\* Steps that only lose messages, and do not touch sessions that were never asked for.
LEMMA FewerMessages ==
    ASSUME TypeOK, CallInv, UNCHANGED <<call, shell, answer>>,
           \A v \in Server : Msgs(inbox'[v]) \subseteq Msgs(inbox[v]) /\ OneRun(inbox'[v])
    PROVE  CallInv'
  BY DEF CallInv

LEMMA CutOffMsgs ==
    ASSUME TypeOK, CallInv, NEW v \in Server, NEW kept \in 0..Len(inbox[v]), CutOff(v, kept)
    PROVE  \A w \in Server : Msgs(inbox'[w]) \subseteq Msgs(inbox[w]) /\ OneRun(inbox'[w])
<1>1. inbox[v] \in Seq(Message) /\ \A w \in Server : OneRun(inbox[w])
  BY DEF TypeOK, CallInv
<1>2. Msgs(SubSeq(inbox[v], 1, kept)) \subseteq Msgs(inbox[v]) /\ OneRun(SubSeq(inbox[v], 1, kept))
  BY <1>1, SubSeqMsgs
<1>3. inbox'[v] = SubSeq(inbox[v], 1, kept) /\ \A w \in Server \ {v} : inbox'[w] = inbox[w]
  BY DEF CutOff, TypeOK
<1> QED
  BY <1>1, <1>2, <1>3

\* Putting a message at the end of a queue, on its way to the server of its session.
LEMMA SendMsgs ==
    ASSUME TypeOK, CallInv, NEW kind \in {"run", "close"}, NEW s \in Session,
           Send(ServerOf[s], kind, s), kind = "run" => call[s] = "unused"
    PROVE  /\ \A w \in Server : OneRun(inbox'[w])
           /\ \A w \in Server : \A m \in Msgs(inbox'[w]) :
                 \/ m \in Msgs(inbox[w])
                 \/ w = ServerOf[s] /\ m = [kind |-> kind, session |-> s]
<1> DEFINE v == ServerOf[s]
           x == [kind |-> kind, session |-> s]
<1>1. v \in Server /\ inbox[v] \in Seq(Message)
  BY ServerAssumption DEF TypeOK
<1>2. x \in Message /\ x.kind = kind /\ x.session = s
  BY DEF Message
<1>3. \A w \in Server : OneRun(inbox[w])
  BY DEF CallInv
<1>4. CASE inbox' = inbox
  BY <1>3, <1>4
<1>5. CASE inbox' = [inbox EXCEPT ![v] = Append(inbox[v], x)]
  <2>1. inbox'[v] = Append(inbox[v], x) /\ \A w \in Server : w # v => inbox'[w] = inbox[w]
    BY <1>1, <1>5 DEF TypeOK
  <2>2. kind = "run" => \A y \in Msgs(inbox[v]) : y.kind = "run" => y.session # s
    BY <1>1 DEF CallInv
  <2>3. x.kind = "run" => \A y \in Msgs(inbox[v]) : y.kind = "run" => y.session # x.session
    BY <1>2, <2>2
  <2>4. Msgs(inbox'[v]) = Msgs(inbox[v]) \cup {x} /\ OneRun(inbox'[v])
    BY <1>1, <1>2, <1>3, <2>1, <2>3, AppendMsgs
  <2> HIDE DEF x, v
  <2>5. ASSUME NEW w \in Server, w # v PROVE Msgs(inbox'[w]) = Msgs(inbox[w]) /\ OneRun(inbox'[w])
    BY <1>3, <2>1, <2>5
  <2>6. \A w \in Server : OneRun(inbox'[w])
    BY <2>4, <2>5
  <2>7. \A w \in Server : \A m \in Msgs(inbox'[w]) : m \in Msgs(inbox[w]) \/ (w = v /\ m = x)
    <3> SUFFICES ASSUME NEW w \in Server, NEW m \in Msgs(inbox'[w])
                 PROVE  m \in Msgs(inbox[w]) \/ (w = v /\ m = x)
      OBVIOUS
    <3>1. CASE w = v
      BY <2>4, <3>1
    <3>2. CASE w # v
      BY <2>5, <3>2
    <3> QED
      BY <3>1, <3>2
  <2> QED
    BY <2>6, <2>7 DEF x, v
<1> QED
  BY <1>1, <1>4, <1>5, SendStep

\* Reading the head of a queue.
LEMMA ReadMsgs ==
    ASSUME TypeOK, CallInv, NEW v \in Server, inbox[v] # <<>>,
           inbox' = [inbox EXCEPT ![v] = Tail(@)]
    PROVE  /\ Head(inbox[v]) \in Msgs(inbox[v])
           /\ Msgs(inbox[v]) = {Head(inbox[v])} \cup Msgs(inbox'[v])
           /\ Head(inbox[v]).kind = "run" => \A w \in Server : \A m \in Msgs(inbox'[w]) :
                m.kind = "run" => m.session # Head(inbox[v]).session
           /\ \A w \in Server : Msgs(inbox'[w]) \subseteq Msgs(inbox[w]) /\ OneRun(inbox'[w])
<1> DEFINE h == Head(inbox[v])
<1>1. inbox[v] \in Seq(Message) /\ OneRun(inbox[v])
  BY DEF TypeOK, CallInv
<1>2. inbox'[v] = Tail(inbox[v]) /\ \A w \in Server : w # v => inbox'[w] = inbox[w]
  BY DEF TypeOK
<1>3. /\ Msgs(inbox[v]) = {h} \cup Msgs(inbox'[v]) /\ OneRun(inbox'[v])
      /\ h.kind = "run" => \A y \in Msgs(inbox'[v]) : y.kind = "run" => y.session # h.session
  BY <1>1, <1>2, TailMsgs
<1> HIDE DEF h
<1>4. h \in Msgs(inbox[v]) /\ ServerOf[h.session] = v
  BY <1>3 DEF CallInv
<1>5. ASSUME NEW w \in Server, w # v
      PROVE  /\ Msgs(inbox'[w]) = Msgs(inbox[w]) /\ OneRun(inbox'[w])
             /\ \A m \in Msgs(inbox'[w]) : m.session # h.session
  <2>1. Msgs(inbox'[w]) = Msgs(inbox[w]) /\ OneRun(inbox'[w])
    BY <1>2, <1>5 DEF CallInv
  <2>2. \A m \in Msgs(inbox[w]) : ServerOf[m.session] = w
    BY DEF CallInv
  <2> QED
    BY <1>4, <1>5, <2>1, <2>2
<1> QED
  BY <1>3, <1>4, <1>5 DEF h

LEMMA NextCallInv == TypeOK /\ CallInv /\ [Next]_vars => CallInv'
<1> SUFFICES ASSUME TypeOK, CallInv, [Next]_vars PROVE CallInv'
  OBVIOUS
<1> USE OpenerAssumption, ServerAssumption
<1>1. ASSUME NEW s \in Session, OpenTerminal(s) PROVE CallInv'
  <2>1. /\ call[s] = "unused" /\ shell[s] = "none" /\ ServerOf[s] \in Server
        /\ UNCHANGED <<shell, answer>>
    BY <1>1 DEF OpenTerminal, CallInv, shellVars
  <2>2. \E c \in {"asked", "failed"} : call' = [call EXCEPT ![s] = c]
    BY <1>1 DEF OpenTerminal
  <2>3. call'[s] \in {"asked", "failed"} /\ \A t \in Session : t # s => call'[t] = call[t]
    BY <2>2 DEF TypeOK
  <2>4. /\ \A w \in Server : OneRun(inbox'[w])
        /\ \A w \in Server : \A m \in Msgs(inbox'[w]) :
              m \in Msgs(inbox[w]) \/ (w = ServerOf[s] /\ m.session = s)
    <3>1. CASE UNCHANGED inbox
      BY <3>1 DEF CallInv
    <3>2. CASE Send(ServerOf[s], "run", s)
      BY <2>1, <3>2, SendMsgs
    <3> QED
      BY <1>1, <3>1, <3>2 DEF OpenTerminal
  <2>5. \A w \in Server : \A m \in Msgs(inbox'[w]) :
           /\ m.session \in Session /\ ServerOf[m.session] = w
           /\ m.kind = "run" => call'[m.session] # "unused" /\ shell[m.session] = "none"
    BY <2>1, <2>3, <2>4 DEF CallInv
  <2> QED
    BY <2>1, <2>3, <2>4, <2>5 DEF CallInv
<1>2. ASSUME NEW s \in Session, Caller(s) PROVE CallInv'
  <2>1. /\ call[s] = "asked" /\ UNCHANGED <<inbox, shell, answer>>
        /\ \/ answer[s] = "ok" /\ call' = [call EXCEPT ![s] = "opened"]
           \/ call' = [call EXCEPT ![s] = "failed"]
    BY <1>2 DEF Caller, OpenSucceeds, OpenFails, shellVars
  <2>2. call'[s] # "unused" /\ (call'[s] = "opened" => answer[s] = "ok")
    BY <2>1 DEF TypeOK
  <2>3. \A t \in Session : t # s => call'[t] = call[t]
    BY <2>1 DEF TypeOK
  <2>4. \A t \in Session : call'[t] = "unused" <=> call[t] = "unused"
    BY <2>1, <2>2, <2>3
  <2>5. \A t \in Session : call'[t] = "opened" => answer[t] = "ok"
    BY <2>2, <2>3 DEF CallInv
  <2> QED
    BY <2>1, <2>4, <2>5 DEF CallInv
<1>3. ASSUME NEW i \in Site, RemoveSite(i) \/ \E v \in Server : CloseTerminal(i, v) PROVE CallInv'
  BY <1>3 DEF RemoveSite, CloseTerminal, CallInv, shellVars
<1>4. ASSUME NEW i \in Site, SendClose(i) PROVE CallInv'
  <2>1. PICK s \in toClose[i] : Send(ServerOf[s], "close", s)
    BY <1>4 DEF SendClose
  <2>2. s \in Session
    BY DEF TypeOK
  <2>3. /\ \A w \in Server : OneRun(inbox'[w])
        /\ \A w \in Server : \A m \in Msgs(inbox'[w]) :
              m \in Msgs(inbox[w]) \/ (w = ServerOf[s] /\ m = [kind |-> "close", session |-> s])
    BY <2>1, <2>2, SendMsgs
  <2>4. UNCHANGED <<call, shell, answer>>
    BY <1>4 DEF SendClose, shellVars
  <2>5. \A w \in Server : \A m \in Msgs(inbox'[w]) :
           /\ m.session \in Session /\ ServerOf[m.session] = w
           /\ m.kind = "run" => call[m.session] # "unused" /\ shell[m.session] = "none"
    BY <2>2, <2>3 DEF CallInv
  <2> QED
    BY <2>3, <2>4, <2>5 DEF CallInv
<1>5. ASSUME NEW v \in Server, ReadRun(v) \/ ReadClose(v) PROVE CallInv'
  <2> DEFINE h == Head(inbox[v])
  <2>1. /\ inbox[v] # <<>> /\ inbox' = [inbox EXCEPT ![v] = Tail(@)]
        /\ UNCHANGED <<call, answer>>
    BY <1>5 DEF ReadRun, ReadClose
  <2>2. /\ h \in Msgs(inbox[v])
        /\ h.kind = "run" => \A w \in Server : \A m \in Msgs(inbox'[w]) :
              m.kind = "run" => m.session # h.session
        /\ \A w \in Server : Msgs(inbox'[w]) \subseteq Msgs(inbox[w]) /\ OneRun(inbox'[w])
    BY <2>1, ReadMsgs
  <2>3. h.session \in Session
    BY <2>1, HeadType
  <2>4. \/ h.kind = "run" /\ shell' = [shell EXCEPT ![h.session] = "starting"]
        \/ shell' = [shell EXCEPT ![h.session] = IF @ = "listed" THEN "dead" ELSE @]
    BY <1>5 DEF ReadRun, ReadClose
  <2> HIDE DEF h
  <2>5. \A t \in Session : t # h.session => shell'[t] = shell[t]
    BY <2>4 DEF TypeOK
  <2>6. CASE h.kind = "run" /\ shell' = [shell EXCEPT ![h.session] = "starting"]
    <3>1. call[h.session] # "unused" /\ shell[h.session] = "none" /\ answer[h.session] = "none"
      BY <2>2, <2>3, <2>6 DEF CallInv
    <3>2. \A w \in Server : \A m \in Msgs(inbox'[w]) :
             /\ m.session \in Session /\ ServerOf[m.session] = w
             /\ m.kind = "run" => call[m.session] # "unused" /\ shell'[m.session] = "none"
      BY <2>2, <2>5, <2>6 DEF CallInv
    <3>3. \A t \in Session : answer[t] # "none" => shell'[t] \in {"listed", "dead"}
      BY <2>5, <3>1 DEF CallInv
    <3>4. \A t \in Session : call[t] = "unused" => shell'[t] = "none"
      BY <2>5, <3>1 DEF CallInv
    <3> QED
      BY <2>1, <2>2, <3>2, <3>3, <3>4 DEF CallInv
  <2>7. CASE shell' = [shell EXCEPT ![h.session] = IF @ = "listed" THEN "dead" ELSE @]
    <3>1. \A t \in Session : shell'[t] = shell[t] \/ (shell[t] = "listed" /\ shell'[t] = "dead")
      BY <2>3, <2>5, <2>7 DEF TypeOK
    <3>2. \A w \in Server : \A m \in Msgs(inbox'[w]) :
             /\ m.session \in Session /\ ServerOf[m.session] = w
             /\ m.kind = "run" => call[m.session] # "unused" /\ shell'[m.session] = "none"
      BY <2>2, <3>1 DEF CallInv
    <3>3. \A t \in Session : answer[t] # "none" => shell'[t] \in {"listed", "dead"}
      BY <3>1 DEF CallInv
    <3>4. \A t \in Session : call[t] = "unused" => shell'[t] = "none"
      BY <3>1 DEF CallInv
    <3> QED
      BY <2>1, <2>2, <3>2, <3>3, <3>4 DEF CallInv
  <2> QED
    BY <2>4, <2>6, <2>7
<1>6. ASSUME NEW v \in Server, AgentReadFails(v) PROVE CallInv'
  <2>1. \A w \in Server : Msgs(inbox'[w]) \subseteq Msgs(inbox[w]) /\ OneRun(inbox'[w])
    BY <1>6, EmptyMsgs DEF AgentReadFails, CallInv, TypeOK
  <2>2. \A t \in Session : shell'[t] = shell[t] \/ (shell[t] = "listed" /\ shell'[t] = "dead")
    BY <1>6 DEF AgentReadFails
  <2>3. UNCHANGED <<call, answer>>
    BY <1>6 DEF AgentReadFails
  <2>4. \A w \in Server : \A m \in Msgs(inbox'[w]) :
           /\ m.session \in Session /\ ServerOf[m.session] = w
           /\ m.kind = "run" => call[m.session] # "unused" /\ shell'[m.session] = "none"
    BY <2>1, <2>2 DEF CallInv
  <2>5. \A t \in Session : answer[t] # "none" => shell'[t] \in {"listed", "dead"}
    BY <2>2 DEF CallInv
  <2>6. \A t \in Session : call[t] = "unused" => shell'[t] = "none"
    BY <2>2 DEF CallInv
  <2> QED
    BY <2>1, <2>3, <2>4, <2>5, <2>6 DEF CallInv
<1>7. ASSUME NEW v \in Server, AgentDisconnects(v) \/ Register(v) PROVE CallInv'
  BY <1>7 DEF AgentDisconnects, Register, CallInv, shellVars
<1>8. ASSUME NEW s \in Session, Starter(s) \/ ShellExits(s) PROVE CallInv'
  <2>1. UNCHANGED <<call, inbox>>
    BY <1>8 DEF Starter, StartShell, StartFails, ListShell, AnswerOpened, ShellExits
  <2>2. /\ shell[s] # "none"
        /\ \A t \in Session : t # s => shell'[t] = shell[t] /\ answer'[t] = answer[t]
    BY <1>8 DEF Starter, StartShell, StartFails, ListShell, AnswerOpened, ShellExits, TypeOK
  <2>3. /\ shell'[s] # "none"
        /\ answer'[s] # "none" => shell'[s] \in {"listed", "dead"}
        /\ answer[s] = "ok" => answer'[s] = "ok"
    <3>0. shell[s] \in {"starting", "unlisted"} => answer[s] = "none"
      BY DEF CallInv
    <3>1. CASE StartShell(s)
      BY <3>0, <3>1 DEF StartShell, TypeOK
    <3>2. CASE StartFails(s)
      BY <3>0, <3>2 DEF StartFails, TypeOK
    <3>3. CASE ListShell(s)
      BY <3>0, <3>3 DEF ListShell, TypeOK
    <3>4. CASE AnswerOpened(s)
      BY <3>4 DEF AnswerOpened, CallInv, TypeOK
    <3>5. CASE ShellExits(s)
      BY <3>5 DEF ShellExits, CallInv, TypeOK
    <3> QED
      BY <1>8, <3>1, <3>2, <3>3, <3>4, <3>5 DEF Starter
  <2>4. \A w \in Server : \A m \in Msgs(inbox[w]) : m.kind = "run" => shell'[m.session] = "none"
    BY <2>2 DEF CallInv
  <2>5. \A t \in Session : call[t] = "unused" => shell'[t] = "none"
    BY <2>2 DEF CallInv
  <2>6. \A t \in Session : answer'[t] # "none" => shell'[t] \in {"listed", "dead"}
    BY <2>2, <2>3 DEF CallInv
  <2>7. \A t \in Session : call[t] = "opened" => answer'[t] = "ok"
    BY <2>2, <2>3 DEF CallInv
  <2> QED
    BY <2>1, <2>4, <2>5, <2>6, <2>7 DEF CallInv
<1>9. ASSUME NEW v \in Server, Connect(v) PROVE CallInv'
  <2>1. \A w \in Server : Msgs(inbox'[w]) \subseteq Msgs(inbox[w]) /\ OneRun(inbox'[w])
    BY <1>9, EmptyMsgs DEF Connect, CallInv, TypeOK
  <2> QED
    BY <1>9, <2>1, FewerMessages DEF Connect, shellVars
<1>10. ASSUME NEW v \in Server, ConnectionLost(v) PROVE CallInv'
  <2>1. PICK kept \in 0..Len(inbox[v]) : CutOff(v, kept)
    BY <1>10 DEF ConnectionLost
  <2> QED
    BY <1>10, <2>1, CutOffMsgs, FewerMessages DEF ConnectionLost, shellVars
<1>11. ASSUME NEW v \in Server, HubForgets(v) PROVE CallInv'
  <2>1. UNCHANGED <<call, shell, answer>>
    BY <1>11 DEF HubForgets, shellVars
  <2>2. CASE UNCHANGED inbox
    BY <2>1, <2>2 DEF CallInv
  <2>3. ASSUME NEW kept \in 0..Len(inbox[v]), CutOff(v, kept) PROVE CallInv'
    BY <2>1, <2>3, CutOffMsgs, FewerMessages
  <2> QED
    BY <1>11, <2>2, <2>3 DEF HubForgets
<1>12. ASSUME BackendCrash PROVE CallInv'
  <2>1. UNCHANGED <<inbox, shell, answer>>
    BY <1>12 DEF BackendCrash, shellVars
  <2>2. \A t \in Session : /\ call'[t] = "unused" <=> call[t] = "unused"
                           /\ call'[t] = "opened" => call[t] = "opened"
    BY <1>12 DEF BackendCrash
  <2> QED
    BY <2>1, <2>2 DEF CallInv
<1>13. CASE UNCHANGED vars
  BY <1>13 DEF vars, CallInv
<1> QED
  BY <1>1, <1>2, <1>3, <1>4, <1>5, <1>6, <1>7, <1>8, <1>9, <1>10, <1>11, <1>12, <1>13
  DEF Next, Reader

-----------------------------------------------------------------------------
(* The maps of the hub *)

\* A site holds sessions it opened itself, has nothing left to close unless it is closing,
\* and waits for one answer at most.
MapInv ==
    /\ MapsAgree
    /\ \A s \in terminals : call[s] = "opened"
    /\ \A i \in Site, v \in Server : active[i][v] # NoSession =>
          OpenerOf[active[i][v]] = i /\ ServerOf[active[i][v]] = v
    /\ \A i \in Site : site[i] \notin {"closing", "leaving"} => toClose[i] = {}
    /\ \A s \in Session : call[s] = "asked" => site[OpenerOf[s]] = "opening"
    /\ \A s, t \in Session : call[s] = "asked" /\ call[t] = "asked" /\ OpenerOf[s] = OpenerOf[t] => s = t

LEMMA InitMapInv == Init => MapInv
  BY SessionAssumption, OpenerAssumption, ServerAssumption DEF Init, MapInv, MapsAgree

LEMMA NextMapInv == TypeOK /\ MapInv /\ [Next]_vars => MapInv'
<1> SUFFICES ASSUME TypeOK, MapInv, [Next]_vars PROVE MapInv'
  OBVIOUS
<1> USE OpenerAssumption, ServerAssumption, SessionAssumption
<1>1. ASSUME NEW s \in Session, OpenTerminal(s) PROVE MapInv'
  <2>1. /\ site[OpenerOf[s]] = "loop" /\ call[s] = "unused" /\ OpenerOf[s] \in Site
        /\ UNCHANGED <<terminals, active, toClose>>
    BY <1>1 DEF OpenTerminal, mapVars
  <2>2. \/ call' = [call EXCEPT ![s] = "failed"] /\ site' = site
        \/ call' = [call EXCEPT ![s] = "asked"] /\ site' = [site EXCEPT ![OpenerOf[s]] = "opening"]
    BY <1>1 DEF OpenTerminal
  <2>3. \A t \in Session : t # s => call'[t] = call[t]
    BY <2>2 DEF TypeOK
  <2>4. \A i \in Site : i # OpenerOf[s] => site'[i] = site[i]
    BY <2>2 DEF TypeOK
  <2>5. \/ call'[s] = "failed" /\ site'[OpenerOf[s]] = "loop"
        \/ call'[s] = "asked" /\ site'[OpenerOf[s]] = "opening"
    BY <2>1, <2>2 DEF TypeOK
  <2>6. \A t \in Session : t # s /\ OpenerOf[t] = OpenerOf[s] => call[t] # "asked"
    BY <2>1 DEF MapInv
  <2>7. \A t \in terminals' : call'[t] = "opened"
    BY <2>1, <2>3 DEF MapInv, TypeOK
  <2>8. \A i \in Site : site'[i] \notin {"closing", "leaving"} => toClose'[i] = {}
    BY <2>1, <2>4 DEF MapInv
  <2>9. \A t \in Session : call'[t] = "asked" => site'[OpenerOf[t]] = "opening"
    BY <2>3, <2>4, <2>5, <2>6 DEF MapInv
  <2>10. \A t, u \in Session :
            call'[t] = "asked" /\ call'[u] = "asked" /\ OpenerOf[t] = OpenerOf[u] => t = u
    BY <2>3, <2>6 DEF MapInv
  <2> QED
    BY <2>1, <2>7, <2>8, <2>9, <2>10 DEF MapInv, MapsAgree
<1>2. ASSUME NEW s \in Session, OpenSucceeds(s) PROVE MapInv'
  <2> DEFINE i == OpenerOf[s]
             v == ServerOf[s]
             p == active[i][v]
  <2>1. /\ call[s] = "asked" /\ i \in Site /\ v \in Server
        /\ call' = [call EXCEPT ![s] = "opened"]
        /\ terminals' = (terminals \ {p}) \cup {s}
        /\ active' = [active EXCEPT ![i][v] = s]
        /\ toClose' = [toClose EXCEPT ![i] = {p} \ {NoSession}]
        /\ site' = [site EXCEPT ![i] = IF p = NoSession THEN "loop" ELSE "closing"]
    BY <1>2 DEF OpenSucceeds
  <2> HIDE DEF p
  <2>2. call'[s] = "opened" /\ \A t \in Session : t # s => call'[t] = call[t]
    BY <2>1 DEF TypeOK
  <2>3. /\ active'[i][v] = s
        /\ \A j \in Site, w \in Server : j # i \/ w # v => active'[j][w] = active[j][w]
    BY <2>1 DEF TypeOK
  <2>4. MapsAgree'
    <3> SUFFICES ASSUME NEW t \in Session
                 PROVE  t \in terminals' <=> active'[OpenerOf[t]][ServerOf[t]] = t
      BY DEF MapsAgree
    <3>1. CASE OpenerOf[t] = i /\ ServerOf[t] = v
      BY <2>1, <2>3, <3>1 DEF MapInv, MapsAgree, p
    <3>2. CASE OpenerOf[t] # i \/ ServerOf[t] # v
      <4>1. t # s
        BY <3>2
      <4>2. t # p
        BY <2>1, <3>2 DEF MapInv, p
      <4>3. active'[OpenerOf[t]][ServerOf[t]] = active[OpenerOf[t]][ServerOf[t]]
        BY <2>3, <3>2
      <4> QED
        BY <2>1, <4>1, <4>2, <4>3 DEF MapInv, MapsAgree
    <3> QED
      BY <3>1, <3>2
  <2>5. \A t \in terminals' : call'[t] = "opened"
    BY <2>1, <2>2 DEF MapInv, TypeOK
  <2>6. \A j \in Site, w \in Server : active'[j][w] # NoSession =>
           OpenerOf[active'[j][w]] = j /\ ServerOf[active'[j][w]] = w
    BY <2>1, <2>3 DEF MapInv
  <2>7. \A j \in Site : site'[j] \notin {"closing", "leaving"} => toClose'[j] = {}
    BY <2>1 DEF MapInv, TypeOK
  <2>8. \A t \in Session : call'[t] = "asked" => t # s /\ call[t] = "asked" /\ OpenerOf[t] # i
    BY <2>1, <2>2 DEF MapInv
  <2>9. \A t \in Session : call'[t] = "asked" => site'[OpenerOf[t]] = "opening"
    BY <2>1, <2>8 DEF MapInv, TypeOK
  <2>10. \A t, u \in Session :
            call'[t] = "asked" /\ call'[u] = "asked" /\ OpenerOf[t] = OpenerOf[u] => t = u
    BY <2>8 DEF MapInv
  <2> QED
    BY <2>4, <2>5, <2>6, <2>7, <2>9, <2>10 DEF MapInv
<1>3. ASSUME NEW s \in Session, OpenFails(s) PROVE MapInv'
  <2>1. /\ call[s] = "asked" /\ OpenerOf[s] \in Site
        /\ call' = [call EXCEPT ![s] = "failed"]
        /\ site' = [site EXCEPT ![OpenerOf[s]] = "loop"]
        /\ UNCHANGED <<terminals, active, toClose>>
    BY <1>3 DEF OpenFails, mapVars
  <2>2. call'[s] = "failed" /\ \A t \in Session : t # s => call'[t] = call[t]
    BY <2>1 DEF TypeOK
  <2>3. \A t \in Session : call'[t] = "asked" => t # s /\ call[t] = "asked" /\ OpenerOf[t] # OpenerOf[s]
    BY <2>1, <2>2 DEF MapInv
  <2>4. \A t \in terminals' : call'[t] = "opened"
    BY <2>1, <2>2 DEF MapInv, TypeOK
  <2>5. \A j \in Site : site'[j] \notin {"closing", "leaving"} => toClose'[j] = {}
    BY <2>1 DEF MapInv, TypeOK
  <2>6. \A t \in Session : call'[t] = "asked" => site'[OpenerOf[t]] = "opening"
    BY <2>1, <2>3 DEF MapInv, TypeOK
  <2>7. \A t, u \in Session :
            call'[t] = "asked" /\ call'[u] = "asked" /\ OpenerOf[t] = OpenerOf[u] => t = u
    BY <2>3 DEF MapInv
  <2> QED
    BY <2>1, <2>4, <2>5, <2>6, <2>7 DEF MapInv, MapsAgree
<1>4. ASSUME NEW i \in Site, NEW v \in Server, CloseTerminal(i, v) PROVE MapInv'
  <2> DEFINE p == active[i][v]
  <2>1. /\ site[i] = "loop" /\ p # NoSession /\ UNCHANGED call
        /\ active' = [active EXCEPT ![i][v] = NoSession]
        /\ terminals' = terminals \ {p}
        /\ toClose' = [toClose EXCEPT ![i] = {p}]
        /\ site' = [site EXCEPT ![i] = "closing"]
    BY <1>4 DEF CloseTerminal
  <2>2. OpenerOf[p] = i /\ ServerOf[p] = v
    BY <2>1 DEF MapInv
  <2>3. /\ active'[i][v] = NoSession
        /\ \A j \in Site, w \in Server : j # i \/ w # v => active'[j][w] = active[j][w]
    BY <2>1 DEF TypeOK
  <2>4. MapsAgree'
    <3> SUFFICES ASSUME NEW t \in Session
                 PROVE  t \in terminals' <=> active'[OpenerOf[t]][ServerOf[t]] = t
      BY DEF MapsAgree
    <3>1. t \in terminals <=> active[OpenerOf[t]][ServerOf[t]] = t
      BY DEF MapInv, MapsAgree
    <3>2. CASE OpenerOf[t] = i /\ ServerOf[t] = v
      BY <2>1, <2>3, <3>1, <3>2
    <3>3. CASE OpenerOf[t] # i \/ ServerOf[t] # v
      BY <2>1, <2>2, <2>3, <3>1, <3>3
    <3> QED
      BY <3>2, <3>3
  <2>5. \A j \in Site, w \in Server : active'[j][w] # NoSession =>
           OpenerOf[active'[j][w]] = j /\ ServerOf[active'[j][w]] = w
    BY <2>3 DEF MapInv
  <2>6. \A j \in Site : site'[j] \notin {"closing", "leaving"} => toClose'[j] = {}
    BY <2>1 DEF MapInv, TypeOK
  <2>7. \A t \in Session : call'[t] = "asked" => site'[OpenerOf[t]] = "opening"
    BY <2>1 DEF MapInv, TypeOK
  <2> QED
    BY <2>1, <2>4, <2>5, <2>6, <2>7 DEF MapInv
<1>5. ASSUME NEW i \in Site, RemoveSite(i) PROVE MapInv'
  <2> DEFINE mine == {active[i][v] : v \in Server} \ {NoSession}
  <2>1. /\ site[i] = "loop" /\ UNCHANGED call
        /\ active' = [active EXCEPT ![i] = [v \in Server |-> NoSession]]
        /\ terminals' = terminals \ mine
        /\ toClose' = [toClose EXCEPT ![i] = mine]
        /\ site' = [site EXCEPT ![i] = IF mine = {} THEN "gone" ELSE "leaving"]
    BY <1>5 DEF RemoveSite
  <2>2. \A t \in mine : OpenerOf[t] = i
    BY DEF MapInv
  <2>3. \A t \in terminals : OpenerOf[t] = i => t \in mine
    BY DEF MapInv, MapsAgree, TypeOK
  <2> HIDE DEF mine
  <2>4. /\ \A w \in Server : active'[i][w] = NoSession
        /\ \A j \in Site : j # i => active'[j] = active[j]
    BY <2>1 DEF TypeOK
  <2>5. MapsAgree'
    <3> SUFFICES ASSUME NEW t \in Session
                 PROVE  t \in terminals' <=> active'[OpenerOf[t]][ServerOf[t]] = t
      BY DEF MapsAgree
    <3>1. t \in terminals <=> active[OpenerOf[t]][ServerOf[t]] = t
      BY DEF MapInv, MapsAgree
    <3>2. CASE OpenerOf[t] = i
      BY <2>1, <2>3, <2>4, <3>1, <3>2
    <3>3. CASE OpenerOf[t] # i
      BY <2>1, <2>2, <2>4, <3>1, <3>3
    <3> QED
      BY <3>2, <3>3
  <2>6. \A j \in Site, w \in Server : active'[j][w] # NoSession =>
           OpenerOf[active'[j][w]] = j /\ ServerOf[active'[j][w]] = w
    BY <2>4 DEF MapInv
  <2>7. \A j \in Site : site'[j] \notin {"closing", "leaving"} => toClose'[j] = {}
    BY <2>1 DEF MapInv, TypeOK
  <2>8. \A t \in Session : call'[t] = "asked" => site'[OpenerOf[t]] = "opening"
    BY <2>1 DEF MapInv, TypeOK
  <2> QED
    BY <2>1, <2>5, <2>6, <2>7, <2>8 DEF MapInv
<1>6. ASSUME NEW i \in Site, SendClose(i) PROVE MapInv'
  <2>1. PICK s \in toClose[i] :
            /\ toClose' = [toClose EXCEPT ![i] = @ \ {s}]
            /\ site' = IF toClose[i] # {s} THEN site ELSE
                           [site EXCEPT ![i] = IF @ = "leaving" THEN "gone" ELSE "loop"]
            /\ UNCHANGED <<terminals, active, call>>
    BY <1>6 DEF SendClose, mapVars
  <2>2. site[i] \in {"closing", "leaving"}
    BY <2>1 DEF MapInv
  <2>3. \A j \in Site : j # i => site'[j] = site[j] /\ toClose'[j] = toClose[j]
    BY <2>1 DEF TypeOK
  <2>4. site'[i] \notin {"closing", "leaving"} => toClose'[i] = {}
    BY <2>1, <2>2 DEF TypeOK
  <2>5. \A t \in Session : call[t] = "asked" => OpenerOf[t] # i
    BY <2>2 DEF MapInv
  <2>6. \A j \in Site : site'[j] \notin {"closing", "leaving"} => toClose'[j] = {}
    BY <2>3, <2>4 DEF MapInv
  <2>7. \A t \in Session : call[t] = "asked" => site'[OpenerOf[t]] = "opening"
    BY <2>3, <2>5 DEF MapInv
  <2> QED
    BY <2>1, <2>6, <2>7 DEF MapInv, MapsAgree
<1>7. ASSUME NEW s \in Session, Starter(s) \/ ShellExits(s) PROVE MapInv'
  BY <1>7 DEF Starter, StartShell, StartFails, ListShell, AnswerOpened, ShellExits, mapVars, MapInv, MapsAgree
<1>8. ASSUME NEW v \in Server,
             Reader(v) \/ AgentReadFails(v) \/ Connect(v) \/ Register(v) \/ ConnectionLost(v) \/ HubForgets(v)
      PROVE  MapInv'
  BY <1>8 DEF Reader, ReadRun, ReadClose, AgentDisconnects, AgentReadFails, Connect, Register,
     ConnectionLost, HubForgets, mapVars, MapInv, MapsAgree
<1>9. ASSUME BackendCrash PROVE MapInv'
  <2>1. /\ terminals' = {} /\ \A i \in Site, v \in Server : active'[i][v] = NoSession
        /\ \A i \in Site : toClose'[i] = {}
        /\ \A t \in Session : call'[t] # "asked"
    BY <1>9 DEF BackendCrash
  <2> QED
    BY <2>1 DEF MapInv, MapsAgree
<1>10. CASE UNCHANGED vars
  BY <1>10 DEF vars, MapInv, MapsAgree
<1> QED
  BY <1>1, <1>2, <1>3, <1>4, <1>5, <1>6, <1>7, <1>8, <1>9, <1>10 DEF Next, Caller

-----------------------------------------------------------------------------
(* Connections and the shells opened over them *)

\* A shell that was answered ok is listed on the agent only as long as the connection it was
\* opened over, unless closeAllTerminals missed it; and while that connection carries, the
\* hub has its client.
NetInv ==
    /\ \A s \in Session : via[s] <= link[ServerOf[s]]
    /\ \A v \in Server : agent[v] # "down" => link[v] # 0
    /\ \A s \in Session :
          via[s] = link[ServerOf[s]] /\ via[s] # 0 /\ wire[ServerOf[s]] => hub[ServerOf[s]] = "current"
    /\ \A s \in Session : agent[ServerOf[s]] = "closing" /\ shell[s] = "listed" => s \in missed
    /\ \A s \in Session : answer[s] = "ok" /\ shell[s] = "listed" /\ s \notin missed =>
          agent[ServerOf[s]] = "up" /\ via[s] = link[ServerOf[s]]

LEMMA InitNetInv == Init => NetInv
  BY ServerAssumption DEF Init, NetInv

LEMMA NextNetInv == TypeOK /\ CallInv /\ NetInv /\ [Next]_vars => NetInv'
<1> SUFFICES ASSUME TypeOK, CallInv, NetInv, [Next]_vars PROVE NetInv'
  OBVIOUS
<1> USE ServerAssumption, LinkAssumption
<1>1. ASSUME NEW s \in Session, OpenTerminal(s) PROVE NetInv'
  <2>1. /\ shell[s] = "none" /\ ServerOf[s] \in Server
        /\ UNCHANGED <<hub, agent, link, wire, shell, answer, missed>>
    BY <1>1 DEF OpenTerminal, CallInv, netVars, shellVars
  <2>2. \/ UNCHANGED via
        \/ via' = [via EXCEPT ![s] = IF hub[ServerOf[s]] = "current" THEN link[ServerOf[s]] ELSE 0]
    BY <1>1 DEF OpenTerminal
  <2>3. \A t \in Session : t # s => via'[t] = via[t]
    BY <2>2 DEF TypeOK
  <2>4. via'[s] = via[s] \/ via'[s] = 0 \/ (via'[s] = link[ServerOf[s]] /\ hub[ServerOf[s]] = "current")
    BY <2>2 DEF TypeOK
  <2>5. link[ServerOf[s]] \in Nat
    BY <2>1 DEF TypeOK
  <2>6. \A t \in Session : via'[t] <= link[ServerOf[t]]
    BY <2>3, <2>4, <2>5 DEF NetInv
  <2>7. \A t \in Session : via'[t] = link[ServerOf[t]] /\ via'[t] # 0 /\ wire[ServerOf[t]]
                           => hub[ServerOf[t]] = "current"
    BY <2>3, <2>4 DEF NetInv
  <2>8. \A t \in Session : answer[t] = "ok" /\ shell[t] = "listed" /\ t \notin missed =>
           agent[ServerOf[t]] = "up" /\ via'[t] = link[ServerOf[t]]
    BY <2>1, <2>3 DEF NetInv
  <2> QED
    BY <2>1, <2>6, <2>7, <2>8 DEF NetInv
<1>2. ASSUME \/ \E s \in Session : Caller(s)
             \/ \E i \in Site : RemoveSite(i) \/ SendClose(i) \/ \E v \in Server : CloseTerminal(i, v)
      PROVE  NetInv'
  <2>1. UNCHANGED <<via, hub, agent, link, wire, shell, answer, missed>>
    BY <1>2 DEF Caller, OpenSucceeds, OpenFails, RemoveSite, SendClose, CloseTerminal, netVars, shellVars
  <2> QED
    BY <2>1 DEF NetInv
<1>3. ASSUME NEW v \in Server, ReadRun(v) \/ ReadClose(v) PROVE NetInv'
  <2> DEFINE h == Head(inbox[v]).session
  <2>1. UNCHANGED <<via, hub, agent, link, wire, answer, missed>>
    BY <1>3 DEF ReadRun, ReadClose, netVars
  <2>2. h \in Session
    BY <1>3, HeadType DEF ReadRun, ReadClose
  <2>3. \/ shell' = [shell EXCEPT ![h] = "starting"]
        \/ shell' = [shell EXCEPT ![h] = IF @ = "listed" THEN "dead" ELSE @]
    BY <1>3 DEF ReadRun, ReadClose
  <2>4. \A t \in Session : shell'[t] = "listed" => shell[t] = "listed"
    BY <2>2, <2>3 DEF TypeOK
  <2> QED
    BY <2>1, <2>4 DEF NetInv
<1>4. ASSUME NEW v \in Server, AgentReadFails(v) PROVE NetInv'
  <2>1. /\ agent[v] = "up" /\ agent' = [agent EXCEPT ![v] = "closing"]
        /\ UNCHANGED <<via, hub, link, wire, answer, missed>>
    BY <1>4 DEF AgentReadFails
  <2>2. \A t \in Session : shell'[t] = "listed" => ServerOf[t] # v /\ shell[t] = "listed"
    BY <1>4 DEF AgentReadFails
  <2>3. \A w \in Server : w # v => agent'[w] = agent[w]
    BY <2>1 DEF TypeOK
  <2>4. \A w \in Server : agent'[w] # "down" => link[w] # 0
    BY <2>1, <2>3 DEF NetInv
  <2> QED
    BY <2>1, <2>2, <2>3, <2>4 DEF NetInv
<1>5. ASSUME NEW v \in Server, AgentDisconnects(v) PROVE NetInv'
  <2>1. /\ agent[v] = "closing" /\ agent' = [agent EXCEPT ![v] = "down"]
        /\ wire' = [wire EXCEPT ![v] = FALSE]
        /\ UNCHANGED <<via, hub, link, shell, answer, missed>>
    BY <1>5 DEF AgentDisconnects, shellVars
  <2>2. agent'[v] = "down" /\ \A w \in Server : w # v => agent'[w] = agent[w] /\ wire'[w] = wire[w]
    BY <2>1 DEF TypeOK
  <2>3. ~wire'[v]
    BY <2>1 DEF TypeOK
  <2> QED
    BY <2>1, <2>2, <2>3 DEF NetInv
<1>6. ASSUME NEW s \in Session, Starter(s) \/ ShellExits(s) PROVE NetInv'
  <2>1. UNCHANGED <<via, hub, agent, link, wire>>
    BY <1>6 DEF Starter, StartShell, StartFails, ListShell, AnswerOpened, ShellExits, netVars
  <2>2. \A t \in Session : t # s => shell'[t] = shell[t] /\ answer'[t] = answer[t]
    BY <1>6 DEF Starter, StartShell, StartFails, ListShell, AnswerOpened, ShellExits, TypeOK
  <2>3. missed \subseteq missed' /\ ServerOf[s] \in Server
    BY <1>6 DEF Starter, StartShell, StartFails, ListShell, AnswerOpened, ShellExits
  <2>4. /\ agent[ServerOf[s]] = "closing" /\ shell'[s] = "listed" => s \in missed'
        /\ answer'[s] = "ok" /\ shell'[s] = "listed" /\ s \notin missed' =>
             agent[ServerOf[s]] = "up" /\ via[s] = link[ServerOf[s]]
    <3>1. CASE StartShell(s) \/ StartFails(s) \/ ShellExits(s)
      <4>1. shell'[s] # "listed"
        BY <3>1 DEF StartShell, StartFails, ShellExits, TypeOK
      <4> QED
        BY <4>1
    <3>2. CASE ListShell(s)
      <4>1. answer'[s] = "none"
        BY <3>2 DEF ListShell, CallInv
      <4>2. agent[ServerOf[s]] = "closing" => s \in missed'
        BY <3>2 DEF ListShell
      <4> QED
        BY <4>1, <4>2
    <3>3. CASE AnswerOpened(s)
      <4>1. UNCHANGED <<shell, missed>>
        BY <3>3 DEF AnswerOpened
      <4>2. answer'[s] = "ok" => agent[ServerOf[s]] # "down" /\ via[s] = link[ServerOf[s]]
        BY <3>3 DEF AnswerOpened, TypeOK
      <4>3. agent[ServerOf[s]] \in {"down", "up", "closing"}
        BY <2>3 DEF TypeOK
      <4> QED
        BY <4>1, <4>2, <4>3 DEF NetInv
    <3> QED
      BY <1>6, <3>1, <3>2, <3>3 DEF Starter
  <2>5. \A t \in Session : agent[ServerOf[t]] = "closing" /\ shell'[t] = "listed" => t \in missed'
    BY <2>2, <2>3, <2>4 DEF NetInv
  <2>6. \A t \in Session : answer'[t] = "ok" /\ shell'[t] = "listed" /\ t \notin missed' =>
           agent[ServerOf[t]] = "up" /\ via[t] = link[ServerOf[t]]
    BY <2>2, <2>3, <2>4 DEF NetInv
  <2> QED
    BY <2>1, <2>5, <2>6 DEF NetInv
<1>7. ASSUME NEW v \in Server, Connect(v) PROVE NetInv'
  <2>1. /\ agent[v] = "down" /\ agent' = [agent EXCEPT ![v] = "up"]
        /\ link' = [link EXCEPT ![v] = @ + 1]
        /\ UNCHANGED <<via, shell, answer, missed>>
    BY <1>7 DEF Connect, shellVars
  <2>2. link[v] \in Nat /\ link'[v] = link[v] + 1 /\ agent'[v] = "up"
    BY <2>1 DEF TypeOK
  <2>3. \A w \in Server : w # v => /\ agent'[w] = agent[w] /\ link'[w] = link[w]
                                   /\ wire'[w] = wire[w] /\ hub'[w] = hub[w]
    BY <1>7 DEF Connect, TypeOK
  <2>4. \A t \in Session : via[t] \in Nat
    BY DEF TypeOK
  <2>5. \A t \in Session : ServerOf[t] = v => via[t] <= link'[v] /\ via[t] # link'[v]
    BY <2>2, <2>4 DEF NetInv
  <2>6. \A t \in Session : via[t] <= link'[ServerOf[t]]
    BY <2>3, <2>5 DEF NetInv
  <2>7. \A w \in Server : agent'[w] # "down" => link'[w] # 0
    BY <2>2, <2>3 DEF NetInv
  <2>8. \A t \in Session :
           via[t] = link'[ServerOf[t]] /\ via[t] # 0 /\ wire'[ServerOf[t]] => hub'[ServerOf[t]] = "current"
    BY <2>3, <2>5 DEF NetInv
  <2>9. \A t \in Session : agent'[ServerOf[t]] = "closing" /\ shell[t] = "listed" => t \in missed
    BY <2>2, <2>3 DEF NetInv
  <2>10. \A t \in Session : answer[t] = "ok" /\ shell[t] = "listed" /\ t \notin missed =>
           agent'[ServerOf[t]] = "up" /\ via[t] = link'[ServerOf[t]]
    BY <2>1, <2>3 DEF NetInv
  <2> QED
    BY <2>1, <2>6, <2>7, <2>8, <2>9, <2>10 DEF NetInv
<1>8. ASSUME NEW v \in Server, Register(v) PROVE NetInv'
  <2>1. \A w \in Server : hub'[w] = "current" \/ hub'[w] = hub[w]
    BY <1>8 DEF Register, TypeOK
  <2>2. UNCHANGED <<via, agent, link, wire, shell, answer, missed>>
    BY <1>8 DEF Register, shellVars
  <2> QED
    BY <2>1, <2>2 DEF NetInv
<1>9. ASSUME NEW v \in Server, ConnectionLost(v) \/ HubForgets(v) PROVE NetInv'
  <2>1. UNCHANGED <<via, agent, link, shell, answer, missed>>
    BY <1>9 DEF ConnectionLost, HubForgets, shellVars
  <2>2. \A w \in Server : /\ wire'[w] => wire[w]
                          /\ wire'[w] /\ hub[w] = "current" => hub'[w] = "current"
    <3>1. CASE ConnectionLost(v)
      BY <3>1 DEF ConnectionLost, TypeOK
    <3>2. CASE HubForgets(v)
      BY <3>2 DEF HubForgets, TypeOK
    <3> QED
      BY <1>9, <3>1, <3>2
  <2> QED
    BY <2>1, <2>2 DEF NetInv
<1>10. ASSUME BackendCrash PROVE NetInv'
  <2>1. UNCHANGED <<via, agent, link, shell, answer, missed>>
    BY <1>10 DEF BackendCrash, shellVars
  <2>2. \A w \in Server : ~wire'[w]
    BY <1>10 DEF BackendCrash
  <2> QED
    BY <2>1, <2>2 DEF NetInv
<1>11. CASE UNCHANGED vars
  BY <1>11 DEF vars, NetInv
<1> QED
  BY <1>1, <1>2, <1>3, <1>4, <1>5, <1>6, <1>7, <1>8, <1>9, <1>10, <1>11 DEF Next, Reader

-----------------------------------------------------------------------------
(* Shells that nobody owns *)

Close(s) == [kind |-> "close", session |-> s]

\* The shell of a session that was opened, has no owner any more, and was not missed.
Left(s) == shell[s] \in Alive /\ call[s] = "opened" /\ s \notin terminals /\ s \notin missed

\* What will end it.
Ending(s) ==
    /\ agent[ServerOf[s]] = "up"
    /\ \/ s \in toClose[OpenerOf[s]]
       \/ Close(s) \in Msgs(inbox[ServerOf[s]])
       \/ ~wire[ServerOf[s]]

OrphanInv == \A s \in Session : Left(s) => Ending(s)

LEMMA OrphanInvNoOrphan == TypeOK /\ CallInv /\ OrphanInv => NoOrphan
<1> SUFFICES ASSUME TypeOK, CallInv, OrphanInv, NEW s \in Session, shell[s] \in Alive,
                    s \notin terminals, call[s] \notin {"asked", "failed"}, s \notin missed
             PROVE  Ending(s)
  BY DEF NoOrphan, Ending, InFlight, Msgs, Close
<1>1. call[s] = "opened"
  BY DEF CallInv, Alive, TypeOK
<1> QED
  BY <1>1 DEF OrphanInv, Left

\* A session that was opened and is alive is listed by an agent that still has the connection
\* it was opened over.
LEMMA OpenedAlive ==
    ASSUME TypeOK, CallInv, NetInv, NEW s \in Session, shell[s] \in Alive, call[s] = "opened",
           s \notin missed
    PROVE  /\ shell[s] = "listed" /\ agent[ServerOf[s]] = "up"
           /\ wire[ServerOf[s]] => Reaches(ServerOf[s])
<1>1. answer[s] = "ok" /\ shell[s] = "listed"
  BY DEF CallInv, Alive
<1>2. agent[ServerOf[s]] = "up" /\ via[s] = link[ServerOf[s]] /\ link[ServerOf[s]] # 0
  BY <1>1, ServerAssumption DEF NetInv
<1> QED
  BY <1>1, <1>2 DEF NetInv, Reaches

LEMMA InitOrphanInv == Init => OrphanInv
  BY DEF Init, OrphanInv, Left, Alive

LEMMA NextOrphanInv ==
    TypeOK /\ CallInv /\ MapInv /\ NetInv /\ OrphanInv /\ [Next]_vars => OrphanInv'
<1> SUFFICES ASSUME TypeOK, CallInv, MapInv, NetInv, OrphanInv, [Next]_vars PROVE OrphanInv'
  OBVIOUS
<1> USE OpenerAssumption, ServerAssumption
<1>1. ASSUME NEW s \in Session, OpenTerminal(s) PROVE OrphanInv'
  <2>1. /\ call[s] = "unused" /\ UNCHANGED <<terminals, toClose, agent, wire, shell, missed>>
        /\ \E c \in {"asked", "failed"} : call' = [call EXCEPT ![s] = c]
    BY <1>1 DEF OpenTerminal, mapVars, netVars, shellVars
  <2>2. \A t \in Session : call'[t] = "opened" => call[t] = "opened"
    BY <2>1 DEF TypeOK
  <2>3. \A w \in Server : Msgs(inbox[w]) \subseteq Msgs(inbox'[w])
    <3>1. inbox' = inbox \/ Send(ServerOf[s], "run", s)
      BY <1>1 DEF OpenTerminal
    <3>2. CASE Send(ServerOf[s], "run", s)
      <4> DEFINE v == ServerOf[s]
                 x == [kind |-> "run", session |-> s]
      <4>1. v \in Server /\ inbox[v] \in Seq(Message) /\ x \in Message
        BY <3>2, SendStep DEF TypeOK
      <4>2. inbox' = inbox \/ inbox' = [inbox EXCEPT ![v] = Append(inbox[v], x)]
        BY <3>2, <4>1, SendStep
      <4> HIDE DEF v, x
      <4>3. Msgs(inbox[v]) \subseteq Msgs(Append(inbox[v], x))
        BY <4>1, AppendMsgs
      <4> QED
        BY <4>1, <4>2, <4>3 DEF TypeOK
    <3> QED
      BY <3>1, <3>2
  <2> QED
    BY <2>1, <2>2, <2>3 DEF OrphanInv, Left, Ending
<1>2. ASSUME NEW s \in Session, OpenSucceeds(s) PROVE OrphanInv'
  <2> DEFINE i == OpenerOf[s]
             p == active[i][ServerOf[s]]
  <2>1. /\ call[s] = "asked" /\ i \in Site
        /\ call' = [call EXCEPT ![s] = "opened"]
        /\ terminals' = (terminals \ {p}) \cup {s}
        /\ toClose' = [toClose EXCEPT ![i] = {p} \ {NoSession}]
        /\ UNCHANGED <<agent, wire, inbox, shell, missed>>
    BY <1>2 DEF OpenSucceeds, netVars, shellVars
  <2>2. toClose[i] = {} /\ (p # NoSession => OpenerOf[p] = i)
    BY <2>1 DEF MapInv
  <2> HIDE DEF p
  <2>3. toClose'[i] = {p} \ {NoSession} /\ \A j \in Site : j # i => toClose'[j] = toClose[j]
    BY <2>1 DEF TypeOK
  <2> SUFFICES ASSUME NEW t \in Session, Left(t)' PROVE Ending(t)'
    BY DEF OrphanInv
  <2>4. t # s /\ call[t] = "opened" /\ (t \in terminals => t = p)
    BY <2>1 DEF Left, TypeOK
  <2>5. CASE t \in terminals
    <3>1. t = p /\ p # NoSession /\ OpenerOf[t] = i
      BY <2>2, <2>4, <2>5, SessionAssumption
    <3>2. t \in toClose'[OpenerOf[t]]
      BY <2>3, <3>1
    <3>3. agent[ServerOf[t]] = "up"
      BY <2>1, <2>4, OpenedAlive DEF Left
    <3> QED
      BY <2>1, <3>2, <3>3 DEF Ending
  <2>6. CASE t \notin terminals
    <3>1. Ending(t)
      BY <2>1, <2>4, <2>6 DEF OrphanInv, Left
    <3>2. t \in toClose[OpenerOf[t]] => t \in toClose'[OpenerOf[t]]
      BY <2>2, <2>3
    <3> QED
      BY <2>1, <3>1, <3>2 DEF Ending
  <2> QED
    BY <2>5, <2>6
<1>3. ASSUME NEW s \in Session, OpenFails(s) PROVE OrphanInv'
  <2>1. \A t \in Session : call'[t] = "opened" => call[t] = "opened"
    BY <1>3 DEF OpenFails, TypeOK
  <2> QED
    BY <1>3, <2>1 DEF OpenFails, mapVars, netVars, shellVars, OrphanInv, Left, Ending
<1>4. ASSUME NEW i \in Site, RemoveSite(i) \/ \E v \in Server : CloseTerminal(i, v) PROVE OrphanInv'
  <2>1. UNCHANGED <<call, agent, wire, inbox, shell, missed>> /\ toClose[i] = {}
    BY <1>4 DEF RemoveSite, CloseTerminal, netVars, shellVars, MapInv
  <2>2. \A t \in terminals : t \notin terminals' => t \in toClose'[OpenerOf[t]]
    <3>1. CASE RemoveSite(i)
      <4> DEFINE mine == {active[i][v] : v \in Server} \ {NoSession}
      <4>1. terminals' = terminals \ mine /\ toClose' = [toClose EXCEPT ![i] = mine]
        BY <3>1 DEF RemoveSite
      <4>2. \A t \in mine : OpenerOf[t] = i
        BY DEF MapInv
      <4> HIDE DEF mine
      <4>3. toClose'[i] = mine
        BY <4>1 DEF TypeOK
      <4>4. \A t \in terminals : t \notin terminals' => t \in mine
        BY <4>1
      <4> QED
        BY <4>2, <4>3, <4>4
    <3>2. ASSUME NEW v \in Server, CloseTerminal(i, v)
          PROVE  \A t \in terminals : t \notin terminals' => t \in toClose'[OpenerOf[t]]
      <4>1. /\ terminals' = terminals \ {active[i][v]}
            /\ toClose' = [toClose EXCEPT ![i] = {active[i][v]}]
            /\ OpenerOf[active[i][v]] = i
        BY <3>2 DEF CloseTerminal, MapInv
      <4> QED
        BY <4>1 DEF TypeOK
    <3> QED
      BY <1>4, <3>1, <3>2
  <2>3. \A j \in Site : toClose[j] \subseteq toClose'[j]
    <3>1. \A j \in Site : j # i => toClose'[j] = toClose[j]
      <4>1. CASE RemoveSite(i)
        BY <4>1 DEF RemoveSite, TypeOK
      <4>2. CASE \E v \in Server : CloseTerminal(i, v)
        BY <4>2 DEF CloseTerminal, TypeOK
      <4> QED
        BY <1>4, <4>1, <4>2
    <3> QED
      BY <2>1, <3>1
  <2> SUFFICES ASSUME NEW t \in Session, Left(t)' PROVE Ending(t)'
    BY DEF OrphanInv
  <2>4. CASE t \in terminals
    <3>1. agent[ServerOf[t]] = "up"
      BY <2>1, OpenedAlive DEF Left
    <3>2. t \in toClose'[OpenerOf[t]]
      BY <2>2, <2>4 DEF Left
    <3> QED
      BY <2>1, <3>1, <3>2 DEF Ending
  <2>5. CASE t \notin terminals
    <3>1. Ending(t)
      BY <2>1, <2>5 DEF OrphanInv, Left
    <3> QED
      BY <2>1, <2>3, <3>1 DEF Ending
  <2> QED
    BY <2>4, <2>5
<1>5. ASSUME NEW i \in Site, SendClose(i) PROVE OrphanInv'
  <2>1. PICK s \in toClose[i] :
            /\ Send(ServerOf[s], "close", s)
            /\ toClose' = [toClose EXCEPT ![i] = @ \ {s}]
            /\ UNCHANGED <<terminals, call, agent, wire, shell, missed>>
    BY <1>5 DEF SendClose, mapVars, netVars, shellVars
  <2> DEFINE v == ServerOf[s]
  <2>2. s \in Session /\ v \in Server /\ inbox[v] \in Seq(Message)
    BY DEF TypeOK
  <2>3. /\ Close(s) \in Message
        /\ ~Reaches(v) => inbox' = inbox
        /\ Reaches(v) => inbox' = [inbox EXCEPT ![v] = Append(inbox[v], Close(s))]
    BY <2>1, <2>2, SendStep DEF Close
  <2> HIDE DEF v
  <2>4. Msgs(Append(inbox[v], Close(s))) = Msgs(inbox[v]) \cup {Close(s)}
    BY <2>2, <2>3, AppendMsgs
  <2>5. \A w \in Server : Msgs(inbox[w]) \subseteq Msgs(inbox'[w])
    BY <2>2, <2>3, <2>4 DEF TypeOK
  <2>6. Reaches(v) => Close(s) \in Msgs(inbox'[v])
    BY <2>2, <2>3, <2>4 DEF TypeOK
  <2>7. \A j \in Site : toClose[j] \ {s} \subseteq toClose'[j]
    BY <2>1 DEF TypeOK
  <2> SUFFICES ASSUME NEW t \in Session, Left(t)' PROVE Ending(t)'
    BY DEF OrphanInv
  <2>8. Ending(t) /\ Left(t)
    BY <2>1 DEF OrphanInv, Left
  <2>9. CASE t = s
    <3>1. agent[v] = "up" /\ (wire[v] => Reaches(v))
      BY <2>8, <2>9, OpenedAlive DEF Left, v
    <3> QED
      BY <2>1, <2>6, <2>9, <3>1 DEF Ending, v
  <2>10. CASE t # s
    BY <2>1, <2>5, <2>7, <2>8, <2>10 DEF Ending
  <2> QED
    BY <2>9, <2>10
<1>6. ASSUME NEW v \in Server, ReadRun(v) \/ ReadClose(v) PROVE OrphanInv'
  <2> DEFINE h == Head(inbox[v])
  <2>1. /\ inbox[v] # <<>> /\ inbox' = [inbox EXCEPT ![v] = Tail(@)]
        /\ UNCHANGED <<terminals, toClose, call, agent, wire, missed>>
    BY <1>6 DEF ReadRun, ReadClose, mapVars, netVars
  <2>2. h \in Msgs(inbox[v]) /\ Msgs(inbox[v]) = {h} \cup Msgs(inbox'[v])
    BY <2>1, ReadMsgs
  <2>3. h.session \in Session
    BY <2>1, HeadType
  <2>4. \/ h.kind = "run" /\ shell' = [shell EXCEPT ![h.session] = "starting"]
        \/ h.kind = "close" /\ shell' = [shell EXCEPT ![h.session] = IF @ = "listed" THEN "dead" ELSE @]
    BY <1>6 DEF ReadRun, ReadClose
  <2>5. h.kind = "run" => call[h.session] # "opened"
    BY <2>2, <2>3 DEF CallInv
  <2> HIDE DEF h
  <2>6. \A w \in Server : w # v => inbox'[w] = inbox[w]
    BY <2>1 DEF TypeOK
  <2>7. \A t \in Session : t # h.session => shell'[t] = shell[t]
    BY <2>4 DEF TypeOK
  <2> SUFFICES ASSUME NEW t \in Session, Left(t)' PROVE Ending(t)'
    BY DEF OrphanInv
  <2>8. CASE t = h.session
    <3>1. h.kind = "close" /\ shell'[t] = IF shell[t] = "listed" THEN "dead" ELSE shell[t]
      BY <2>1, <2>3, <2>4, <2>5, <2>8 DEF Left, TypeOK
    <3>2. shell[t] = "listed"
      BY <2>1, <3>1, OpenedAlive DEF Left, Alive
    <3> QED
      BY <3>1, <3>2 DEF Left, Alive
  <2>9. CASE t # h.session
    <3>1. Ending(t)
      BY <2>1, <2>7, <2>9 DEF OrphanInv, Left
    <3>2. Close(t) # h
      BY <2>9 DEF Close
    <3>3. ServerOf[t] = v /\ Close(t) \in Msgs(inbox[v]) => Close(t) \in Msgs(inbox'[v])
      BY <2>2, <3>2
    <3>4. Close(t) \in Msgs(inbox[ServerOf[t]]) => Close(t) \in Msgs(inbox'[ServerOf[t]])
      BY <2>6, <3>3
    <3> QED
      BY <2>1, <3>1, <3>4 DEF Ending
  <2> QED
    BY <2>8, <2>9
<1>7. ASSUME NEW v \in Server, AgentReadFails(v) PROVE OrphanInv'
  <2>1. /\ agent' = [agent EXCEPT ![v] = "closing"] /\ inbox' = [inbox EXCEPT ![v] = <<>>]
        /\ UNCHANGED <<terminals, toClose, call, wire, missed>>
    BY <1>7 DEF AgentReadFails, mapVars
  <2>2. \A t \in Session : shell'[t] = shell[t] \/ shell'[t] = "dead"
    BY <1>7 DEF AgentReadFails
  <2>3. \A t \in Session : ServerOf[t] = v => shell'[t] # "listed"
    BY <1>7 DEF AgentReadFails
  <2> SUFFICES ASSUME NEW t \in Session, Left(t)' PROVE Ending(t)'
    BY DEF OrphanInv
  <2>4. Left(t) /\ shell'[t] = shell[t]
    BY <2>1, <2>2 DEF Left, Alive
  <2>5. ServerOf[t] # v
    BY <2>3, <2>4, OpenedAlive DEF Left
  <2>6. agent'[ServerOf[t]] = agent[ServerOf[t]] /\ inbox'[ServerOf[t]] = inbox[ServerOf[t]]
    BY <2>1, <2>5 DEF TypeOK
  <2> QED
    BY <2>1, <2>4, <2>6 DEF OrphanInv, Ending
<1>8. ASSUME NEW v \in Server, AgentDisconnects(v) PROVE OrphanInv'
  <2>1. /\ agent[v] = "closing" /\ UNCHANGED <<terminals, toClose, call, inbox, shell, missed>>
        /\ \A w \in Server : w # v => agent'[w] = agent[w] /\ wire'[w] = wire[w]
    BY <1>8 DEF AgentDisconnects, mapVars, shellVars, TypeOK
  <2> SUFFICES ASSUME NEW t \in Session, Left(t)' PROVE Ending(t)'
    BY DEF OrphanInv
  <2>2. Ending(t)
    BY <2>1 DEF OrphanInv, Left
  <2>3. ServerOf[t] # v
    BY <2>1, <2>2 DEF Ending
  <2> QED
    BY <2>1, <2>2, <2>3 DEF Ending
<1>9. ASSUME NEW s \in Session, Starter(s) \/ ShellExits(s) PROVE OrphanInv'
  <2>1. UNCHANGED <<terminals, toClose, call, agent, wire, inbox>> /\ missed \subseteq missed'
    BY <1>9 DEF Starter, StartShell, StartFails, ListShell, AnswerOpened, ShellExits, mapVars, netVars
  <2>2. \A t \in Session : t # s => shell'[t] = shell[t]
    BY <1>9 DEF Starter, StartShell, StartFails, ListShell, AnswerOpened, ShellExits, TypeOK
  <2>3. shell'[s] = shell[s] \/ shell[s] \in {"starting", "unlisted"} \/ shell'[s] = "dead"
    BY <1>9 DEF Starter, StartShell, StartFails, ListShell, AnswerOpened, ShellExits, TypeOK
  <2>4. shell[s] \in {"starting", "unlisted"} => call[s] # "opened"
    BY DEF CallInv
  <2>5. \A t \in Session : Left(t)' => Left(t)
    BY <2>1, <2>2, <2>3, <2>4 DEF Left, Alive
  <2> QED
    BY <2>1, <2>5 DEF OrphanInv, Ending
<1>10. ASSUME NEW v \in Server, Connect(v) PROVE OrphanInv'
  <2>1. /\ agent[v] = "down" /\ UNCHANGED <<terminals, toClose, call, shell, missed>>
        /\ \A w \in Server : w # v => agent'[w] = agent[w] /\ wire'[w] = wire[w] /\ inbox'[w] = inbox[w]
    BY <1>10 DEF Connect, mapVars, shellVars, TypeOK
  <2> SUFFICES ASSUME NEW t \in Session, Left(t)' PROVE Ending(t)'
    BY DEF OrphanInv
  <2>2. Ending(t)
    BY <2>1 DEF OrphanInv, Left
  <2>3. ServerOf[t] # v
    BY <2>1, <2>2 DEF Ending
  <2> QED
    BY <2>1, <2>2, <2>3 DEF Ending
<1>11. ASSUME NEW v \in Server, Register(v) PROVE OrphanInv'
  BY <1>11 DEF Register, mapVars, shellVars, OrphanInv, Left, Ending
<1>12. ASSUME NEW v \in Server, ConnectionLost(v) \/ HubForgets(v) PROVE OrphanInv'
  <2>1. UNCHANGED <<terminals, toClose, call, agent, shell, missed>>
    BY <1>12 DEF ConnectionLost, HubForgets, mapVars, shellVars
  <2>2. \A w \in Server : (wire'[w] = wire[w] /\ inbox'[w] = inbox[w]) \/ ~wire'[w]
    BY <1>12 DEF ConnectionLost, HubForgets, CutOff, TypeOK
  <2> QED
    BY <2>1, <2>2 DEF OrphanInv, Left, Ending
<1>13. ASSUME BackendCrash PROVE OrphanInv'
  <2>1. /\ UNCHANGED <<agent, inbox, shell, missed>> /\ \A w \in Server : ~wire'[w]
        /\ \A t \in Session : call'[t] = "opened" => call[t] = "opened"
    BY <1>13 DEF BackendCrash, shellVars
  <2>2. \A t \in Session : Left(t)' => agent[ServerOf[t]] = "up"
    BY <2>1, OpenedAlive DEF Left
  <2> QED
    BY <2>1, <2>2 DEF OrphanInv, Ending
<1>14. CASE UNCHANGED vars
  BY <1>14 DEF vars, OrphanInv, Left, Ending
<1> QED
  BY <1>1, <1>2, <1>3, <1>4, <1>5, <1>6, <1>7, <1>8, <1>9, <1>10, <1>11, <1>12, <1>13, <1>14
  DEF Next, Caller, Reader

-----------------------------------------------------------------------------
(* Theorems *)

IInv == TypeOK /\ CallInv /\ MapInv /\ NetInv /\ OrphanInv

LEMMA IInvInvariant == Spec => []IInv
<1>1. Init => IInv
  BY InitTypeOK, InitCallInv, InitMapInv, InitNetInv, InitOrphanInv DEF IInv
<1>2. IInv /\ [Next]_vars => IInv'
  BY NextTypeOK, NextCallInv, NextMapInv, NextNetInv, NextOrphanInv DEF IInv
<1> QED
  BY <1>1, <1>2, PTL DEF Spec

\* At every unlock of Hub.mu the map of the hub and the maps of the pages agree: a session
\* that output is routed to is the one its page shows, and a page shows one that is routed.
THEOREM MapsCorrect == Spec => []MapsAgree
  BY IInvInvariant, PTL DEF IInv, MapInv

\* Input that the hub accepts for a session never meets a shell the agent cannot find yet.
THEOREM RoutingCorrect == Spec => []RoutedIsListed
<1>1. IInv => RoutedIsListed
  BY DEF IInv, TypeOK, CallInv, MapInv, RoutedIsListed, Resolved
<1> QED
  BY <1>1, IInvInvariant, PTL

\* No terminal that was opened and is closed leaves a shell nobody will close, except those
\* registered while the agent was between closing its terminals and its connection.
THEOREM OrphansCorrect == Spec => []NoOrphan
<1>1. IInv => NoOrphan
  BY OrphanInvNoOrphan DEF IInv
<1> QED
  BY <1>1, IInvInvariant, PTL

=============================================================================
