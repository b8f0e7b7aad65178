--------------------------- MODULE RunbooksProofs ---------------------------
(***************************************************************************)
(* Proofs about Runbooks, for any executions, pages, edits and bounds.     *)
(***************************************************************************)
EXTENDS Runbooks, RunbookVersionsProofs, SequenceTheorems

-----------------------------------------------------------------------------
(* The versions *)

\* A step of Runbooks is one of RunbookVersions, or leaves the versions alone.
LEMMA StepOfVersions == [Next]_vars => [VersionsNext]_versionVars
<1> SUFFICES ASSUME [Next]_vars PROVE [VersionsNext]_versionVars
  OBVIOUS
<1>1. ASSUME NEW x \in Execution, Request(x) PROVE UNCHANGED versionVars
  BY <1>1 DEF Request, LoadExecution, InsertDryRun, FinishDryRun, Dispatch, RequestFails, Refused, Accepted
<1>2. ASSUME NEW x \in Execution, Agent(x) PROVE UNCHANGED versionVars
  BY <1>2 DEF Agent, StartRun, Acknowledge, SendLine, Hang, SendResult
<1>3. ASSUME NEW l \in 1..MaxLinks, Handler(l) PROVE UNCHANGED versionVars
  BY <1>3 DEF Handler, ReadMessage, WriteLastRun, CopySubscribers, SendToPage
<1>4. CASE VersionStep
  BY <1>4 DEF VersionStep, VersionsNext
<1>5. CASE BackendDies
  BY <1>5 DEF BackendDies, VersionsNext
<1>6. CASE PageStep \/ Connect \/ ConnectionLost \/ AgentDies
  BY <1>6 DEF PageStep, Connect, ConnectionLost, AgentDies
<1>7. CASE UNCHANGED vars
  BY <1>7 DEF vars
<1> QED
  BY <1>1, <1>2, <1>3, <1>4, <1>5, <1>6, <1>7 DEF Next

\* Whatever else goes on, from its creation until somebody begins to delete it a runbook can be
\* run, but for the gaps RunbookVersions names: executions, results and crashes leave its
\* versions as that module describes them.
THEOREM RunnableCorrect == Spec => [](VersionsTypeOK /\ VersionsSound)
<1>1. Init => VersionsInit
  BY DEF Init
<1>2. Spec => VersionsSpec
  BY <1>1, StepOfVersions, PTL DEF Spec, VersionsSpec
<1> QED
  BY <1>2, VersionsTypeCorrect, VersionsCorrect, PTL

-----------------------------------------------------------------------------
(* The subscriptions *)

SiteInv == SiteTypeOK /\ SubscribersAgree

LEMMA PlaceFacts ==
    /\ InLoop # Gone /\ InLoop \in {InLoop, Gone} /\ Gone \in {InLoop, Gone}
    /\ \A t \in Topic : Checked(t) # Gone /\ Checked(t) # InLoop
  BY DEF InLoop, Gone, Checked

\* What the goroutine of a page does in the critical sections of Hub.mu.
LEMMA PageInv ==
    ASSUME SiteInv, NEW i \in Site, NEW t \in Topic,
           CheckTopic(i, t) \/ Subscribe(i, t) \/ Unsubscribe(i, t) \/ RemoveSite(i)
    PROVE  SiteInv'
<1>1. /\ site \in [Site -> {InLoop, Gone} \cup {Checked(u) : u \in Topic}]
      /\ subs \in [Topic -> SUBSET Site] /\ mirror \in [Site -> SUBSET Topic]
      /\ SubscribersAgree
  BY DEF SiteInv, SiteTypeOK
<1>2. Checked(t) \in {Checked(u) : u \in Topic}
  OBVIOUS
<1>3. CASE CheckTopic(i, t)
  <2>1. /\ site' = [site EXCEPT ![i] = Checked(t)] /\ site[i] = InLoop
        /\ UNCHANGED <<subs, mirror>>
    BY <1>3 DEF CheckTopic
  <2> HIDE DEF Checked
  <2> QED
    BY <1>1, <1>2, <2>1, PlaceFacts DEF SiteInv, SiteTypeOK, SubscribersAgree
<1>4. CASE Subscribe(i, t)
  <2>1. /\ site[i] # Gone
        /\ subs' = [subs EXCEPT ![t] = @ \cup {i}] /\ mirror' = [mirror EXCEPT ![i] = @ \cup {t}]
        /\ site' = [site EXCEPT ![i] = InLoop]
    BY <1>4, PlaceFacts DEF Subscribe
  <2> QED
    BY <1>1, <2>1, PlaceFacts DEF SiteInv, SiteTypeOK, SubscribersAgree
<1>5. CASE Unsubscribe(i, t)
  <2>1. /\ subs' = [subs EXCEPT ![t] = @ \ {i}] /\ mirror' = [mirror EXCEPT ![i] = @ \ {t}]
        /\ UNCHANGED site
    BY <1>5 DEF Unsubscribe
  <2> QED
    BY <1>1, <2>1 DEF SiteInv, SiteTypeOK, SubscribersAgree
<1>6. CASE RemoveSite(i)
  <2>1. /\ subs' = [u \in Topic |-> IF u \in mirror[i] THEN subs[u] \ {i} ELSE subs[u]]
        /\ mirror' = [mirror EXCEPT ![i] = {}] /\ site' = [site EXCEPT ![i] = Gone]
    BY <1>6 DEF RemoveSite
  <2>2. \A u \in Topic : i \notin subs'[u]
    BY <1>1, <2>1 DEF SubscribersAgree
  <2>3. \A u \in Topic, j \in Site : j # i => (j \in subs'[u] <=> j \in subs[u])
    BY <1>1, <2>1
  <2>4. \A u \in Topic : subs'[u] \subseteq Site
    BY <1>1, <2>1
  <2>5. \A j \in Site : j # i => site'[j] = site[j] /\ mirror'[j] = mirror[j]
    BY <1>1, <2>1
  <2>6. mirror'[i] = {}
    BY <1>1, <2>1
  <2>7. SubscribersAgree'
    BY <1>1, <2>2, <2>3, <2>5, <2>6 DEF SubscribersAgree
  <2>8. SiteTypeOK'
    BY <1>1, <2>1, <2>4, PlaceFacts DEF SiteTypeOK
  <2> QED
    BY <2>7, <2>8 DEF SiteInv
<1> QED
  BY <1>3, <1>4, <1>5, <1>6

LEMMA SitesDieInv == ASSUME SitesDie PROVE SiteInv'
  BY PlaceFacts DEF SitesDie, SiteInv, SiteTypeOK, SubscribersAgree

LEMMA StepOfSites == ASSUME SiteInv, [Next]_vars PROVE SiteInv'
<1>0. ASSUME UNCHANGED siteVars PROVE SiteInv'
  BY <1>0 DEF siteVars, SiteInv, SiteTypeOK, SubscribersAgree
<1>1. ASSUME NEW x \in Execution, Request(x) PROVE UNCHANGED siteVars
  BY <1>1 DEF Request, LoadExecution, InsertDryRun, FinishDryRun, Dispatch, RequestFails, Refused, Accepted, pageVars
<1>2. ASSUME NEW x \in Execution, Agent(x) PROVE UNCHANGED siteVars
  BY <1>2 DEF Agent, StartRun, Acknowledge, SendLine, Hang, SendResult, pageVars
<1>3. ASSUME NEW l \in 1..MaxLinks, Handler(l) PROVE UNCHANGED siteVars
  BY <1>3 DEF Handler, ReadMessage, WriteLastRun, CopySubscribers, SendToPage, pageVars
<1>4. CASE VersionStep
  BY <1>0, <1>4 DEF VersionStep, pageVars
<1>5. CASE BackendDies
  BY <1>5, SitesDieInv DEF BackendDies
<1>6. CASE PageStep
  <2>1. PICK i \in Site : \/ \E x \in Execution : CheckTopic(i, x) \/ Subscribe(i, x) \/ Unsubscribe(i, x)
                          \/ RemoveSite(i)
    BY <1>6 DEF PageStep
  <2>2. CASE \E x \in Execution : CheckTopic(i, x) \/ Subscribe(i, x) \/ Unsubscribe(i, x)
    BY <2>2, PageInv DEF Execution
  <2>3. CASE RemoveSite(i)
    <3>1. CASE Topic = {}
      BY <2>3, <3>1, PlaceFacts DEF RemoveSite, SiteInv, SiteTypeOK, SubscribersAgree
    <3>2. CASE Topic # {}
      BY <2>3, <3>2, PageInv
    <3> QED
      BY <3>1, <3>2
  <2> QED
    BY <2>1, <2>2, <2>3
<1>7. CASE Connect \/ ConnectionLost \/ AgentDies
  BY <1>0, <1>7 DEF Connect, ConnectionLost, AgentDies, pageVars
<1>8. CASE UNCHANGED vars
  BY <1>0, <1>8 DEF vars
<1> QED
  BY <1>0, <1>1, <1>2, <1>3, <1>4, <1>5, <1>6, <1>7, <1>8 DEF Next

LEMMA InitSites == Init => SiteInv
<1>1. Init => SiteInit
  BY DEF Init
<1>2. SiteInit => SiteInv
  BY PlaceFacts DEF SiteInit, SiteInv, SiteTypeOK, SubscribersAgree
<1> QED
  BY <1>1, <1>2

\* The hub's subscriptions and those of its pages agree at every unlock, and a page that is gone
\* is in no map, for any number of pages and topics (hub.go:460-480, 649-665).
THEOREM SubscribersCorrect == Spec => []SubscribersAgree
<1>1. Init => SiteInv
  BY InitSites
<1>2. SiteInv /\ [Next]_vars => SiteInv'
  BY StepOfSites
<1>3. SiteInv => SubscribersAgree
  BY DEF SiteInv
<1> QED
  BY <1>1, <1>2, <1>3, PTL DEF Spec

-----------------------------------------------------------------------------
(* Types *)

\* What TypeOK says beyond the versions and the subscriptions; and only a result is written to
\* last_run_status.
RestTypeOK ==
    /\ lastRun \in {"", "pending"} \cup Final
    /\ status \in [Execution -> {"none", "pending"} \cup Final]
    /\ kind \in [Execution -> {"none", "run", "dry", "rollback"}]
    /\ call \in [Execution -> {"idle", "loaded", "inserted", "waiting", "accepted", "refused", "done", "died"}]
    /\ via \in [Execution -> 0..MaxLinks]
    /\ run \in [Execution -> {"none", "sent", "running", "hung", "told", "killed"}]
    /\ lines \in [Execution -> 0..MaxLines]
    /\ acked \in [Execution -> BOOLEAN]
    /\ outcome \in [Execution -> {"none"} \cup Final]
    /\ link \in 0..MaxLinks
    /\ wire \in BOOLEAN
    /\ inbox \in [1..MaxLinks -> Seq(Message)]
    /\ handler \in [1..MaxLinks -> Handled]
    /\ told \in [Site -> [Execution -> {"nothing", "line", "result", "late line"}]]
    /\ lost \in SUBSET Execution
    /\ early \in SUBSET Execution
    /\ crossed \in SUBSET Execution
    /\ crashes \in 0..MaxCrashes
    /\ wire => link > 0
    /\ \A l \in 1..MaxLinks : handler[l].stage = "last_run" => handler[l].msg.kind \in Final

LEMMA TypesTogether == VersionsTypeOK /\ SiteTypeOK /\ RestTypeOK => TypeOK
  BY DEF RestTypeOK, TypeOK

LEMMA RequestTypes == ASSUME RestTypeOK, NEW x \in Execution, Request(x) PROVE RestTypeOK'
<1> USE DEF RestTypeOK, Final, agentVars, netVars, pageVars, pastVars
<1>1. CASE LoadExecution(x)
  <2>1. kind' \in [Execution -> {"none", "run", "dry", "rollback"}]
    BY <1>1 DEF LoadExecution
  <2>2. call' \in [Execution -> {"idle", "loaded", "inserted", "waiting", "accepted", "refused", "done", "died"}]
    BY <1>1 DEF LoadExecution
  <2> QED
    BY <1>1, <2>1, <2>2 DEF LoadExecution
<1>2. CASE InsertDryRun(x)
  BY <1>2 DEF InsertDryRun
<1>7. CASE FinishDryRun(x)
  BY <1>7 DEF FinishDryRun, Written
<1>3. CASE Dispatch(x)
  <2>1. /\ status' \in [Execution -> {"none", "pending"} \cup Final]
        /\ call' \in [Execution -> {"idle", "loaded", "inserted", "waiting", "accepted", "refused", "done", "died"}]
    BY <1>3 DEF Dispatch
  <2>2. /\ via' \in [Execution -> 0..MaxLinks]
        /\ run' \in [Execution -> {"none", "sent", "running", "hung", "told", "killed"}]
    <3>1. CASE UNCHANGED <<via, run>>
      BY <3>1
    <3>2. CASE link > 0 /\ via' = [via EXCEPT ![x] = link]
                 /\ run' = [run EXCEPT ![x] = IF wire THEN "sent" ELSE "none"]
      BY <3>2
    <3> QED
      BY <1>3, <3>1, <3>2 DEF Dispatch
  <2> QED
    BY <1>3, <2>1, <2>2 DEF Dispatch
<1>4. CASE RequestFails(x)
  BY <1>4 DEF RequestFails
<1>5. CASE Refused(x)
  BY <1>5 DEF Refused, Written
<1>6. CASE Accepted(x)
  BY <1>6 DEF Accepted, LastRunIs
<1> QED
  BY <1>1, <1>2, <1>3, <1>4, <1>5, <1>6, <1>7 DEF Request

\* A message that is sent is appended to the inbox of the newest connection.
LEMMA SendsFacts ==
    ASSUME RestTypeOK, NEW x \in Execution, NEW k \in {"ack", "line"} \cup Final, Sends(x, k)
    PROVE  /\ inbox' \in [1..MaxLinks -> Seq(Message)] /\ crossed' \in SUBSET Execution
           /\ [kind |-> k, of |-> x] \in Message
           /\ wire => /\ link \in 1..MaxLinks
                      /\ inbox' = [inbox EXCEPT ![link] = Append(@, [kind |-> k, of |-> x])]
           /\ ~wire => inbox' = inbox
<1>1. [kind |-> k, of |-> x] \in Message
  BY DEF Message
<1>2. wire => link \in 1..MaxLinks
  <2>1. (wire => link > 0) /\ link \in 0..MaxLinks /\ MaxLinks \in Nat
    BY BoundAssumption DEF RestTypeOK
  <2>2. link > 0 => link \in 1..MaxLinks
    BY <2>1
  <2> QED
    BY <2>1, <2>2
<1>3. inbox \in [1..MaxLinks -> Seq(Message)] /\ crossed \in SUBSET Execution
  BY DEF RestTypeOK
<1>4. \A l \in 1..MaxLinks : Append(inbox[l], [kind |-> k, of |-> x]) \in Seq(Message)
  BY <1>1, <1>3, AppendProperties
<1> QED
  BY <1>1, <1>2, <1>3, <1>4 DEF Sends

LEMMA AgentTypes == ASSUME RestTypeOK, NEW x \in Execution, Agent(x) PROVE RestTypeOK'
<1>1. CASE StartRun(x)
  BY <1>1 DEF StartRun, RestTypeOK, netVars, pageVars, pastVars
<1>2. CASE Acknowledge(x)
  <2>1. inbox' \in [1..MaxLinks -> Seq(Message)] /\ crossed' \in SUBSET Execution
    BY <1>2, SendsFacts DEF Acknowledge, RestTypeOK
  <2> QED
    BY <1>2, <2>1 DEF Acknowledge, RestTypeOK, pageVars
<1>3. CASE SendLine(x)
  <2>1. inbox' \in [1..MaxLinks -> Seq(Message)] /\ crossed' \in SUBSET Execution
    BY <1>3, SendsFacts DEF SendLine
  <2>2. lines' \in [Execution -> 0..MaxLines]
    <3>1. /\ lines \in [Execution -> 0..MaxLines] /\ MaxLines \in Nat
          /\ lines[x] < MaxLines /\ lines' = [lines EXCEPT ![x] = @ + 1]
      BY <1>3, BoundAssumption DEF SendLine, RestTypeOK
    <3>2. lines[x] + 1 \in 0..MaxLines
      BY <3>1
    <3> QED
      BY <3>1, <3>2
  <2> QED
    BY <1>3, <2>1, <2>2 DEF SendLine, RestTypeOK, pageVars
<1>4. CASE SendResult(x)
  <2>1. PICK result \in Final : outcome' = [outcome EXCEPT ![x] = result] /\ Sends(x, result)
    BY <1>4 DEF SendResult, Final
  <2>2. inbox' \in [1..MaxLinks -> Seq(Message)] /\ crossed' \in SUBSET Execution
    BY <2>1, SendsFacts
  <2> QED
    BY <1>4, <2>1, <2>2 DEF SendResult, RestTypeOK, pageVars
<1>5. CASE Hang(x)
  BY <1>5 DEF Hang, RestTypeOK, netVars, pageVars, pastVars
<1> QED
  BY <1>1, <1>2, <1>3, <1>4, <1>5 DEF Agent

LEMMA HandledFacts ==
    /\ Idle \in Handled /\ Idle.stage = "idle"
    /\ \A h \in Handled : h.stage # "idle" =>
          /\ h \in [stage : {"last_run", "copy", "send"}, msg : Message, to : SUBSET Site]
          /\ h.msg \in Message /\ h.msg.of \in Execution /\ h.to \subseteq Site
  BY DEF Handled, Idle, Message

\* What is at stage "last_run" after a handler's step is a result.
LEMMA OneHandler ==
    ASSUME RestTypeOK, NEW l \in 1..MaxLinks, NEW h \in Handled,
           handler' = [handler EXCEPT ![l] = h],
           h.stage = "last_run" => h.msg.kind \in Final
    PROVE  /\ handler' \in [1..MaxLinks -> Handled]
           /\ \A n \in 1..MaxLinks : handler'[n].stage = "last_run" => handler'[n].msg.kind \in Final
  BY DEF RestTypeOK

\* A handler that has a message goes on with it.
LEMMA HandledNext ==
    ASSUME NEW h \in Handled, h.stage # "idle", NEW a \in {"copy", "send"}, NEW to \in SUBSET Site
    PROVE  /\ [h EXCEPT !.stage = a] \in Handled /\ [h EXCEPT !.to = to] \in Handled
           /\ [h EXCEPT !.stage = a, !.to = to] \in Handled
           /\ [h EXCEPT !.stage = a].stage = a /\ [h EXCEPT !.to = to].stage = h.stage
           /\ [h EXCEPT !.stage = a, !.to = to].stage = a
  BY HandledFacts DEF Handled

LEMMA HandlerTypes ==
    ASSUME RestTypeOK, SiteTypeOK, NEW l \in 1..MaxLinks, Handler(l) PROVE RestTypeOK'
<1>0. handler[l] \in Handled /\ handler \in [1..MaxLinks -> Handled]
  BY DEF RestTypeOK
<1>1. CASE ReadMessage(l)
  <2> DEFINE m == Head(inbox[l])
  <2>1. inbox[l] \in Seq(Message) /\ inbox[l] # <<>>
    BY <1>1 DEF ReadMessage, RestTypeOK
  <2>2. m \in Message /\ Tail(inbox[l]) \in Seq(Message)
    BY <2>1, HeadTailProperties
  <2>3. m.of \in Execution /\ m.kind \in {"ack", "line"} \cup Final
    BY <2>2 DEF Message
  <2>4. inbox' \in [1..MaxLinks -> Seq(Message)]
    BY <1>1, <2>2 DEF ReadMessage, RestTypeOK
  <2> HIDE DEF m
  <2>5. Begin(l, m)
    BY <1>1 DEF ReadMessage, m
  <2>6. call' \in [Execution -> {"idle", "loaded", "inserted", "waiting", "accepted", "refused", "done", "died"}]
    BY <2>3, <2>5 DEF Begin, RestTypeOK
  <2>7. status' \in [Execution -> {"none", "pending"} \cup Final]
    BY <2>3, <2>5 DEF Begin, RestTypeOK, Written
  <2>8. \A a \in {"last_run", "copy"} : [stage |-> a, msg |-> m, to |-> {}] \in Handled
    BY <2>2 DEF Handled
  <2>9. PICK h \in Handled :
          /\ handler' = [handler EXCEPT ![l] = h]
          /\ h.stage = "last_run" => h.msg.kind \in Final
    <3>1. CASE m.kind = "ack"
      BY <2>5, <3>1, HandledFacts DEF Begin
    <3>2. CASE m.kind # "ack" /\ m.kind \in Final /\ status[m.of] # "none"
      <4>1. handler' = [handler EXCEPT ![l] = [stage |-> "last_run", msg |-> m, to |-> {}]]
        BY <2>5, <3>2 DEF Begin
      <4> QED
        BY <2>8, <3>2, <4>1
    <3>3. CASE m.kind # "ack" /\ ~(m.kind \in Final /\ status[m.of] # "none")
      <4>1. handler' = [handler EXCEPT ![l] = [stage |-> "copy", msg |-> m, to |-> {}]]
        BY <2>5, <3>3 DEF Begin
      <4> QED
        BY <2>8, <4>1
    <3> QED
      BY <3>1, <3>2, <3>3
  <2>10. /\ handler' \in [1..MaxLinks -> Handled]
         /\ \A n \in 1..MaxLinks : handler'[n].stage = "last_run" => handler'[n].msg.kind \in Final
    <3>1. h \in Handled /\ (h.stage = "last_run" => h.msg.kind \in Final)
      BY <2>9
    <3> QED
      BY <2>9, <3>1, OneHandler
  <2> QED
    BY <1>1, <2>4, <2>6, <2>7, <2>10 DEF ReadMessage, RestTypeOK, agentVars, pageVars, pastVars
<1>2. CASE WriteLastRun(l)
  <2>1. handler[l].stage = "last_run"
    BY <1>2 DEF WriteLastRun
  <2>2. handler[l].msg \in Message /\ [handler[l] EXCEPT !.stage = "copy"] \in Handled
    BY <1>0, <2>1, HandledFacts, HandledNext
  <2>3. /\ handler' \in [1..MaxLinks -> Handled]
        /\ \A n \in 1..MaxLinks : handler'[n].stage = "last_run" => handler'[n].msg.kind \in Final
    <3>1. handler' = [handler EXCEPT ![l] = [handler[l] EXCEPT !.stage = "copy"]]
      BY <1>0, <1>2 DEF WriteLastRun
    <3> QED
      BY <1>0, <2>1, <2>2, <3>1, HandledNext, OneHandler
  <2>4. lastRun' \in {"", "pending"} \cup Final
    <3>1. handler[l].msg.kind \in Final
      BY <2>1 DEF RestTypeOK
    <3> QED
      BY <1>2, <3>1 DEF WriteLastRun, LastRunIs, RestTypeOK
  <2>5. early' \in SUBSET Execution
    BY <1>2, <2>2 DEF WriteLastRun, RestTypeOK, Message
  <2> QED
    BY <1>2, <2>3, <2>4, <2>5 DEF WriteLastRun, RestTypeOK, agentVars, netVars, pageVars
<1>3. CASE CopySubscribers(l)
  <2>1. handler[l].stage = "copy"
    BY <1>3 DEF CopySubscribers
  <2>2. handler[l].msg.of \in Topic
    BY <1>0, <2>1, HandledFacts DEF Execution
  <2>3. subs[handler[l].msg.of] \subseteq Site
    BY <2>2 DEF SiteTypeOK
  <2>4. [handler[l] EXCEPT !.stage = "send", !.to = subs[handler[l].msg.of]] \in Handled
    BY <1>0, <2>1, <2>3, HandledNext
  <2>5. /\ handler' \in [1..MaxLinks -> Handled]
        /\ \A n \in 1..MaxLinks : handler'[n].stage = "last_run" => handler'[n].msg.kind \in Final
    <3>1. PICK h \in {Idle, [handler[l] EXCEPT !.stage = "send", !.to = subs[handler[l].msg.of]]} :
             handler' = [handler EXCEPT ![l] = h]
      BY <1>0, <1>3 DEF CopySubscribers
    <3>2. h \in Handled /\ h.stage # "last_run"
      BY <1>0, <2>1, <2>3, <2>4, <3>1, HandledFacts, HandledNext
    <3> QED
      BY <3>1, <3>2, OneHandler
  <2> QED
    BY <1>3, <2>5 DEF CopySubscribers, RestTypeOK, agentVars, netVars, pageVars, pastVars
<1>4. CASE SendToPage(l)
  <2>1. handler[l].stage = "send"
    BY <1>4 DEF SendToPage
  <2>2. handler[l].to \subseteq Site /\ handler[l].msg.of \in Execution
    BY <1>0, <2>1, HandledFacts
  <2>3. PICK i \in handler[l].to :
          /\ told' = IF site[i] = Gone THEN told
                     ELSE [told EXCEPT ![i][handler[l].msg.of] = Shown(@, handler[l].msg.kind)]
          /\ handler' = IF handler[l].to = {i} THEN [handler EXCEPT ![l] = Idle]
                                              ELSE [handler EXCEPT ![l].to = @ \ {i}]
    BY <1>4 DEF SendToPage
  <2>4. \A old, k : Shown(old, k) \in {"nothing", "line", "result", "late line"}
    BY DEF Shown
  <2>5. told' \in [Site -> [Execution -> {"nothing", "line", "result", "late line"}]]
    BY <2>2, <2>3, <2>4 DEF RestTypeOK
  <2>6. [handler[l] EXCEPT !.to = handler[l].to \ {i}] \in Handled
    BY <1>0, <2>1, <2>2, HandledNext
  <2>7. /\ handler' \in [1..MaxLinks -> Handled]
        /\ \A n \in 1..MaxLinks : handler'[n].stage = "last_run" => handler'[n].msg.kind \in Final
    <3>1. PICK h \in {Idle, [handler[l] EXCEPT !.to = handler[l].to \ {i}]} :
             handler' = [handler EXCEPT ![l] = h]
      BY <1>0, <2>3
    <3>2. h \in Handled /\ h.stage # "last_run"
      BY <1>0, <2>1, <2>2, <2>6, <3>1, HandledFacts, HandledNext
    <3> QED
      BY <3>1, <3>2, OneHandler
  <2> QED
    BY <1>4, <2>5, <2>7 DEF SendToPage, RestTypeOK, agentVars, netVars, pastVars
<1> QED
  BY <1>1, <1>2, <1>3, <1>4 DEF Handler

LEMMA SubSeqType ==
    ASSUME NEW q \in Seq(Message), NEW m \in 1..(Len(q) + 1), NEW n \in 0..Len(q)
    PROVE  SubSeq(q, m, n) \in Seq(Message)
<1>1. Len(q) \in Nat /\ \A i \in 1..Len(q) : q[i] \in Message
  OBVIOUS
<1>2. \A i \in m..n : q[i] \in Message
  BY <1>1
<1>3. m \in Int /\ n \in Int
  BY <1>1
<1> QED
  BY <1>2, <1>3, SubSeqProperties

LEMMA ResultsType == ASSUME NEW q \in Seq(Message) PROVE ResultsIn(q) \subseteq Execution
<1>1. \A i \in 1..Len(q) : q[i] \in Message
  OBVIOUS
<1>2. \A m \in Message : m.of \in Execution
  BY DEF Message
<1> QED
  BY <1>1, <1>2 DEF ResultsIn

LEMMA CommandsTypes ==
    ASSUME RestTypeOK, CommandsLost
    PROVE  run' \in [Execution -> {"none", "sent", "running", "hung", "told", "killed"}]
  BY ZenonT(30) DEF CommandsLost, RestTypeOK

LEMMA ConnectionTypes == ASSUME RestTypeOK, Connect \/ ConnectionLost PROVE RestTypeOK'
<1>1. CASE Connect
  <2>1. link \in 0..MaxLinks /\ MaxLinks \in Nat /\ link < MaxLinks /\ link' = link + 1
    BY <1>1, BoundAssumption DEF RestTypeOK, Connect
  <2>2. link' \in 0..MaxLinks /\ link' > 0
    BY <2>1
  <2> QED
    BY <1>1, <2>2 DEF Connect, RestTypeOK, agentVars, pageVars, pastVars
<1>2. CASE ConnectionLost
  <2>0. /\ (wire => link > 0) /\ link \in 0..MaxLinks /\ MaxLinks \in Nat /\ wire
        /\ inbox \in [1..MaxLinks -> Seq(Message)] /\ lost \subseteq Execution
    BY <1>2, BoundAssumption DEF ConnectionLost, RestTypeOK
  <2>1. link \in 1..MaxLinks
    BY <2>0
  <2>2. PICK kept \in 0..Len(inbox[link]) :
           /\ inbox' = [inbox EXCEPT ![link] = SubSeq(@, 1, kept)]
           /\ lost' = lost \cup ResultsIn(SubSeq(inbox[link], kept + 1, Len(inbox[link])))
    BY <1>2 DEF ConnectionLost
  <2>3. inbox[link] \in Seq(Message) /\ Len(inbox[link]) \in Nat
    BY <2>0, <2>1
  <2>4. SubSeq(inbox[link], 1, kept) \in Seq(Message)
    BY <2>3, SubSeqType
  <2>5. SubSeq(inbox[link], kept + 1, Len(inbox[link])) \in Seq(Message)
    <3>1. kept + 1 \in 1..(Len(inbox[link]) + 1) /\ Len(inbox[link]) \in 0..Len(inbox[link])
      BY <2>3
    <3> QED
      BY <2>3, <3>1, SubSeqType
  <2>6. inbox' \in [1..MaxLinks -> Seq(Message)]
    BY <2>0, <2>2, <2>4
  <2>7. lost' \subseteq Execution
    BY <2>0, <2>2, <2>5, ResultsType
  <2>8. run' \in [Execution -> {"none", "sent", "running", "hung", "told", "killed"}]
    BY <1>2, CommandsTypes DEF ConnectionLost
  <2> QED
    BY <1>2, <2>6, <2>7, <2>8 DEF ConnectionLost, RestTypeOK, pageVars
<1> QED
  BY <1>1, <1>2

LEMMA BackendDiesTypes == ASSUME RestTypeOK, BackendDies PROVE RestTypeOK'
<1>1. inbox \in [1..MaxLinks -> Seq(Message)] /\ handler \in [1..MaxLinks -> Handled]
      /\ lost \subseteq Execution
  BY DEF RestTypeOK
<1>2. UNION {ResultsIn(inbox[l]) : l \in 1..MaxLinks} \subseteq Execution
  BY <1>1, ResultsType
<1>3. {handler[l].msg.of : l \in {k \in 1..MaxLinks : handler[k].stage = "last_run"}} \subseteq Execution
  <2>1. \A l \in 1..MaxLinks : handler[l].stage = "last_run" => handler[l].msg.of \in Execution
    BY <1>1, HandledFacts
  <2> QED
    BY <2>1
<1>4. lost' \in SUBSET Execution
  BY <1>1, <1>2, <1>3 DEF BackendDies
<1>5. /\ crashes \in 0..MaxCrashes /\ MaxCrashes \in Nat /\ crashes < MaxCrashes
      /\ crashes' = crashes + 1
  BY BoundAssumption DEF BackendDies, RestTypeOK
<1>6. crashes' \in 0..MaxCrashes
  BY <1>5
<1>7. inbox' = [l \in 1..MaxLinks |-> <<>>] /\ inbox' \in [1..MaxLinks -> Seq(Message)]
  BY EmptySeq DEF BackendDies
<1>8. /\ handler' \in [1..MaxLinks -> Handled]
      /\ \A n \in 1..MaxLinks : handler'[n].stage = "last_run" => handler'[n].msg.kind \in Final
  BY HandledFacts DEF BackendDies
<1>9. call' \in [Execution -> {"idle", "loaded", "inserted", "waiting", "accepted", "refused", "done", "died"}]
  BY DEF BackendDies, RestTypeOK
<1>10. run' \in [Execution -> {"none", "sent", "running", "hung", "told", "killed"}]
  BY CommandsTypes DEF BackendDies
<1>11. wire' = FALSE /\ UNCHANGED <<kind, lastRun, status, via, lines, acked, outcome, link, told, early, crossed>>
  BY DEF BackendDies
<1> QED
  BY <1>4, <1>6, <1>7, <1>8, <1>9, <1>10, <1>11 DEF RestTypeOK

LEMMA AgentDiesTypes == ASSUME RestTypeOK, AgentDies PROVE RestTypeOK'
<1>1. /\ crashes \in 0..MaxCrashes /\ MaxCrashes \in Nat /\ crashes < MaxCrashes
      /\ crashes' = crashes + 1
  BY BoundAssumption DEF AgentDies, RestTypeOK
<1>2. crashes' \in 0..MaxCrashes
  BY <1>1
<1>3. run' \in [Execution -> {"none", "sent", "running", "hung", "told", "killed"}]
  BY DEF AgentDies, RestTypeOK
<1>4. acked' \in [Execution -> BOOLEAN] /\ wire' = FALSE
  BY DEF AgentDies
<1> QED
  BY <1>2, <1>3, <1>4 DEF AgentDies, RestTypeOK, pageVars

LEMMA OtherTypes == ASSUME RestTypeOK, VersionStep \/ PageStep \/ UNCHANGED vars PROVE RestTypeOK'
<1>1. CASE VersionStep
  <2>1. status' \in [Execution -> {"none", "pending"} \cup Final]
    BY <1>1 DEF VersionStep, RestTypeOK
  <2> QED
    BY <1>1, <2>1 DEF VersionStep, RestTypeOK, agentVars, netVars, pageVars
<1>2. CASE PageStep
  BY <1>2 DEF PageStep, RestTypeOK, agentVars, netVars, pastVars
<1>3. CASE UNCHANGED vars
  BY <1>3 DEF vars, RestTypeOK
<1> QED
  BY <1>1, <1>2, <1>3

LEMMA InitTypes == Init => RestTypeOK
<1> SUFFICES ASSUME Init PROVE RestTypeOK
  OBVIOUS
<1>1. /\ MaxLinks \in Nat /\ MaxLines \in Nat /\ MaxCrashes \in Nat
      /\ 0 \in 0..MaxLinks /\ 0 \in 0..MaxLines /\ 0 \in 0..MaxCrashes
  BY BoundAssumption
<1>2. inbox \in [1..MaxLinks -> Seq(Message)]
  <2>1. inbox = [l \in 1..MaxLinks |-> <<>>] /\ <<>> \in Seq(Message)
    BY EmptySeq DEF Init
  <2> QED
    BY <2>1
<1>3. /\ handler \in [1..MaxLinks -> Handled]
      /\ \A n \in 1..MaxLinks : handler[n].stage = "last_run" => handler[n].msg.kind \in Final
  <2>1. handler = [l \in 1..MaxLinks |-> Idle]
    BY DEF Init
  <2> QED
    BY <2>1, HandledFacts
<1>4. told \in [Site -> [Execution -> {"nothing", "line", "result", "late line"}]]
  BY DEF Init
<1>5. /\ status = [x \in Execution |-> "none"] /\ kind = [x \in Execution |-> "none"]
      /\ call = [x \in Execution |-> "idle"] /\ via = [x \in Execution |-> 0]
      /\ run = [x \in Execution |-> "none"] /\ lines = [x \in Execution |-> 0]
      /\ acked = [x \in Execution |-> FALSE] /\ outcome = [x \in Execution |-> "none"]
  BY DEF Init
<1>6. /\ link = 0 /\ wire = FALSE /\ lost = {} /\ early = {} /\ crossed = {} /\ crashes = 0
      /\ lastRun = ""
  BY DEF Init
<1> QED
  BY <1>1, <1>2, <1>3, <1>4, <1>5, <1>6 DEF RestTypeOK

LEMMA NextTypes == SiteTypeOK /\ RestTypeOK /\ [Next]_vars => RestTypeOK'
  BY RequestTypes, AgentTypes, HandlerTypes, ConnectionTypes, BackendDiesTypes, AgentDiesTypes,
     OtherTypes DEF Next

\* Every variable of the executions keeps its type.
THEOREM TypeCorrect == Spec => []TypeOK
<1>1. Init => SiteInv
  BY InitSites
<1>2. SiteInv /\ [Next]_vars => SiteInv'
  BY StepOfSites
<1>3. SiteInv /\ RestTypeOK /\ [Next]_vars => RestTypeOK'
  BY NextTypes DEF SiteInv
<1>4. Spec => [](SiteInv /\ RestTypeOK)
  BY <1>1, <1>2, <1>3, InitTypes, PTL DEF Spec
<1>5. SiteInv /\ RestTypeOK /\ VersionsTypeOK /\ VersionsSound => TypeOK
  BY TypesTogether DEF SiteInv
<1> QED
  BY <1>4, <1>5, RunnableCorrect, PTL

-----------------------------------------------------------------------------
(* The mail *)

Holds(q, w) == \E n \in 1..Len(q) : q[n] = w

\* What kinds of messages about an execution are on their way.
MailOf(x) == {k \in {"ack", "line"} \cup Final :
    \E l \in 1..MaxLinks : Holds(inbox[l], [kind |-> k, of |-> x])}

LEMMA MailResults ==
    ASSUME RestTypeOK, NEW x \in Execution
    PROVE  \A l \in 1..MaxLinks, k \in Final :
              (\E n \in 1..Len(inbox[l]) : inbox[l][n] = [kind |-> k, of |-> x]) => x \in ResultsIn(inbox[l])
<1> SUFFICES ASSUME NEW l \in 1..MaxLinks, NEW k \in Final, NEW n \in 1..Len(inbox[l]),
                    inbox[l][n] = [kind |-> k, of |-> x]
             PROVE  x \in ResultsIn(inbox[l])
  OBVIOUS
<1>1. inbox[l][n].kind \in Final /\ inbox[l][n].of = x
  OBVIOUS
<1> QED
  BY <1>1 DEF ResultsIn

LEMMA ResultsMail ==
    ASSUME RestTypeOK, NEW x \in Execution, MailOf(x) \cap Final # {}
    PROVE  \E l \in 1..MaxLinks : x \in ResultsIn(inbox[l])
  BY MailResults DEF MailOf, Holds

LEMMA MailStays == ASSUME UNCHANGED inbox, NEW x \in Execution PROVE MailOf(x)' = MailOf(x)
  BY DEF MailOf

LEMMA SendsMail ==
    ASSUME RestTypeOK, NEW x \in Execution, NEW k \in {"ack", "line"} \cup Final, Sends(x, k)
    PROVE  /\ MailOf(x)' = IF wire THEN MailOf(x) \cup {k} ELSE MailOf(x)
           /\ \A y \in Execution : y # x => MailOf(y)' = MailOf(y)
<1>1. CASE ~wire
  BY <1>1, MailStays, SendsFacts
<1>2. CASE wire
  <2> DEFINE m == [kind |-> k, of |-> x]
  <2>1. /\ link \in 1..MaxLinks /\ m \in Message
        /\ inbox' = [inbox EXCEPT ![link] = Append(inbox[link], m)]
        /\ inbox \in [1..MaxLinks -> Seq(Message)]
    BY <1>2, SendsFacts DEF RestTypeOK
  <2>2. /\ inbox[link] \in Seq(Message) /\ Len(inbox[link]) \in Nat
        /\ inbox'[link] = Append(inbox[link], m)
        /\ \A l \in 1..MaxLinks : l # link => inbox'[l] = inbox[l]
    BY <2>1
  <2>3. /\ Len(inbox'[link]) = Len(inbox[link]) + 1
        /\ \A n \in 1..Len(inbox[link]) : inbox'[link][n] = inbox[link][n]
        /\ inbox'[link][Len(inbox[link]) + 1] = m
    BY <2>1, <2>2, AppendProperties
  <2>4. ASSUME NEW y \in Execution, NEW j \in {"ack", "line"} \cup Final
        PROVE  j \in MailOf(y)' <=> j \in MailOf(y) \/ (y = x /\ j = k)
    <3> DEFINE w == [kind |-> j, of |-> y]
    <3>1. (w = m) <=> (y = x /\ j = k)
      OBVIOUS
    <3> HIDE DEF w, m
    <3>2. Holds(inbox'[link], w)
            <=> Holds(inbox[link], w) \/ w = m
      <4>1. 1..Len(inbox'[link]) = 1..Len(inbox[link]) \cup {Len(inbox[link]) + 1}
        BY <2>2, <2>3
      <4> QED
        BY <2>3, <4>1 DEF Holds
    <3>3. j \in MailOf(y)' <=> \E l \in 1..MaxLinks : Holds(inbox'[l], w)
      BY DEF MailOf, w
    <3>4. j \in MailOf(y) <=> \E l \in 1..MaxLinks : Holds(inbox[l], w)
      BY DEF MailOf, w
    <3> QED
      BY <2>1, <2>2, <3>1, <3>2, <3>3, <3>4
  <2>5. \A y : MailOf(y) \subseteq {"ack", "line"} \cup Final /\ MailOf(y)' \subseteq {"ack", "line"} \cup Final
    BY DEF MailOf
  <2>6. ASSUME NEW y \in Execution, y # x PROVE MailOf(y)' = MailOf(y)
    BY <2>4, <2>5, <2>6
  <2>7. MailOf(x)' = MailOf(x) \cup {k}
    BY <2>4, <2>5
  <2> QED
    BY <1>2, <2>6, <2>7
<1> QED
  BY <1>1, <1>2

\* The handler of a connection takes the first message from its inbox.
LEMMA ReadMail ==
    ASSUME RestTypeOK, NEW l \in 1..MaxLinks, inbox[l] # <<>>, inbox' = [inbox EXCEPT ![l] = Tail(@)]
    PROVE  /\ Head(inbox[l]) \in Message
           /\ Head(inbox[l]).kind \in MailOf(Head(inbox[l]).of)
           /\ \A y \in Execution :
                 /\ MailOf(y)' \subseteq MailOf(y)
                 /\ y # Head(inbox[l]).of => MailOf(y)' = MailOf(y)
                 /\ MailOf(y) \subseteq MailOf(y)' \cup {Head(inbox[l]).kind}
<1> DEFINE q == inbox[l]
           m == Head(q)
<1>1. q \in Seq(Message) /\ inbox \in [1..MaxLinks -> Seq(Message)] /\ q # <<>>
  BY DEF RestTypeOK
<1>2. /\ m \in Message /\ Len(Tail(q)) = Len(q) - 1 /\ Len(q) \in Nat /\ Len(q) > 0
      /\ \A n \in 1..Len(Tail(q)) : Tail(q)[n] = q[n + 1]
      /\ m = q[1]
  <2>1. /\ m \in Message /\ Len(Tail(q)) = Len(q) - 1
        /\ \A n \in 1..Len(Tail(q)) : Tail(q)[n] = q[n + 1]
    BY <1>1, HeadTailProperties
  <2>2. Len(q) \in Nat /\ Len(q) > 0 /\ m = q[1]
    BY <1>1
  <2> QED
    BY <2>1, <2>2
<1>3. /\ inbox'[l] = Tail(q) /\ inbox[l] = q
      /\ \A k \in 1..MaxLinks : k # l => inbox'[k] = inbox[k]
  BY <1>1
<1>4. m.kind \in {"ack", "line"} \cup Final /\ m.of \in Execution /\ m = [kind |-> m.kind, of |-> m.of]
  BY <1>2 DEF Message
<1> HIDE DEF q, m
<1>5. ASSUME NEW w
      PROVE  /\ Holds(Tail(q), w) => Holds(q, w)
             /\ Holds(q, w) => w = m \/ Holds(Tail(q), w)
  <2>1. ASSUME NEW n \in 1..Len(Tail(q)), Tail(q)[n] = w PROVE \E i \in 1..Len(q) : q[i] = w
    <3>1. n + 1 \in 1..Len(q) /\ q[n + 1] = w
      BY <1>2, <2>1
    <3> QED
      BY <3>1
  <2>2. ASSUME NEW n \in 1..Len(q), q[n] = w, w # m PROVE \E i \in 1..Len(Tail(q)) : Tail(q)[i] = w
    <3>1. n - 1 \in 1..Len(Tail(q)) /\ Tail(q)[n - 1] = q[(n - 1) + 1] /\ (n - 1) + 1 = n
      BY <1>2, <2>2
    <3> QED
      BY <2>2, <3>1
  <2> QED
    BY <2>1, <2>2 DEF Holds
<1>6. ASSUME NEW y \in Execution, NEW j \in {"ack", "line"} \cup Final
      PROVE  /\ j \in MailOf(y)' => j \in MailOf(y)
             /\ j \in MailOf(y) => j \in MailOf(y)' \/ (y = m.of /\ j = m.kind)
  <2> DEFINE w == [kind |-> j, of |-> y]
  <2>1. w = m => y = m.of /\ j = m.kind
    BY <1>4
  <2> HIDE DEF w
  <2>2. j \in MailOf(y)' <=> \E k \in 1..MaxLinks : Holds(inbox'[k], w)
    BY DEF MailOf, w
  <2>3. j \in MailOf(y) <=> \E k \in 1..MaxLinks : Holds(inbox[k], w)
    BY DEF MailOf, w
  <2> QED
    BY <1>3, <1>5, <2>1, <2>2, <2>3
<1>7. m.kind \in MailOf(m.of)
  <2>1. 1 \in 1..Len(inbox[l]) /\ inbox[l][1] = [kind |-> m.kind, of |-> m.of]
    BY <1>2, <1>3, <1>4
  <2> QED
    BY <1>4, <2>1 DEF MailOf, Holds
<1>8. \A y : MailOf(y) \subseteq {"ack", "line"} \cup Final /\ MailOf(y)' \subseteq {"ack", "line"} \cup Final
  BY DEF MailOf
<1>9. \A y \in Execution :
         /\ MailOf(y)' \subseteq MailOf(y)
         /\ y # m.of => MailOf(y)' = MailOf(y)
         /\ MailOf(y) \subseteq MailOf(y)' \cup {m.kind}
  BY <1>6, <1>8
<1> QED
  BY <1>2, <1>7, <1>9 DEF m, q

\* A connection that ends takes messages with it; the results among them are lost.
LEMMA LoseMail ==
    ASSUME RestTypeOK, ConnectionLost, NEW y \in Execution
    PROVE  /\ MailOf(y)' \subseteq MailOf(y) /\ lost \subseteq lost'
           /\ \A k \in MailOf(y) \cap Final : k \in MailOf(y)' \/ y \in lost'
<1>0. /\ (wire => link > 0) /\ link \in 0..MaxLinks /\ MaxLinks \in Nat /\ wire
      /\ inbox \in [1..MaxLinks -> Seq(Message)]
  BY BoundAssumption DEF ConnectionLost, RestTypeOK
<1>1. link \in 1..MaxLinks
  BY <1>0
<1> DEFINE q == inbox[link]
<1>2. PICK kept \in 0..Len(q) :
         /\ inbox' = [inbox EXCEPT ![link] = SubSeq(q, 1, kept)]
         /\ lost' = lost \cup ResultsIn(SubSeq(q, kept + 1, Len(q)))
  BY DEF ConnectionLost
<1>3. q \in Seq(Message) /\ Len(q) \in Nat /\ kept \in Nat /\ kept <= Len(q)
  BY <1>0, <1>1, <1>2
<1> DEFINE front == SubSeq(q, 1, kept)
           back  == SubSeq(q, kept + 1, Len(q))
<1>4. /\ Len(front) = kept /\ \A n \in 1..kept : front[n] = q[n]
  <2>1. \A i \in 1..kept : q[i] \in Message
    BY <1>3
  <2> QED
    BY <1>3, <2>1, SubSeqProperties
<1>5. /\ Len(back) = Len(q) - kept /\ \A n \in 1..Len(q) - kept : back[n] = q[kept + n]
  <2>1. \A i \in kept + 1..Len(q) : q[i] \in Message
    BY <1>3
  <2>2. /\ Len(back) = IF kept + 1 <= Len(q) THEN Len(q) - (kept + 1) + 1 ELSE 0
        /\ \A i \in 1..Len(q) - (kept + 1) + 1 : back[i] = q[(kept + 1) + i - 1]
    <3>1. kept + 1 \in Int /\ Len(q) \in Int
      BY <1>3
    <3> QED
      BY <2>1, <3>1, SubSeqProperties
  <2>3. \A i \in 1..Len(q) - kept : (kept + 1) + i - 1 = kept + i /\ i \in 1..Len(q) - (kept + 1) + 1
    BY <1>3
  <2>4. Len(back) = Len(q) - kept
    BY <1>3, <2>2
  <2> QED
    BY <2>2, <2>3, <2>4
<1>6. /\ inbox'[link] = front /\ inbox[link] = q
      /\ \A k \in 1..MaxLinks : k # link => inbox'[k] = inbox[k]
      /\ lost' = lost \cup ResultsIn(back)
  BY <1>0, <1>1, <1>2
<1> HIDE DEF q, front, back
<1>7. ASSUME NEW w
      PROVE  /\ Holds(front, w) => Holds(q, w)
             /\ Holds(q, w) => Holds(front, w) \/ Holds(back, w)
  <2>1. ASSUME NEW n \in 1..Len(q), q[n] = w, ~(n <= kept) PROVE \E i \in 1..Len(back) : back[i] = w
    <3>1. n - kept \in 1..Len(q) - kept /\ kept + (n - kept) = n
      BY <1>3, <2>1
    <3> QED
      BY <1>5, <2>1, <3>1
  <2>2. ASSUME NEW n \in 1..Len(q), q[n] = w, n <= kept PROVE \E i \in 1..Len(front) : front[i] = w
    BY <1>3, <1>4, <2>2
  <2>3. Holds(front, w) => Holds(q, w)
    BY <1>3, <1>4 DEF Holds
  <2> QED
    BY <2>1, <2>2, <2>3 DEF Holds
<1>8. ASSUME NEW j \in {"ack", "line"} \cup Final
      PROVE  /\ j \in MailOf(y)' => j \in MailOf(y)
             /\ j \in MailOf(y) /\ j \in Final => j \in MailOf(y)' \/ y \in lost'
  <2> DEFINE w == [kind |-> j, of |-> y]
  <2>1. w.kind = j /\ w.of = y
    OBVIOUS
  <2> HIDE DEF w
  <2>2. j \in MailOf(y)' <=> \E k \in 1..MaxLinks : Holds(inbox'[k], w)
    BY DEF MailOf, w
  <2>3. j \in MailOf(y) <=> \E k \in 1..MaxLinks : Holds(inbox[k], w)
    BY DEF MailOf, w
  <2>4. Holds(back, w) /\ j \in Final => y \in ResultsIn(back)
    BY <2>1 DEF ResultsIn, Holds
  <2> QED
    BY <1>6, <1>7, <2>2, <2>3, <2>4
<1>9. MailOf(y) \subseteq {"ack", "line"} \cup Final /\ MailOf(y)' \subseteq {"ack", "line"} \cup Final
  BY DEF MailOf
<1>10. lost \subseteq lost'
  BY <1>6
<1> QED
  BY <1>8, <1>9, <1>10

LEMMA DieMail ==
    ASSUME RestTypeOK, BackendDies, NEW y \in Execution
    PROVE  /\ MailOf(y)' = {} /\ lost \subseteq lost'
           /\ MailOf(y) \cap Final # {} => y \in lost'
<1>1. inbox' = [l \in 1..MaxLinks |-> <<>>] /\ lost \subseteq lost'
      /\ \A l \in 1..MaxLinks : ResultsIn(inbox[l]) \subseteq lost'
  BY DEF BackendDies
<1>2. \A l \in 1..MaxLinks : inbox'[l] = <<>> /\ Len(inbox'[l]) = 0
  BY <1>1
<1>3. MailOf(y)' = {}
  BY <1>2 DEF MailOf, Holds
<1> QED
  BY <1>1, <1>3, ResultsMail

-----------------------------------------------------------------------------
(* What a row says, and what is owed to it *)

\* HonestStatus and PendingIsOwed, for one execution.
Honest(x) ==
    /\ status[x] = "success" => kind[x] = "dry" \/ outcome[x] = "success"
    /\ status[x] = "rolled_back" => outcome[x] = "rolled_back"
    /\ status[x] = "failed" => outcome[x] = "failed" \/ (kind[x] = "run" /\ call[x] = "done")

\* Nothing exists of an execution before its request is dispatched; the agent makes something of
\* it once; what is on its way about it is true; and a result that is owed has been told, is on
\* its way, or is lost.
RunInv(x) ==
    /\ call[x] \in {"idle", "loaded"} => status[x] = "none" /\ run[x] = "none"
    /\ call[x] = "loaded" => kind[x] # "none"
    /\ call[x] = "inserted" => kind[x] = "dry" /\ run[x] = "none"
    /\ call[x] \in {"waiting", "refused"} => kind[x] \in {"run", "rollback"}
    /\ outcome[x] # "none" => run[x] = "told"
    /\ \A k \in MailOf(x) : k \in Final => outcome[x] = k
    /\ "ack" \in MailOf(x) => run[x] \in {"running", "hung", "told", "killed"}
    /\ Honest(x)
    /\ status[x] = "pending" /\ kind[x] # "rollback" /\ call[x] \in {"accepted", "done"} =>
          run[x] \in {"running", "hung", "told", "killed"}
    /\ status[x] = "pending" /\ run[x] = "told" => x \in lost \/ MailOf(x) \cap Final # {}

RunsInv == \A x \in Execution : RunInv(x)

\* An execution that a step leaves alone.
LEMMA Unmoved ==
    ASSUME NEW y \in Execution, RunInv(y),
           status'[y] = status[y], kind'[y] = kind[y], call'[y] = call[y], run'[y] = run[y],
           outcome'[y] = outcome[y], MailOf(y)' = MailOf(y), lost \subseteq lost'
    PROVE  RunInv(y)'
  BY DEF RunInv, Honest

\* A request changes its own execution and no mail.
LEMMA RequestRuns == ASSUME RestTypeOK, RunsInv, NEW x \in Execution, Request(x) PROVE RunsInv'
<1> USE DEF agentVars, netVars, pageVars, pastVars
<1>1. UNCHANGED <<inbox, outcome, lost>>
  BY DEF Request, LoadExecution, InsertDryRun, FinishDryRun, Dispatch, RequestFails, Refused, Accepted
<1>2. \A y \in Execution : MailOf(y)' = MailOf(y)
  BY <1>1, MailStays
<1>3. ASSUME NEW y \in Execution, y # x PROVE RunInv(y)'
  <2>1. /\ status'[y] = status[y] /\ kind'[y] = kind[y] /\ call'[y] = call[y] /\ run'[y] = run[y]
    <3>1. CASE LoadExecution(x)
      BY <1>3, <3>1 DEF LoadExecution, RestTypeOK
    <3>2. CASE InsertDryRun(x)
      BY <1>3, <3>2 DEF InsertDryRun, RestTypeOK
    <3>3. CASE Dispatch(x)
      BY <1>3, <3>3 DEF Dispatch, RestTypeOK
    <3>4. CASE RequestFails(x) \/ Accepted(x)
      BY <1>3, <3>4 DEF RequestFails, Accepted, RestTypeOK
    <3>5. CASE Refused(x)
      BY <1>3, <3>5 DEF Refused, Written, RestTypeOK
    <3>6. CASE FinishDryRun(x)
      BY <1>3, <3>6 DEF FinishDryRun, Written, RestTypeOK
    <3> QED
      BY <3>1, <3>2, <3>3, <3>4, <3>5, <3>6 DEF Request
  <2> QED
    BY <1>1, <1>2, <2>1, Unmoved DEF RunsInv
<1>4. RunInv(x)'
  <2>0. RunInv(x) /\ MailOf(x)' = MailOf(x)
    BY <1>2 DEF RunsInv
  <2>1. CASE LoadExecution(x)
    <3>1. /\ call[x] = "idle" /\ call'[x] = "loaded" /\ kind'[x] \in {"run", "dry", "rollback"}
          /\ status'[x] = status[x] /\ run'[x] = run[x]
      BY <2>1 DEF LoadExecution, RestTypeOK
    <3> QED
      BY <1>1, <2>0, <3>1 DEF RunInv, Honest
  <2>2. CASE InsertDryRun(x)
    <3>1. /\ call[x] = "loaded" /\ kind[x] = "dry" /\ call'[x] = "inserted" /\ kind'[x] = kind[x]
          /\ status'[x] = "pending" /\ run'[x] = run[x]
      BY <2>2 DEF InsertDryRun, RestTypeOK
    <3> QED
      BY <1>1, <2>0, <3>1 DEF RunInv, Honest
  <2>7. CASE FinishDryRun(x)
    <3>1. /\ call[x] = "inserted" /\ call'[x] = "accepted" /\ kind'[x] = kind[x]
          /\ status'[x] \in {"none", "success"} /\ run'[x] = run[x]
      BY <2>7 DEF FinishDryRun, Written, RestTypeOK
    <3> QED
      BY <1>1, <2>0, <3>1 DEF RunInv, Honest
  <2>3. CASE Dispatch(x)
    <3>1. /\ call[x] = "loaded" /\ kind[x] # "dry" /\ kind'[x] = kind[x]
          /\ status'[x] = "pending" /\ call'[x] \in {"waiting", "refused"}
          /\ run'[x] = run[x] \/ run'[x] \in {"sent", "none"}
      <4>1. CASE UNCHANGED run
        BY <2>3, <4>1 DEF Dispatch, RestTypeOK
      <4>2. CASE run' = [run EXCEPT ![x] = IF wire THEN "sent" ELSE "none"]
        BY <2>3, <4>2 DEF Dispatch, RestTypeOK
      <4> QED
        BY <2>3, <4>1, <4>2 DEF Dispatch
    <3>2. kind[x] \in {"run", "rollback"}
      BY <2>0, <3>1 DEF RestTypeOK, RunInv
    <3>3. /\ run[x] = "none" /\ outcome[x] = "none" /\ outcome'[x] = "none"
          /\ "ack" \notin MailOf(x) /\ \A k \in MailOf(x) : k \notin Final
      BY <1>1, <2>0, <3>1 DEF RunInv, RestTypeOK, Final
    <3>4. run'[x] \in {"none", "sent"}
      BY <3>1, <3>3
    <3> QED
      BY <1>1, <2>0, <3>1, <3>2, <3>3, <3>4 DEF RunInv, Honest
  <2>4. CASE RequestFails(x)
    <3>1. /\ call[x] = "waiting" /\ call'[x] = "refused" /\ kind'[x] = kind[x]
          /\ status'[x] = status[x] /\ run'[x] = run[x]
      BY <2>4 DEF RequestFails, RestTypeOK
    <3> QED
      BY <1>1, <2>0, <3>1 DEF RunInv, Honest
  <2>5. CASE Refused(x)
    <3>1. /\ call[x] = "refused" /\ call'[x] = "done" /\ kind'[x] = kind[x] /\ run'[x] = run[x]
          /\ kind[x] = "run" => status'[x] \in {"none", "failed"}
          /\ kind[x] # "run" => status'[x] = status[x]
      BY <2>5 DEF Refused, Written, RestTypeOK
    <3> QED
      BY <1>1, <2>0, <3>1 DEF RunInv, Honest
  <2>6. CASE Accepted(x)
    <3>1. /\ call[x] = "accepted" /\ call'[x] = "done" /\ kind'[x] = kind[x]
          /\ status'[x] = status[x] /\ run'[x] = run[x]
      BY <2>6 DEF Accepted, RestTypeOK
    <3> QED
      BY <1>1, <2>0, <3>1 DEF RunInv, Honest
  <2> QED
    BY <2>1, <2>2, <2>3, <2>4, <2>5, <2>6, <2>7 DEF Request
<1> QED
  BY <1>3, <1>4 DEF RunsInv

\* What the agent sends is what it has just made of the execution.
LEMMA AgentRuns == ASSUME RestTypeOK, RunsInv, NEW x \in Execution, Agent(x) PROVE RunsInv'
<1>0. RunInv(x) /\ RestTypeOK
  BY DEF RunsInv
<1>1. CASE StartRun(x)
  <2>1. /\ UNCHANGED <<inbox, outcome, lost, status, kind, call>>
        /\ run[x] = "sent" /\ run'[x] = "running" /\ \A y \in Execution : y # x => run'[y] = run[y]
    BY <1>1 DEF StartRun, RestTypeOK, netVars, pastVars
  <2>2. \A y \in Execution : MailOf(y)' = MailOf(y)
    BY <2>1, MailStays
  <2>3. RunInv(x)'
    BY <1>0, <2>1, <2>2 DEF RunInv, Honest
  <2> QED
    BY <2>1, <2>2, <2>3, Unmoved DEF RunsInv
<1>2. CASE Acknowledge(x)
  <2>1. /\ UNCHANGED <<run, outcome, lost, status, kind, call>>
        /\ run[x] \in {"running", "hung", "told"}
        /\ Sends(x, "ack") \/ UNCHANGED inbox
    BY <1>2 DEF Acknowledge
  <2>2. /\ \A y \in Execution : y # x => MailOf(y)' = MailOf(y)
        /\ MailOf(x)' = MailOf(x) \/ MailOf(x)' = MailOf(x) \cup {"ack"}
    BY <2>1, MailStays, SendsMail
  <2>3. RunInv(x)'
    BY <1>0, <2>1, <2>2 DEF RunInv, Honest, Final
  <2> QED
    BY <2>1, <2>2, <2>3, Unmoved DEF RunsInv
<1>3. CASE SendLine(x)
  <2>1. UNCHANGED <<run, outcome, lost, status, kind, call>> /\ Sends(x, "line")
    BY <1>3 DEF SendLine
  <2>2. /\ \A y \in Execution : y # x => MailOf(y)' = MailOf(y)
        /\ MailOf(x)' = MailOf(x) \/ MailOf(x)' = MailOf(x) \cup {"line"}
    BY <2>1, SendsMail
  <2>3. RunInv(x)'
    BY <1>0, <2>1, <2>2 DEF RunInv, Honest, Final
  <2> QED
    BY <2>1, <2>2, <2>3, Unmoved DEF RunsInv
<1>4. CASE SendResult(x)
  <2>1. PICK result \in Final : outcome' = [outcome EXCEPT ![x] = result] /\ Sends(x, result)
    BY <1>4 DEF SendResult, Final
  <2>2. /\ UNCHANGED <<status, kind, call>> /\ lost' = IF wire THEN lost ELSE lost \cup {x}
        /\ run[x] \in {"running", "hung"} /\ run'[x] = "told" /\ outcome'[x] = result
        /\ \A y \in Execution : y # x => run'[y] = run[y] /\ outcome'[y] = outcome[y]
    BY <1>4, <2>1 DEF SendResult, RestTypeOK
  <2>3. /\ \A y \in Execution : y # x => MailOf(y)' = MailOf(y)
        /\ MailOf(x)' = IF wire THEN MailOf(x) \cup {result} ELSE MailOf(x)
    BY <2>1, SendsMail
  <2>4. outcome[x] = "none" /\ MailOf(x) \cap Final = {}
    BY <1>0, <2>2 DEF RunInv, Final
  <2>5. RunInv(x)'
    BY <1>0, <2>1, <2>2, <2>3, <2>4 DEF RunInv, Honest, Final
  <2> QED
    BY <2>2, <2>3, <2>5, Unmoved DEF RunsInv
<1>5. CASE Hang(x)
  <2>1. /\ UNCHANGED <<inbox, outcome, lost, status, kind, call>>
        /\ run[x] = "running" /\ run'[x] = "hung" /\ \A y \in Execution : y # x => run'[y] = run[y]
    BY <1>5 DEF Hang, RestTypeOK, netVars, pastVars
  <2>2. \A y \in Execution : MailOf(y)' = MailOf(y)
    BY <2>1, MailStays
  <2>3. RunInv(x)'
    BY <1>0, <2>1, <2>2 DEF RunInv, Honest
  <2> QED
    BY <2>1, <2>2, <2>3, Unmoved DEF RunsInv
<1> QED
  BY <1>1, <1>2, <1>3, <1>4, <1>5 DEF Agent

\* A message is true, and writes what it says.
LEMMA HandlerRuns ==
    ASSUME RestTypeOK, RunsInv, NEW l \in 1..MaxLinks, Handler(l) PROVE RunsInv'
<1>1. CASE ReadMessage(l)
  <2>0. /\ inbox[l] # <<>> /\ inbox' = [inbox EXCEPT ![l] = Tail(@)] /\ Begin(l, Head(inbox[l]))
        /\ UNCHANGED <<kind, run, outcome, lost>>
    BY <1>1 DEF ReadMessage, agentVars, pastVars
  <2>1. PICK m \in Message :
          /\ Begin(l, m) /\ m.kind \in MailOf(m.of)
          /\ \A y \in Execution : /\ MailOf(y)' \subseteq MailOf(y)
                                  /\ y # m.of => MailOf(y)' = MailOf(y)
                                  /\ MailOf(y) \subseteq MailOf(y)' \cup {m.kind}
    BY <2>0, ReadMail
  <2> DEFINE x == m.of
  <2>2. /\ m \in Message /\ m.kind \in MailOf(x) /\ Begin(l, m)
        /\ UNCHANGED <<kind, run, outcome, lost>>
        /\ \A y \in Execution : /\ MailOf(y)' \subseteq MailOf(y)
                                /\ y # x => MailOf(y)' = MailOf(y)
                                /\ MailOf(y) \subseteq MailOf(y)' \cup {m.kind}
    BY <2>0, <2>1
  <2>3. x \in Execution /\ m.kind \in {"ack", "line"} \cup Final
    BY <2>2 DEF Message
  <2> HIDE DEF x
  <2>4. /\ \A y \in Execution : y # x => status'[y] = status[y] /\ call'[y] = call[y]
        /\ IF m.kind = "ack" /\ call[x] = "waiting" THEN call'[x] = "accepted" ELSE call'[x] = call[x]
        /\ IF m.kind \in Final /\ status[x] # "none" THEN status'[x] = m.kind ELSE status'[x] = status[x]
    BY <2>2, <2>3 DEF Begin, Written, RestTypeOK, x
  <2>5. RunInv(x) /\ "ack" \notin Final /\ "line" \notin Final
    BY <2>3 DEF RunsInv, Final
  <2>6. RunInv(x)'
    <3>1. CASE m.kind \in Final
      <4>1. outcome[x] = m.kind /\ run[x] = "told"
        BY <2>2, <2>5, <3>1 DEF RunInv, Final
      <4>2. call'[x] = call[x] /\ (status'[x] = m.kind \/ (status[x] = "none" /\ status'[x] = "none"))
        BY <2>4, <2>5, <3>1
      <4> QED
        BY <2>2, <2>3, <2>5, <3>1, <4>1, <4>2 DEF RunInv, Honest, Final
    <3>2. CASE m.kind \notin Final
      <4>1. status'[x] = status[x] /\ MailOf(x)' \cap Final = MailOf(x) \cap Final
        BY <2>2, <2>3, <2>4, <3>2
      <4>2. \/ call'[x] = call[x]
            \/ /\ call[x] = "waiting" /\ call'[x] = "accepted" /\ run[x] \in {"running", "hung", "told", "killed"}
        BY <2>2, <2>4, <2>5 DEF RunInv
      <4> QED
        BY <2>2, <2>3, <2>5, <4>1, <4>2 DEF RunInv, Honest
    <3> QED
      BY <3>1, <3>2
  <2> QED
    BY <2>2, <2>4, <2>6, Unmoved DEF RunsInv
<1>2. CASE WriteLastRun(l) \/ CopySubscribers(l) \/ SendToPage(l)
  <2>1. UNCHANGED <<inbox, outcome, lost, status, kind, call, run>>
    BY <1>2 DEF WriteLastRun, CopySubscribers, SendToPage, agentVars, netVars, pastVars
  <2> QED
    BY <2>1, MailStays, Unmoved DEF RunsInv
<1> QED
  BY <1>1, <1>2 DEF Handler

\* Commands that have not been read are forgotten with their connection.
LEMMA CommandsRuns ==
    ASSUME RestTypeOK, CommandsLost, NEW y \in Execution
    PROVE  run'[y] = run[y] \/ (run[y] = "sent" /\ run'[y] = "none")
  BY DEF CommandsLost, RestTypeOK

\* A connection that ends, and either process: results get lost, and are known to be.
LEMMA LossRuns ==
    ASSUME RestTypeOK, RunsInv, ConnectionLost \/ BackendDies \/ AgentDies PROVE RunsInv'
<1> SUFFICES ASSUME NEW y \in Execution PROVE RunInv(y)'
  BY DEF RunsInv
<1>0. RunInv(y)
  BY DEF RunsInv
<1>1. CASE ConnectionLost
  <2>1. /\ UNCHANGED <<outcome, status, kind, call>>
        /\ run'[y] = run[y] \/ (run[y] = "sent" /\ run'[y] = "none")
    BY <1>1, CommandsRuns DEF ConnectionLost
  <2>2. /\ MailOf(y)' \subseteq MailOf(y) /\ lost \subseteq lost'
        /\ \A k \in MailOf(y) \cap Final : k \in MailOf(y)' \/ y \in lost'
    BY <1>1, LoseMail
  <2> QED
    BY <1>0, <2>1, <2>2 DEF RunInv, Honest
<1>2. CASE BackendDies
  <2>1. /\ UNCHANGED <<outcome, kind>>
        /\ call'[y] = call[y] \/ (call[y] \notin {"idle", "done"} /\ call'[y] = "died")
        /\ run'[y] = run[y] \/ (run[y] = "sent" /\ run'[y] = "none")
    BY <1>2, CommandsRuns DEF BackendDies
  <2>2. status' = status
    BY <1>2 DEF BackendDies
  <2>3. /\ MailOf(y)' = {} /\ lost \subseteq lost'
        /\ MailOf(y) \cap Final # {} => y \in lost'
    BY <1>2, DieMail
  <2> QED
    BY <1>0, <2>1, <2>2, <2>3 DEF RunInv, Honest
<1>3. CASE AgentDies
  <2>1. /\ UNCHANGED <<outcome, status, kind, call, inbox, lost>>
        /\ \/ run'[y] = run[y] \/ (run[y] = "sent" /\ run'[y] = "none")
           \/ run[y] \in {"running", "hung"} /\ run'[y] = "killed"
    BY <1>3 DEF AgentDies, RestTypeOK
  <2>2. MailOf(y)' = MailOf(y)
    BY <2>1, MailStays
  <2> QED
    BY <1>0, <2>1, <2>2 DEF RunInv, Honest
<1> QED
  BY <1>1, <1>2, <1>3

LEMMA OtherRuns ==
    ASSUME RestTypeOK, RunsInv, VersionStep \/ PageStep \/ Connect \/ UNCHANGED vars PROVE RunsInv'
<1>1. CASE VersionStep
  <2>1. /\ UNCHANGED <<inbox, outcome, lost, kind, call, run>>
        /\ status' = status \/ status' = [x \in Execution |-> "none"]
    BY <1>1 DEF VersionStep, agentVars, netVars
  <2>2. \A y \in Execution : MailOf(y)' = MailOf(y)
    BY <2>1, MailStays
  <2>3. CASE status' = status
    BY <2>1, <2>2, <2>3, Unmoved DEF RunsInv
  <2>4. CASE status' = [x \in Execution |-> "none"]
    <3> SUFFICES ASSUME NEW y \in Execution PROVE RunInv(y)'
      BY DEF RunsInv
    <3>1. RunInv(y) /\ status'[y] = "none"
      BY <2>4 DEF RunsInv
    <3> QED
      BY <2>1, <2>2, <3>1 DEF RunInv, Honest
  <2> QED
    BY <2>1, <2>3, <2>4
<1>2. CASE PageStep \/ Connect \/ UNCHANGED vars
  <2>1. UNCHANGED <<inbox, outcome, lost, status, kind, call, run>>
    BY <1>2 DEF PageStep, Connect, vars, agentVars, netVars, pastVars
  <2> QED
    BY <2>1, MailStays, Unmoved DEF RunsInv
<1> QED
  BY <1>1, <1>2

LEMMA InitRuns == Init => RunsInv
<1> SUFFICES ASSUME Init, NEW x \in Execution PROVE RunInv(x)
  BY DEF RunsInv
<1>1. /\ status[x] = "none" /\ call[x] = "idle" /\ run[x] = "none" /\ outcome[x] = "none"
  BY DEF Init
<1>2. MailOf(x) = {}
  <2>1. inbox = [l \in 1..MaxLinks |-> <<>>]
    BY DEF Init
  <2>2. \A l \in 1..MaxLinks : inbox[l] = <<>> /\ Len(inbox[l]) = 0
    BY <2>1
  <2> QED
    BY <2>2 DEF MailOf, Holds
<1> QED
  BY <1>1, <1>2 DEF RunInv, Honest

LEMMA NextRuns == RestTypeOK /\ RunsInv /\ [Next]_vars => RunsInv'
  BY RequestRuns, AgentRuns, HandlerRuns, LossRuns, OtherRuns DEF Next

LEMMA RunsAlways == Spec => [](SiteInv /\ RestTypeOK /\ RunsInv)
<1>1. SiteInv /\ [Next]_vars => SiteInv'
  BY StepOfSites
<1>2. SiteInv /\ RestTypeOK /\ [Next]_vars => RestTypeOK'
  BY NextTypes DEF SiteInv
<1> QED
  BY <1>1, <1>2, InitSites, InitTypes, InitRuns, NextRuns, PTL DEF Spec

\* What a row says of an execution is what happened, whatever is lost, restarted or late: for any
\* number of executions, connections and crashes (runbook_handlers.go:455, 462, 684).
THEOREM StatusCorrect == Spec => []HonestStatus
<1>1. RunsInv => HonestStatus
  BY DEF RunsInv, RunInv, Honest, HonestStatus
<1> QED
  BY <1>1, RunsAlways, PTL

\* An execution that stays pending is owed a result that is still to come, or its result is lost,
\* its run was killed, or it is a rollback (runbook_handlers.go:510).
THEOREM PendingCorrect == Spec => []PendingIsOwed
<1>1. RestTypeOK /\ RunsInv => PendingIsOwed
  <2> SUFFICES ASSUME RestTypeOK, RunsInv, NEW x \in Execution, status[x] = "pending", call[x] = "done",
                      kind[x] # "rollback"
               PROVE  ResultComes(x) \/ x \in lost \/ run[x] = "killed"
    BY DEF PendingIsOwed
  <2>1. RunInv(x)
    BY DEF RunsInv
  <2>2. run[x] \in {"running", "hung", "told", "killed"}
    BY <2>1 DEF RunInv
  <2>3. CASE run[x] = "told"
    BY <2>1, <2>3, ResultsMail DEF RunInv, ResultComes
  <2> QED
    BY <2>2, <2>3 DEF ResultComes
<1> QED
  BY <1>1, RunsAlways, PTL


-----------------------------------------------------------------------------
(* What the runbook shows *)

\* A result of x is on its way to last_run_status, or will never get there, or was there too early.
Owed(x) ==
    \/ x \in early \cup lost
    \/ run[x] \in {"running", "hung", "killed"}
    \/ MailOf(x) \cap Final # {}
    \/ \E l \in 1..MaxLinks : handler[l].stage = "last_run" /\ handler[l].msg.of = x

\* The result a handler has in its hand, and the one that is shown, were reported.
ShownInv ==
    /\ \A l \in 1..MaxLinks :
          handler[l].stage = "last_run" => outcome[handler[l].msg.of] = handler[l].msg.kind
    /\ lastRun \in Final => \E x \in Execution : outcome[x] = lastRun
    /\ \A x \in Execution : call[x] = "accepted" => kind[x] # "none"

\* Until somebody deletes the runbook, it is there for an execution that was requested, and an
\* execution that was dispatched has its row.
RowInv ==
    remover = "idle" =>
        \A x \in Execution :
            /\ call[x] # "idle" => runbook = "live"
            /\ status[x] = "none" => call[x] \in {"idle", "loaded", "died"}

\* Until then a run whose request is not over is owed its result, and so is one whose request
\* has made last_run_status pending.
OwedInv ==
    remover = "idle" =>
        /\ \A x \in Execution :
              call[x] \in {"waiting", "accepted"} /\ kind[x] = "run" /\ run[x] = "told" => Owed(x)
        /\ lastRun = "pending" =>
              \E x \in Execution : call[x] = "done" /\ (kind[x] = "dry" \/ (kind[x] = "run" /\ Owed(x)))

LastInv == ShownInv /\ RowInv /\ OwedInv

\* The outcome of an execution is settled once.
LEMMA OutcomeKept ==
    ASSUME RestTypeOK, RunsInv, [Next]_vars, NEW x \in Execution, outcome[x] # "none"
    PROVE  outcome'[x] = outcome[x]
<1>1. ASSUME NEW y \in Execution, Agent(y) PROVE outcome'[x] = outcome[x]
  <2>1. CASE SendResult(y)
    <3>1. x # y
      BY <2>1 DEF SendResult, RunsInv, RunInv
    <3> QED
      BY <2>1, <3>1 DEF SendResult, RestTypeOK
  <2> QED
    BY <1>1, <2>1 DEF Agent, StartRun, Acknowledge, SendLine, Hang, pastVars
<1>2. ASSUME NEW y \in Execution, Request(y) PROVE outcome' = outcome
  BY <1>2 DEF Request, LoadExecution, InsertDryRun, FinishDryRun, Dispatch, RequestFails, Refused, Accepted, agentVars
<1>3. ASSUME NEW l \in 1..MaxLinks, Handler(l) PROVE outcome' = outcome
  BY <1>3 DEF Handler, ReadMessage, WriteLastRun, CopySubscribers, SendToPage, agentVars
<1>4. CASE VersionStep \/ PageStep \/ Connect \/ ConnectionLost \/ BackendDies \/ AgentDies
  BY <1>4 DEF VersionStep, PageStep, Connect, ConnectionLost, BackendDies, AgentDies, agentVars
<1> QED
  BY <1>1, <1>2, <1>3, <1>4 DEF Next, vars

\* Nobody who has begun to delete a runbook is as if he had not.
LEMMA RemoverStays ==
    ASSUME [Next]_vars, remover' = "idle"
    PROVE  remover = "idle" /\ (runbook = "live" => runbook' = "live")
  BY StepOfVersions DEF VersionsNext, CreateRunbook, InsertFirst, LoadRunbook, InsertVersion,
     InsertFails, SetLatest, DeleteVersions, DeleteExecutions, DeleteRunbook, RequestsDie,
     versionVars

\* A request begins with a runbook that is there.
LEMMA BeginsLive ==
    ASSUME RestTypeOK, [Next]_vars, NEW x \in Execution, call[x] = "idle", call'[x] # "idle"
    PROVE  runbook = "live" /\ runbook' = "live"
<1>1. ASSUME NEW y \in Execution, Request(y) PROVE LoadExecution(x)
  BY <1>1 DEF Request, LoadExecution, InsertDryRun, FinishDryRun, Dispatch, RequestFails, Refused,
     Accepted, RestTypeOK
<1>2. ASSUME NEW y \in Execution, Agent(y) PROVE FALSE
  BY <1>2 DEF Agent, StartRun, Acknowledge, SendLine, Hang, SendResult
<1>3. ASSUME NEW l \in 1..MaxLinks, Handler(l) PROVE FALSE
  <2>1. CASE ReadMessage(l)
    <3>1. PICK m \in Message : Begin(l, m)
      BY <2>1, ReadMail DEF ReadMessage
    <3> QED
      BY <3>1 DEF Begin, RestTypeOK, Message
  <2> QED
    BY <1>3, <2>1 DEF Handler, WriteLastRun, CopySubscribers, SendToPage
<1>4. ASSUME \/ VersionStep \/ PageStep \/ Connect \/ ConnectionLost \/ BackendDies \/ AgentDies
             \/ UNCHANGED vars
      PROVE  FALSE
  BY <1>4 DEF VersionStep, PageStep, Connect, ConnectionLost, BackendDies, AgentDies, vars
<1>5. LoadExecution(x)
  BY <1>1, <1>2, <1>3, <1>4 DEF Next
<1>6. runbook = "live" /\ UNCHANGED versionVars
  BY <1>5 DEF LoadExecution
<1> QED
  BY <1>6 DEF versionVars

\* What the steps do to the handlers: one of them begins with a message, writes, or goes on.
LEMMA HandlerMoves ==
    ASSUME RestTypeOK, RunsInv, NEW l \in 1..MaxLinks, Handler(l)
    PROVE  /\ \A n \in 1..MaxLinks : n # l => handler'[n] = handler[n]
           /\ handler'[l].stage = "last_run" =>
                 ReadMessage(l) /\ outcome[handler'[l].msg.of] = handler'[l].msg.kind
<1>0. handler[l] \in Handled /\ handler \in [1..MaxLinks -> Handled]
  BY DEF RestTypeOK
<1>1. CASE ReadMessage(l)
  <2>1. PICK m \in Message : Begin(l, m) /\ m.kind \in MailOf(m.of)
    BY <1>1, ReadMail DEF ReadMessage
  <2>2. m.of \in Execution /\ (m.kind \in Final => outcome[m.of] = m.kind)
    BY <2>1 DEF Message, RunsInv, RunInv
  <2>3. \/ handler' = [handler EXCEPT ![l] = Idle]
        \/ handler' = [handler EXCEPT ![l] = [stage |-> "copy", msg |-> m, to |-> {}]]
        \/ m.kind \in Final /\ handler' = [handler EXCEPT ![l] = [stage |-> "last_run", msg |-> m, to |-> {}]]
    BY <2>1 DEF Begin
  <2>4. CASE handler' = [handler EXCEPT ![l] = Idle]
    BY <1>0, <2>4, HandledFacts
  <2>5. CASE handler' = [handler EXCEPT ![l] = [stage |-> "copy", msg |-> m, to |-> {}]]
    BY <1>0, <2>5
  <2>6. CASE m.kind \in Final /\ handler' = [handler EXCEPT ![l] = [stage |-> "last_run", msg |-> m, to |-> {}]]
    <3>1. handler'[l] = [stage |-> "last_run", msg |-> m, to |-> {}]
      BY <1>0, <2>6
    <3>2. handler'[l].msg = m
      BY <3>1
    <3> QED
      BY <1>0, <1>1, <2>2, <2>6, <3>2
  <2> QED
    BY <2>3, <2>4, <2>5, <2>6
<1>2. CASE WriteLastRun(l)
  <2>1. handler[l].stage # "idle" /\ handler' = [handler EXCEPT ![l] = [handler[l] EXCEPT !.stage = "copy"]]
    BY <1>0, <1>2 DEF WriteLastRun
  <2> QED
    BY <1>0, <2>1, HandledNext
<1>3. CASE CopySubscribers(l)
  <2>1. handler[l].stage # "idle" /\ handler[l].msg.of \in Topic
    BY <1>0, <1>3, HandledFacts DEF CopySubscribers, Execution
  <2>2. PICK h \in {Idle, [handler[l] EXCEPT !.stage = "send", !.to = subs[handler[l].msg.of]]} :
           handler' = [handler EXCEPT ![l] = h]
    BY <1>0, <1>3 DEF CopySubscribers
  <2>3. h.stage \in {"idle", "send"}
    <3>1. [handler[l] EXCEPT !.stage = "send", !.to = subs[handler[l].msg.of]].stage = "send"
      BY <1>0, <2>1 DEF Handled
    <3> QED
      BY <2>2, <3>1, HandledFacts
  <2> QED
    BY <1>0, <2>2, <2>3
<1>4. CASE SendToPage(l)
  <2>1. handler[l].stage = "send" /\ handler[l].to \subseteq Site
    BY <1>0, <1>4, HandledFacts DEF SendToPage
  <2>2. PICK i \in handler[l].to : \/ handler' = [handler EXCEPT ![l] = Idle]
                                   \/ handler' = [handler EXCEPT ![l] = [handler[l] EXCEPT !.to = handler[l].to \ {i}]]
    BY <1>0, <1>4 DEF SendToPage
  <2>3. [handler[l] EXCEPT !.to = handler[l].to \ {i}].stage = "send"
    BY <1>0, <2>1, HandledFacts DEF Handled
  <2> QED
    BY <1>0, <2>2, <2>3, HandledFacts
<1> QED
  BY <1>1, <1>2, <1>3, <1>4 DEF Handler

LEMMA ShownNext == ASSUME RestTypeOK, RunsInv, ShownInv, [Next]_vars PROVE ShownInv'
<1>0. \A l \in 1..MaxLinks : handler[l].stage = "last_run" =>
         /\ handler[l].msg.of \in Execution /\ handler[l].msg.kind \in Final
         /\ outcome[handler[l].msg.of] = handler[l].msg.kind
  <2>1. \A l \in 1..MaxLinks : handler[l] \in Handled
    BY DEF RestTypeOK
  <2> QED
    BY <2>1, HandledFacts DEF RestTypeOK, ShownInv
<1>1. \A x \in Execution : outcome[x] # "none" => outcome'[x] = outcome[x]
  BY OutcomeKept
<1>2. ASSUME NEW x \in Execution, call'[x] = "accepted" PROVE kind'[x] # "none"
  <2>0. RunInv(x) /\ (call[x] = "accepted" => kind[x] # "none")
    BY DEF RunsInv, ShownInv
  <2>1. ASSUME NEW y \in Execution, Request(y) PROVE kind'[x] # "none"
    <3>1. CASE y # x
      <4>1. call'[x] = call[x] /\ kind'[x] = kind[x]
        BY <2>1, <3>1 DEF Request, LoadExecution, InsertDryRun, FinishDryRun, Dispatch, RequestFails, Refused,
           Accepted, RestTypeOK
      <4> QED
        BY <1>2, <2>0, <4>1
    <3>2. CASE y = x /\ LoadExecution(x)
      BY <1>2, <3>2 DEF LoadExecution, RestTypeOK
    <3>3. CASE y = x /\ ~LoadExecution(x)
      <4>1. kind'[x] = kind[x] /\ call[x] # "idle" /\ (call[x] \in {"loaded", "inserted"} => kind[x] # "none")
        BY <2>0, <2>1, <3>3 DEF Request, InsertDryRun, FinishDryRun, Dispatch, RequestFails, Refused, Accepted, RunInv
      <4>2. call'[x] = "accepted" => call[x] \in {"loaded", "inserted", "accepted"}
        BY <2>1, <3>3 DEF Request, InsertDryRun, FinishDryRun, Dispatch, RequestFails, Refused, Accepted, RestTypeOK
      <4> QED
        BY <1>2, <2>0, <4>1, <4>2
    <3> QED
      BY <3>1, <3>2, <3>3
  <2>2. ASSUME NEW y \in Execution, Agent(y) PROVE kind'[x] # "none"
    BY <1>2, <2>0, <2>2 DEF Agent, StartRun, Acknowledge, SendLine, Hang, SendResult
  <2>3. ASSUME NEW l \in 1..MaxLinks, Handler(l) PROVE kind'[x] # "none"
    <3>1. kind' = kind
      BY <2>3 DEF Handler, ReadMessage, WriteLastRun, CopySubscribers, SendToPage
    <3>2. CASE ReadMessage(l)
      <4>1. PICK m \in Message : Begin(l, m)
        BY <3>2, ReadMail DEF ReadMessage
      <4>2. call'[x] = "accepted" => call[x] \in {"waiting", "accepted"}
        BY <4>1 DEF Begin, RestTypeOK, Message
      <4> QED
        BY <1>2, <2>0, <3>1, <4>2 DEF RunInv
    <3>3. CASE ~ReadMessage(l)
      <4>1. call' = call
        BY <2>3, <3>3 DEF Handler, WriteLastRun, CopySubscribers, SendToPage
      <4> QED
        BY <1>2, <2>0, <3>1, <4>1
    <3> QED
      BY <3>2, <3>3
  <2>4. CASE BackendDies
    BY <1>2, <2>0, <2>4 DEF BackendDies
  <2>5. CASE VersionStep \/ PageStep \/ Connect \/ ConnectionLost \/ AgentDies \/ UNCHANGED vars
    BY <1>2, <2>0, <2>5 DEF VersionStep, PageStep, Connect, ConnectionLost, AgentDies, vars
  <2> QED
    BY <2>1, <2>2, <2>3, <2>4, <2>5 DEF Next
<1>3. ASSUME UNCHANGED <<handler, lastRun>> PROVE ShownInv'
  BY <1>0, <1>1, <1>2, <1>3 DEF ShownInv, Final
<1>4. ASSUME NEW l \in 1..MaxLinks, Handler(l) PROVE ShownInv'
  <2>0. outcome' = outcome
    BY <1>4 DEF Handler, ReadMessage, WriteLastRun, CopySubscribers, SendToPage, agentVars
  <2>1. \A n \in 1..MaxLinks : handler'[n].stage = "last_run" => outcome'[handler'[n].msg.of] = handler'[n].msg.kind
    BY <1>0, <1>4, <2>0, HandlerMoves
  <2>2. lastRun' = lastRun \/ (\E x \in Execution : outcome[x] = lastRun')
    <3>1. CASE WriteLastRun(l)
      BY <1>0, <3>1 DEF WriteLastRun, LastRunIs
    <3>2. CASE ~WriteLastRun(l)
      BY <1>4, <3>2 DEF Handler, ReadMessage, CopySubscribers, SendToPage
    <3> QED
      BY <3>1, <3>2
  <2> QED
    BY <1>2, <2>0, <2>1, <2>2 DEF ShownInv
<1>5. ASSUME NEW x \in Execution, Request(x) PROVE ShownInv'
  <2>1. UNCHANGED <<handler, outcome>> /\ (lastRun' = lastRun \/ lastRun' = "pending")
    BY <1>5 DEF Request, LoadExecution, InsertDryRun, FinishDryRun, Dispatch, RequestFails, Refused, Accepted,
       agentVars, LastRunIs
  <2> QED
    BY <1>2, <2>1 DEF ShownInv, Final
<1>6. CASE BackendDies
  <2>1. handler' = [l \in 1..MaxLinks |-> Idle] /\ UNCHANGED <<lastRun, outcome>>
    BY <1>6 DEF BackendDies
  <2> QED
    BY <1>2, <2>1, HandledFacts DEF ShownInv
<1>7. ASSUME NEW x \in Execution, Agent(x) PROVE UNCHANGED <<handler, lastRun>>
  BY <1>7 DEF Agent, StartRun, Acknowledge, SendLine, Hang, SendResult
<1>8. CASE VersionStep \/ PageStep \/ Connect \/ ConnectionLost \/ AgentDies \/ UNCHANGED vars
  BY <1>3, <1>8 DEF VersionStep, PageStep, Connect, ConnectionLost, AgentDies, vars
<1> QED
  BY <1>3, <1>4, <1>5, <1>6, <1>7, <1>8 DEF Next

LEMMA RowNext == ASSUME RestTypeOK, RowInv, [Next]_vars PROVE RowInv'
<1> SUFFICES ASSUME remover' = "idle"
             PROVE  \A x \in Execution :
                       /\ call'[x] # "idle" => runbook' = "live"
                       /\ status'[x] = "none" => call'[x] \in {"idle", "loaded", "died"}
  BY DEF RowInv
<1>1. remover = "idle" /\ (runbook = "live" => runbook' = "live")
  BY RemoverStays
<1>3. ASSUME NEW x \in Execution, call'[x] # "idle" PROVE runbook' = "live"
  <2>1. CASE call[x] = "idle"
    BY <1>3, <2>1, BeginsLive
  <2>2. CASE call[x] # "idle"
    BY <1>1, <2>2 DEF RowInv
  <2> QED
    BY <2>1, <2>2
<1>2. ASSUME NEW x \in Execution, status'[x] = "none" PROVE call'[x] \in {"idle", "loaded", "died"}
  <2>0. status[x] = "none" => call[x] \in {"idle", "loaded", "died"}
    BY <1>1 DEF RowInv
  <2>1. ASSUME NEW y \in Execution, Request(y) PROVE call'[x] \in {"idle", "loaded", "died"}
    <3>1. CASE y # x
      <4>1. call'[x] = call[x] /\ status'[x] = status[x]
        BY <2>1, <3>1 DEF Request, LoadExecution, InsertDryRun, FinishDryRun, Dispatch, RequestFails, Refused,
           Accepted, Written, RestTypeOK
      <4> QED
        BY <1>2, <2>0, <4>1
    <3>2. CASE y = x
      <4>1. CASE LoadExecution(x)
        BY <4>1 DEF LoadExecution, RestTypeOK
      <4>2. CASE InsertDryRun(x) \/ Dispatch(x)
        BY <1>2, <4>2 DEF InsertDryRun, Dispatch, RestTypeOK
      <4>4. CASE FinishDryRun(x)
        BY <1>2, <2>0, <4>4 DEF FinishDryRun, Written, RestTypeOK
      <4>3. CASE RequestFails(x) \/ Accepted(x) \/ Refused(x)
        BY <1>2, <2>0, <4>3 DEF RequestFails, Accepted, Refused, Written, RestTypeOK
      <4> QED
        BY <2>1, <3>2, <4>1, <4>2, <4>3, <4>4 DEF Request
    <3> QED
      BY <3>1, <3>2
  <2>2. ASSUME NEW y \in Execution, Agent(y) PROVE UNCHANGED <<status, call>>
    BY <2>2 DEF Agent, StartRun, Acknowledge, SendLine, Hang, SendResult
  <2>3. ASSUME NEW l \in 1..MaxLinks, Handler(l) PROVE call'[x] \in {"idle", "loaded", "died"}
    <3>1. CASE ReadMessage(l)
      <4>1. PICK m \in Message : Begin(l, m)
        BY <3>1, ReadMail DEF ReadMessage
      <4>2. status[x] = "none" /\ (call'[x] = call[x] \/ call[x] = "waiting")
        BY <1>2, <4>1 DEF Begin, Written, RestTypeOK, Message, Final
      <4> QED
        BY <2>0, <4>2
    <3>2. CASE ~ReadMessage(l)
      BY <1>2, <2>0, <2>3, <3>2 DEF Handler, WriteLastRun, CopySubscribers, SendToPage
    <3> QED
      BY <3>1, <3>2
  <2>4. CASE VersionStep
    <3>1. UNCHANGED <<status, call>>
      BY <2>4 DEF VersionStep
    <3> QED
      BY <1>2, <2>0, <3>1
  <2>5. CASE BackendDies
    BY <1>2, <2>0, <2>5 DEF BackendDies
  <2>6. CASE PageStep \/ Connect \/ ConnectionLost \/ AgentDies \/ UNCHANGED vars
    BY <1>2, <2>0, <2>6 DEF PageStep, Connect, ConnectionLost, AgentDies, vars
  <2> QED
    BY <1>2, <2>0, <2>1, <2>2, <2>3, <2>4, <2>5, <2>6 DEF Next
<1> QED
  BY <1>2, <1>3

\* What is owed stays owed, is lost, or is shown; only a row that is gone gets nothing.
LEMMA OwedStays ==
    ASSUME RestTypeOK, RunsInv, [Next]_vars, NEW x \in Execution, Owed(x), status[x] # "none"
    PROVE  \/ Owed(x)'
           \/ /\ call[x] \notin {"waiting", "accepted"}
              /\ \E l \in 1..MaxLinks : WriteLastRun(l) /\ handler[l].msg.kind \in Final
<1>0. RunInv(x) /\ handler \in [1..MaxLinks -> Handled]
  BY DEF RunsInv, RestTypeOK
<1>1. ASSUME UNCHANGED <<inbox, handler, early, lost, run>> PROVE Owed(x)'
  BY <1>1, MailStays DEF Owed
<1>2. ASSUME NEW y \in Execution, Request(y) PROVE Owed(x)'
  <2>1. UNCHANGED <<inbox, handler, early, lost>>
    BY <1>2 DEF Request, LoadExecution, InsertDryRun, FinishDryRun, Dispatch, RequestFails, Refused, Accepted,
       netVars, pastVars
  <2>2. MailOf(x)' = MailOf(x)
    BY <2>1, MailStays
  <2>3. run[x] \in {"running", "hung", "killed"} => run'[x] = run[x]
    <3>1. CASE Dispatch(y)
      <4>1. run[x] \in {"running", "hung", "killed"} => y # x
        BY <1>0, <3>1 DEF Dispatch, RunInv
      <4> QED
        BY <3>1, <4>1 DEF Dispatch, RestTypeOK
    <3>2. CASE ~Dispatch(y)
      BY <1>2, <3>2 DEF Request, LoadExecution, InsertDryRun, FinishDryRun, RequestFails, Refused, Accepted, agentVars
    <3> QED
      BY <3>1, <3>2
  <2> QED
    BY <2>1, <2>2, <2>3 DEF Owed
<1>3. ASSUME NEW y \in Execution, Agent(y) PROVE Owed(x)'
  <2>1. UNCHANGED <<handler, early>> /\ lost \subseteq lost'
    BY <1>3 DEF Agent, StartRun, Acknowledge, SendLine, Hang, SendResult, pastVars
  <2>2. MailOf(x) \subseteq MailOf(x)'
    <3>1. CASE StartRun(y)
      BY <3>1, MailStays DEF StartRun, netVars
    <3>2. CASE Acknowledge(y)
      <4>1. Sends(y, "ack") \/ UNCHANGED inbox
        BY <3>2 DEF Acknowledge
      <4> QED
        BY <4>1, MailStays, SendsMail
    <3>3. CASE SendLine(y)
      BY <3>3, SendsMail DEF SendLine
    <3>5. CASE Hang(y)
      BY <3>5, MailStays DEF Hang, netVars
    <3>4. CASE SendResult(y)
      <4>1. PICK k \in Final : Sends(y, k)
        BY <3>4 DEF SendResult, Final
      <4> QED
        BY <4>1, SendsMail
    <3> QED
      BY <1>3, <3>1, <3>2, <3>3, <3>4, <3>5 DEF Agent
  <2>3. CASE run'[x] = run[x] \/ run'[x] = "hung"
    BY <2>1, <2>2, <2>3 DEF Owed
  <2>4. CASE run'[x] # run[x] /\ run'[x] # "hung" /\ run[x] \in {"running", "hung", "killed"}
    <3>0. run'[x] \notin {run[x], "hung"} /\ run[x] \in {"running", "hung", "killed"}
      BY <2>4
    <3>1. y = x /\ SendResult(x)
      <4>1. ~StartRun(y)
        BY <3>0 DEF StartRun, RestTypeOK
      <4>2. ~Acknowledge(y) /\ ~SendLine(y)
        BY <3>0 DEF Acknowledge, SendLine
      <4>3. ~Hang(y)
        BY <3>0 DEF Hang, RestTypeOK
      <4>4. SendResult(y)
        BY <1>3, <4>1, <4>2, <4>3 DEF Agent
      <4> QED
        BY <3>0, <4>4 DEF SendResult, RestTypeOK
    <3>2. PICK k \in Final : Sends(x, k)
      BY <3>1 DEF SendResult, Final
    <3>3. (wire => k \in MailOf(x)') /\ (~wire => x \in lost')
      <4>1. MailOf(x)' = IF wire THEN MailOf(x) \cup {k} ELSE MailOf(x)
        BY <3>2, SendsMail
      <4>2. lost' = IF wire THEN lost ELSE lost \cup {x}
        BY <3>1 DEF SendResult
      <4> QED
        BY <4>1, <4>2
    <3> QED
      BY <3>2, <3>3 DEF Owed
  <2>5. CASE run[x] \notin {"running", "hung", "killed"}
    BY <2>1, <2>2, <2>5 DEF Owed
  <2> QED
    BY <2>3, <2>4, <2>5
<1>4. ASSUME NEW l \in 1..MaxLinks, ReadMessage(l) PROVE Owed(x)'
  <2>0. /\ inbox[l] # <<>> /\ inbox' = [inbox EXCEPT ![l] = Tail(@)] /\ Begin(l, Head(inbox[l]))
        /\ UNCHANGED <<run, lost, early>> /\ handler[l] = Idle
    BY <1>4 DEF ReadMessage, agentVars, pastVars
  <2>1. PICK m \in Message :
          /\ Begin(l, m)
          /\ \A y \in Execution : /\ y # m.of => MailOf(y)' = MailOf(y)
                                  /\ MailOf(y) \subseteq MailOf(y)' \cup {m.kind}
    BY <2>0, ReadMail
  <2>2. \A n \in 1..MaxLinks : handler[n].stage = "last_run" => handler'[n] = handler[n]
    BY <1>0, <2>0, <2>1, HandledFacts DEF Begin
  <2>3. CASE m.of = x /\ m.kind \in Final
    <3>1. handler' = [handler EXCEPT ![l] = [stage |-> "last_run", msg |-> m, to |-> {}]]
      BY <2>1, <2>3 DEF Begin, Final
    <3>2. handler'[l].stage = "last_run" /\ handler'[l].msg.of = x
      BY <1>0, <2>3, <3>1
    <3> QED
      BY <3>2 DEF Owed
  <2>4. CASE ~(m.of = x /\ m.kind \in Final)
    <3>1. MailOf(x) \cap Final \subseteq MailOf(x)'
      BY <2>1, <2>4
    <3> QED
      BY <2>0, <2>2, <3>1 DEF Owed
  <2> QED
    BY <2>3, <2>4
<1>5. ASSUME NEW l \in 1..MaxLinks, WriteLastRun(l)
      PROVE  \/ Owed(x)'
             \/ call[x] \notin {"waiting", "accepted"} /\ handler[l].msg.kind \in Final
  <2>1. /\ UNCHANGED <<inbox, run, lost>> /\ early \subseteq early'
        /\ call[handler[l].msg.of] \in {"waiting", "accepted"} => handler[l].msg.of \in early'
    BY <1>5 DEF WriteLastRun, agentVars, netVars
  <2>2. MailOf(x)' = MailOf(x)
    BY <2>1, MailStays
  <2>3. \A n \in 1..MaxLinks : n # l => handler'[n] = handler[n]
    BY <1>5, HandlerMoves DEF Handler
  <2>4. handler[l].msg.kind \in Final
    BY <1>5 DEF WriteLastRun, RestTypeOK
  <2>5. CASE handler[l].msg.of = x
    BY <2>1, <2>4, <2>5 DEF Owed
  <2>6. CASE handler[l].msg.of # x
    BY <2>1, <2>2, <2>3, <2>6 DEF Owed
  <2> QED
    BY <2>5, <2>6
<1>6. ASSUME NEW l \in 1..MaxLinks, CopySubscribers(l) \/ SendToPage(l) PROVE Owed(x)'
  <2>1. UNCHANGED <<inbox, run, lost, early>> /\ handler[l].stage # "last_run"
    BY <1>6 DEF CopySubscribers, SendToPage, agentVars, netVars, pastVars
  <2>2. MailOf(x)' = MailOf(x)
    BY <2>1, MailStays
  <2>3. \A n \in 1..MaxLinks : n # l => handler'[n] = handler[n]
    BY <1>6, HandlerMoves DEF Handler
  <2> QED
    BY <2>1, <2>2, <2>3 DEF Owed
<1>7. CASE ConnectionLost
  <2>1. UNCHANGED <<handler, early>> /\ CommandsLost
    BY <1>7 DEF ConnectionLost
  <2>2. run'[x] = run[x] \/ run[x] = "sent"
    BY <2>1, CommandsRuns
  <2>3. lost \subseteq lost' /\ \A k \in MailOf(x) \cap Final : k \in MailOf(x)' \/ x \in lost'
    BY <1>7, LoseMail
  <2> QED
    BY <2>1, <2>2, <2>3 DEF Owed
<1>8. CASE BackendDies
  <2>1. UNCHANGED early /\ CommandsLost
        /\ {handler[l].msg.of : l \in {k \in 1..MaxLinks : handler[k].stage = "last_run"}} \subseteq lost'
    BY <1>8 DEF BackendDies
  <2>2. run'[x] = run[x] \/ run[x] = "sent"
    BY <2>1, CommandsRuns
  <2>3. lost \subseteq lost' /\ (MailOf(x) \cap Final # {} => x \in lost')
    BY <1>8, DieMail
  <2>4. (\E l \in 1..MaxLinks : handler[l].stage = "last_run" /\ handler[l].msg.of = x) => x \in lost'
    BY <2>1
  <2> QED
    BY <2>1, <2>2, <2>3, <2>4 DEF Owed
<1>9. CASE AgentDies
  <2>1. UNCHANGED <<inbox, handler, early, lost>>
        /\ (run[x] \in {"running", "hung", "killed"} => run'[x] = "killed")
    BY <1>9 DEF AgentDies, RestTypeOK
  <2>2. MailOf(x)' = MailOf(x)
    BY <2>1, MailStays
  <2> QED
    BY <2>1, <2>2 DEF Owed
<1>10. CASE VersionStep \/ PageStep \/ Connect \/ UNCHANGED vars
  BY <1>1, <1>10 DEF VersionStep, PageStep, Connect, vars, agentVars, netVars, pastVars
<1> QED
  BY <1>2, <1>3, <1>4, <1>5, <1>6, <1>7, <1>8, <1>9, <1>10 DEF Next, Handler

\* A run whose request waits, or has just been told, was there to wait before.
LEMMA WaitsBefore ==
    ASSUME RestTypeOK, RunsInv, [Next]_vars, NEW x \in Execution,
           call'[x] \in {"waiting", "accepted"}, kind'[x] = "run", run'[x] = "told"
    PROVE  /\ call[x] \in {"waiting", "accepted"} /\ kind[x] = "run"
           /\ run[x] \in {"running", "hung", "told"}
<1>0. RunInv(x)
  BY DEF RunsInv
<1>1. ASSUME NEW y \in Execution, Request(y)
      PROVE  call[x] \in {"waiting", "accepted"} /\ kind[x] = "run" /\ run[x] = "told"
  <2>1. CASE y # x
    <3>1. call'[x] = call[x] /\ kind'[x] = kind[x] /\ run'[x] = run[x]
      <4>1. CASE Dispatch(y)
        BY <2>1, <4>1 DEF Dispatch, RestTypeOK
      <4>2. CASE ~Dispatch(y)
        BY <1>1, <2>1, <4>2 DEF Request, LoadExecution, InsertDryRun, FinishDryRun, RequestFails, Refused,
           Accepted, RestTypeOK, agentVars
      <4> QED
        BY <4>1, <4>2
    <3> QED
      BY <3>1
  <2>2. CASE y = x
    <3>1. ~LoadExecution(x) /\ ~RequestFails(x) /\ ~Refused(x) /\ ~Accepted(x)
      BY DEF LoadExecution, RequestFails, Refused, Accepted, RestTypeOK
    <3>2. ~InsertDryRun(x) /\ ~FinishDryRun(x)
      BY <1>0 DEF InsertDryRun, FinishDryRun, RunInv, RestTypeOK
    <3>3. CASE Dispatch(x)
      <4>1. run[x] = "none"
        BY <1>0, <3>3 DEF Dispatch, RunInv
      <4> QED
        BY <3>3, <4>1 DEF Dispatch, RestTypeOK
    <3> QED
      BY <1>1, <2>2, <3>1, <3>2, <3>3 DEF Request
  <2> QED
    BY <2>1, <2>2
<1>2. ASSUME NEW y \in Execution, Agent(y)
      PROVE  UNCHANGED <<call, kind>> /\ run[x] \in {"running", "hung", "told"}
  BY <1>2 DEF Agent, StartRun, Acknowledge, SendLine, Hang, SendResult, RestTypeOK
<1>3. ASSUME NEW l \in 1..MaxLinks, Handler(l)
      PROVE  UNCHANGED <<kind, run>> /\ call[x] \in {"waiting", "accepted"}
  <2>1. UNCHANGED <<kind, run>>
    BY <1>3 DEF Handler, ReadMessage, WriteLastRun, CopySubscribers, SendToPage, agentVars
  <2>2. CASE ReadMessage(l)
    <3>1. PICK m \in Message : Begin(l, m)
      BY <2>2, ReadMail DEF ReadMessage
    <3> QED
      BY <2>1, <3>1 DEF Begin, RestTypeOK, Message
  <2>3. CASE ~ReadMessage(l)
    BY <1>3, <2>1, <2>3 DEF Handler, WriteLastRun, CopySubscribers, SendToPage
  <2> QED
    BY <2>1, <2>2, <2>3
<1>4. CASE BackendDies
  BY <1>4, CommandsRuns DEF BackendDies
<1>5. CASE ConnectionLost
  BY <1>5, CommandsRuns DEF ConnectionLost
<1>6. CASE AgentDies
  BY <1>6 DEF AgentDies, RestTypeOK
<1>7. CASE VersionStep \/ PageStep \/ Connect \/ UNCHANGED vars
  BY <1>7 DEF VersionStep, PageStep, Connect, vars, agentVars
<1> QED
  BY <1>1, <1>2, <1>3, <1>4, <1>5, <1>6, <1>7 DEF Next

\* A request that is over stays so.
LEMMA DoneStays ==
    ASSUME RestTypeOK, [Next]_vars, NEW x \in Execution, call[x] = "done"
    PROVE  call'[x] = "done" /\ kind'[x] = kind[x]
<1>1. ASSUME NEW y \in Execution, Request(y) PROVE call'[x] = "done" /\ kind'[x] = kind[x]
  BY <1>1 DEF Request, LoadExecution, InsertDryRun, FinishDryRun, Dispatch, RequestFails, Refused, Accepted, RestTypeOK
<1>2. ASSUME NEW y \in Execution, Agent(y) PROVE UNCHANGED <<call, kind>>
  BY <1>2 DEF Agent, StartRun, Acknowledge, SendLine, Hang, SendResult
<1>3. ASSUME NEW l \in 1..MaxLinks, Handler(l) PROVE call'[x] = "done" /\ kind'[x] = kind[x]
  <2>1. CASE ReadMessage(l)
    <3>1. PICK m \in Message : Begin(l, m)
      BY <2>1, ReadMail DEF ReadMessage
    <3> QED
      BY <2>1, <3>1 DEF Begin, ReadMessage, RestTypeOK
  <2> QED
    BY <1>3, <2>1 DEF Handler, WriteLastRun, CopySubscribers, SendToPage
<1>4. CASE VersionStep \/ PageStep \/ Connect \/ ConnectionLost \/ BackendDies \/ AgentDies \/ UNCHANGED vars
  BY <1>4 DEF VersionStep, PageStep, Connect, ConnectionLost, BackendDies, AgentDies, vars
<1> QED
  BY <1>1, <1>2, <1>3, <1>4 DEF Next

\* Only a request that was accepted makes last_run_status pending.
LEMMA PendingBegins ==
    ASSUME [Next]_vars, RestTypeOK, lastRun # "pending", lastRun' = "pending"
    PROVE  \E x \in Execution : Accepted(x) /\ kind[x] # "rollback"
<1>1. ASSUME NEW y \in Execution, Request(y)
      PROVE \E x \in Execution : Accepted(x) /\ kind[x] # "rollback"
  BY <1>1 DEF Request, LoadExecution, InsertDryRun, FinishDryRun, Dispatch, RequestFails, Refused, Accepted
<1>2. ASSUME NEW y \in Execution, Agent(y) PROVE UNCHANGED lastRun
  BY <1>2 DEF Agent, StartRun, Acknowledge, SendLine, Hang, SendResult
<1>3. ASSUME NEW l \in 1..MaxLinks, Handler(l) PROVE lastRun' # "pending"
  <2>1. CASE WriteLastRun(l)
    BY <2>1 DEF WriteLastRun, LastRunIs, RestTypeOK, Final
  <2> QED
    BY <1>3, <2>1 DEF Handler, ReadMessage, CopySubscribers, SendToPage
<1>4. CASE VersionStep \/ PageStep \/ Connect \/ ConnectionLost \/ BackendDies \/ AgentDies \/ UNCHANGED vars
  BY <1>4 DEF VersionStep, PageStep, Connect, ConnectionLost, BackendDies, AgentDies, vars
<1> QED
  BY <1>1, <1>2, <1>3, <1>4 DEF Next

LEMMA OwedNext == ASSUME RestTypeOK, RunsInv, LastInv, [Next]_vars PROVE OwedInv'
<1> SUFFICES ASSUME remover' = "idle"
             PROVE  /\ \A x \in Execution :
                          call'[x] \in {"waiting", "accepted"} /\ kind'[x] = "run" /\ run'[x] = "told" => Owed(x)'
                    /\ lastRun' = "pending" =>
                          \E x \in Execution :
                             call'[x] = "done" /\ (kind'[x] = "dry" \/ (kind'[x] = "run" /\ Owed(x)'))
  BY DEF OwedInv
<1>1. remover = "idle"
  BY RemoverStays
<1>2. /\ \A x \in Execution : status[x] = "none" => call[x] \in {"idle", "loaded", "died"}
      /\ \A x \in Execution :
            call[x] \in {"waiting", "accepted"} /\ kind[x] = "run" /\ run[x] \in {"running", "hung", "told"} => Owed(x)
      /\ lastRun = "pending" =>
            \E x \in Execution : call[x] = "done" /\ (kind[x] = "dry" \/ (kind[x] = "run" /\ Owed(x)))
  BY <1>1 DEF LastInv, RowInv, OwedInv, Owed
<1>3. ASSUME NEW x \in Execution, call'[x] \in {"waiting", "accepted"}, kind'[x] = "run", run'[x] = "told"
      PROVE  Owed(x)'
  <2>1. call[x] \in {"waiting", "accepted"} /\ kind[x] = "run" /\ run[x] \in {"running", "hung", "told"}
    BY <1>3, WaitsBefore
  <2>2. Owed(x) /\ status[x] # "none"
    BY <1>2, <2>1
  <2> QED
    BY <2>1, <2>2, OwedStays
<1>4. ASSUME NEW x \in Execution, call[x] = "done", kind[x] = "run", Owed(x), lastRun' = "pending"
      PROVE  Owed(x)'
  <2>1. status[x] # "none"
    BY <1>2, <1>4
  <2>3. runbook = "live"
    BY <1>1, <1>4 DEF LastInv, RowInv
  <2>2. \A l \in 1..MaxLinks : WriteLastRun(l) => handler[l].msg.kind \notin Final
    BY <1>4, <2>3 DEF WriteLastRun, LastRunIs, Final
  <2> QED
    BY <1>4, <2>1, <2>2, OwedStays
<1>5. ASSUME lastRun' = "pending"
      PROVE  \E x \in Execution : call'[x] = "done" /\ (kind'[x] = "dry" \/ (kind'[x] = "run" /\ Owed(x)'))
  <2>1. CASE lastRun = "pending"
    <3>1. PICK x \in Execution : call[x] = "done" /\ (kind[x] = "dry" \/ (kind[x] = "run" /\ Owed(x)))
      BY <1>2, <2>1
    <3>2. call'[x] = "done" /\ kind'[x] = kind[x]
      BY <3>1, DoneStays
    <3> QED
      BY <1>4, <1>5, <3>1, <3>2
  <2>2. CASE lastRun # "pending"
    <3>1. PICK x \in Execution : Accepted(x) /\ kind[x] # "rollback"
      BY <1>5, <2>2, PendingBegins
    <3>2. /\ call[x] = "accepted" /\ call'[x] = "done" /\ kind'[x] = kind[x] /\ status[x] # "none"
          /\ kind[x] \in {"dry", "run"}
      BY <1>2, <3>1 DEF Accepted, RestTypeOK, LastInv, ShownInv
    <3>3. ASSUME kind[x] = "run" PROVE Owed(x)'
      <4>1. run[x] \in {"running", "hung", "told", "killed"}
        <5>1. RunInv(x) /\ status[x] \in {"pending"} \cup Final
          BY <3>2 DEF RunsInv, RestTypeOK
        <5> QED
          BY <3>2, <3>3, <5>1 DEF RunInv, Honest, Final
      <4>2. Owed(x)
        BY <1>2, <3>2, <3>3, <4>1 DEF Owed
      <4>3. UNCHANGED <<inbox, handler, early, lost, run>>
        BY <3>1 DEF Accepted, netVars, pastVars, agentVars
      <4> QED
        BY <4>2, <4>3, MailStays DEF Owed
    <3> QED
      BY <3>2, <3>3
  <2> QED
    BY <2>1, <2>2
<1> QED
  BY <1>3, <1>5

LEMMA InitLast == Init => LastInv
<1> SUFFICES ASSUME Init PROVE LastInv
  OBVIOUS
<1>1. /\ lastRun = "" /\ \A x \in Execution : call[x] = "idle"
      /\ \A l \in 1..MaxLinks : handler[l].stage = "idle"
  BY HandledFacts DEF Init
<1> QED
  BY <1>1 DEF LastInv, ShownInv, RowInv, OwedInv, Final

\* When nothing is under way, the runbook shows the result of one of its runs, or why it shows none:
\* for any number of executions, connections and crashes (runbook_handlers.go:471, 689).
THEOREM LastRunCorrect == Spec => []LastRunExplained
<1>1. RestTypeOK /\ RunsInv /\ LastInv /\ [Next]_vars => LastInv'
  BY ShownNext, RowNext, OwedNext DEF LastInv
<1>2. ASSUME RestTypeOK, RunsInv, LastInv PROVE LastRunExplained
  <2> SUFFICES ASSUME Quiet
               PROVE  /\ lastRun \in Final => \E x \in Execution : outcome[x] = lastRun /\ call[x] # "idle"
                      /\ lastRun = "pending" =>
                            \E x \in Execution :
                               /\ call[x] = "done"
                               /\ \/ kind[x] = "dry" \/ x \in early \/ x \in lost \/ run[x] = "killed"
    BY DEF LastRunExplained
  <2>1. ASSUME lastRun \in Final PROVE \E x \in Execution : outcome[x] = lastRun /\ call[x] # "idle"
    <3>1. PICK x \in Execution : outcome[x] = lastRun
      BY <1>2, <2>1 DEF LastInv, ShownInv
    <3>2. RunInv(x) /\ outcome[x] # "none"
      BY <1>2, <2>1, <3>1 DEF RunsInv, Final
    <3> QED
      BY <3>1, <3>2 DEF RunInv
  <2>2. ASSUME NEW x \in Execution, Owed(x) PROVE x \in early \/ x \in lost \/ run[x] = "killed"
    <3>1. \A l \in 1..MaxLinks : Len(inbox[l]) = 0 /\ handler[l].stage = "idle"
      BY HandledFacts DEF Quiet
    <3>2. MailOf(x) = {} /\ run[x] \notin {"running", "hung"}
      BY <3>1 DEF MailOf, Holds, Quiet
    <3> QED
      BY <2>2, <3>1, <3>2 DEF Owed
  <2> QED
    BY <1>2, <2>1, <2>2 DEF LastInv, OwedInv, Quiet
<1> QED
  BY <1>1, <1>2, InitLast, RunsAlways, PTL DEF Spec

-----------------------------------------------------------------------------
(* What a page is told *)

Kind == {"ack", "line"} \cup Final

Msg(x, k) == [kind |-> k, of |-> x]

\* A message of kind k about x is on its way over connection l, or with its handler.
Mail(l, x, k) == Holds(inbox[l], Msg(x, k))
At(l, x, k)   == handler[l].stage # "idle" /\ handler[l].msg = Msg(x, k)

\* No line of x is sent after a result of x.
InOrder(q, x) ==
    \A m, n \in 1..Len(q) : m < n /\ q[m].of = x /\ q[m].kind \in Final => q[n] # Msg(x, "line")

\* Everything about x comes over the connection of its command, unless it is crossed.
Routed(x) ==
    \A l \in 1..MaxLinks : \A k \in Kind : Mail(l, x, k) \/ At(l, x, k) =>
        /\ run[x] \in {"running", "hung", "told", "killed"}
        /\ x \notin crossed => l = via[x]
        /\ k \in Final => run[x] = "told"

\* A handler does not work at an acknowledgement; it is at a result after all lines before it.
Ordered(x) ==
    \A l \in 1..MaxLinks :
        /\ ~At(l, x, "ack")
        /\ x \notin crossed => /\ InOrder(inbox[l], x)
                               /\ \A k \in Final : At(l, x, k) => ~Mail(l, x, "line")

\* Where a page has the result of x there is no line any more.
ToldLast(x) ==
    \A i \in Site :
        /\ told[i][x] \in {"result", "late line"} =>
              /\ run[x] = "told"
              /\ x \notin crossed =>
                    \A l \in 1..MaxLinks : ~Mail(l, x, "line") /\ ~At(l, x, "line")
        /\ told[i][x] = "late line" => x \in crossed

LinesOf(x) == Routed(x) /\ Ordered(x) /\ ToldLast(x)
LinesInv == \A x \in Execution : LinesOf(x)

LEMMA MessageFacts ==
    /\ \A m \in Message : m.of \in Execution /\ m.kind \in Kind /\ m = Msg(m.of, m.kind)
    /\ \A x \in Execution : \A k \in Kind :
          Msg(x, k) \in Message /\ Msg(x, k).of = x /\ Msg(x, k).kind = k
    /\ "ack" \notin Final /\ "line" \notin Final /\ Final \subseteq Kind
  BY DEF Message, Kind, Msg, Final

\* An execution about which nothing comes that was not on its way already.
LEMMA LinesStay ==
    ASSUME NEW x \in Execution, LinesOf(x),
           \A l \in 1..MaxLinks : \A k \in Kind :
              (Mail(l, x, k)' => Mail(l, x, k)) /\ (At(l, x, k)' => At(l, x, k)),
           \A l \in 1..MaxLinks : InOrder(inbox[l], x) => InOrder(inbox'[l], x),
           \A i \in Site : told'[i][x] = told[i][x],
           run[x] \in {"running", "hung", "told", "killed"} =>
              run'[x] \in {"running", "hung", "told", "killed"} /\ via'[x] = via[x],
           run[x] = "told" => run'[x] = "told",
           crossed \subseteq crossed'
    PROVE  LinesOf(x)'
<1>1. Routed(x)'
  BY DEF LinesOf, Routed
<1>2. Ordered(x)'
  BY MessageFacts DEF LinesOf, Ordered, Kind
<1>3. ToldLast(x)'
  BY MessageFacts DEF LinesOf, ToldLast, Kind
<1> QED
  BY <1>1, <1>2, <1>3 DEF LinesOf

\* A part of a sequence holds what the sequence holds, in its order.
LEMMA PartOf ==
    ASSUME NEW q \in Seq(Message), NEW a \in 1..(Len(q) + 1), NEW b \in 0..Len(q), NEW x
    PROVE  /\ \A w : Holds(SubSeq(q, a, b), w) => Holds(q, w)
           /\ InOrder(q, x) => InOrder(SubSeq(q, a, b), x)
<1> DEFINE p == SubSeq(q, a, b)
<1>1. /\ Len(q) \in Nat /\ a \in Nat /\ b \in Int /\ 1 <= a /\ b <= Len(q)
      /\ Len(p) = IF a <= b THEN b - a + 1 ELSE 0
      /\ \A n \in 1..Len(p) : p[n] = q[a + n - 1]
  BY SubSeqProperties
<1> HIDE DEF p
<1>2. \A n \in 1..Len(p) : a + n - 1 \in 1..Len(q) /\ p[n] = q[a + n - 1]
  BY <1>1, SMTT(30)
<1>3. \A w : Holds(p, w) => Holds(q, w)
  BY <1>2 DEF Holds
<1>4. ASSUME InOrder(q, x) PROVE InOrder(p, x)
  <2> SUFFICES ASSUME NEW m \in 1..Len(p), NEW n \in 1..Len(p), m < n, p[m].of = x, p[m].kind \in Final
               PROVE  p[n] # Msg(x, "line")
    BY DEF InOrder
  <2>1. /\ a + m - 1 \in 1..Len(q) /\ a + n - 1 \in 1..Len(q)
        /\ p[m] = q[a + m - 1] /\ p[n] = q[a + n - 1] /\ a + m - 1 < a + n - 1
    BY <1>1, <1>2
  <2> HIDE DEF Msg
  <2> QED
    BY <1>4, <2>1 DEF InOrder
<1> QED
  BY <1>3, <1>4 DEF p

\* What is sent is last where it is sent, and crosses if that is not the connection of the command.
LEMMA SendsLast ==
    ASSUME RestTypeOK, NEW y \in Execution, NEW j \in Kind, Sends(y, j)
    PROVE  /\ \A x \in Execution, k \in Kind, l \in 1..MaxLinks :
                 Mail(l, x, k)' => Mail(l, x, k) \/ (x = y /\ k = j /\ (y \in crossed' \/ l = via[y]))
           /\ \A x \in Execution, l \in 1..MaxLinks :
                 InOrder(inbox[l], x) /\ (x # y \/ j # "line" \/ \A k \in Final : ~Mail(l, x, k))
                    => InOrder(inbox'[l], x)
           /\ crossed \subseteq crossed'
<1>1. CASE ~wire
  BY <1>1 DEF Sends, Mail
<1>2. CASE wire
  <2> DEFINE m == Msg(y, j)
             q == inbox[link]
             p == inbox'[link]
  <2>1. /\ link \in 1..MaxLinks /\ m \in Message
        /\ inbox' = [inbox EXCEPT ![link] = Append(inbox[link], m)]
        /\ inbox \in [1..MaxLinks -> Seq(Message)]
    BY <1>2, SendsFacts DEF RestTypeOK, Kind, Msg
  <2>2. /\ q \in Seq(Message) /\ Len(q) \in Nat /\ p = Append(q, m)
        /\ \A l \in 1..MaxLinks : l # link => inbox'[l] = inbox[l]
    BY <2>1
  <2>3. /\ Len(p) = Len(q) + 1 /\ p[Len(q) + 1] = m
        /\ \A n \in 1..Len(q) : p[n] = q[n]
        /\ 1..Len(p) = 1..Len(q) \cup {Len(q) + 1}
    BY <2>1, <2>2, AppendProperties
  <2>4. crossed \subseteq crossed' /\ (link # via[y] => y \in crossed')
    BY <1>2 DEF Sends
  <2>5. ASSUME NEW x \in Execution, NEW k \in Kind, NEW l \in 1..MaxLinks, Mail(l, x, k)'
        PROVE  Mail(l, x, k) \/ (x = y /\ k = j /\ (y \in crossed' \/ l = via[y]))
    <3>1. CASE l # link
      BY <2>2, <2>5, <3>1 DEF Mail
    <3>2. CASE l = link
      <4>1. PICK n \in 1..Len(p) : p[n] = Msg(x, k)
        BY <2>5, <3>2 DEF Mail, Holds
      <4>2. CASE n \in 1..Len(q)
        BY <2>3, <3>2, <4>1, <4>2 DEF Mail, Holds
      <4>3. CASE n = Len(q) + 1
        <5>1. Msg(x, k) = Msg(y, j)
          BY <2>3, <4>1, <4>3
        <5>2. x = y /\ k = j
          BY <5>1, MessageFacts
        <5> QED
          BY <2>4, <3>2, <5>2
      <4> QED
        BY <2>3, <4>1, <4>2, <4>3
    <3> QED
      BY <3>1, <3>2
  <2>6. ASSUME NEW x \in Execution, NEW l \in 1..MaxLinks, InOrder(inbox[l], x),
               x # y \/ j # "line" \/ \A k \in Final : ~Mail(l, x, k)
        PROVE  InOrder(inbox'[l], x)
    <3>1. CASE l # link
      BY <2>2, <2>6, <3>1
    <3>2. CASE l = link
      <4> SUFFICES ASSUME NEW a \in 1..Len(p), NEW n \in 1..Len(p), a < n, p[a].of = x, p[a].kind \in Final
                   PROVE  p[n] # Msg(x, "line")
        BY <3>2 DEF InOrder
      <4>1. a \in 1..Len(q) /\ p[a] = q[a]
        BY <2>2, <2>3
      <4>2. CASE n \in 1..Len(q)
        <5>1. p[n] = q[n]
          BY <2>3, <4>2
        <5>2. InOrder(q, x)
          BY <2>6, <3>2
        <5> HIDE DEF p, q
        <5> QED
          BY <4>1, <4>2, <5>1, <5>2 DEF InOrder
      <4>3. CASE n = Len(q) + 1
        <5>1. p[n] = Msg(y, j)
          BY <2>3, <4>3
        <5>2. CASE x # y \/ j # "line"
          BY <5>1, <5>2, MessageFacts DEF Kind
        <5>3. CASE \A k \in Final : ~Mail(l, x, k)
          <6>1. q[a] \in Message /\ q[a] = Msg(x, q[a].kind) /\ q[a].kind \in Final
            <7>1. q[a] \in Message
              BY <2>2, <4>1
            <7> QED
              BY <4>1, <7>1, MessageFacts
          <6> QED
            BY <3>2, <4>1, <5>3, <6>1 DEF Mail, Holds
        <5> QED
          BY <2>6, <5>2, <5>3
      <4> QED
        BY <2>3, <4>2, <4>3
    <3> QED
      BY <3>1, <3>2
  <2> QED
    BY <2>4, <2>5, <2>6
<1> QED
  BY <1>1, <1>2

LEMMA RequestLines ==
    ASSUME RestTypeOK, RunsInv, LinesInv, NEW y \in Execution, Request(y) PROVE LinesInv'
<1> SUFFICES ASSUME NEW x \in Execution PROVE LinesOf(x)'
  BY DEF LinesInv
<1>0. LinesOf(x) /\ RunInv(x)
  BY DEF LinesInv, RunsInv
<1>1. UNCHANGED <<inbox, handler, told, crossed>>
  BY DEF Request, LoadExecution, InsertDryRun, FinishDryRun, Dispatch, RequestFails, Refused, Accepted,
     netVars, pastVars, pageVars
<1>2. run[x] \in {"running", "hung", "told", "killed"} => run'[x] = run[x] /\ via'[x] = via[x]
  <2>1. CASE Dispatch(y)
    <3>1. run[x] \in {"running", "hung", "told", "killed"} => y # x
      BY <1>0, <2>1 DEF Dispatch, RunInv
    <3> QED
      BY <2>1, <3>1 DEF Dispatch, RestTypeOK
  <2>2. CASE ~Dispatch(y)
    BY <2>2 DEF Request, LoadExecution, InsertDryRun, FinishDryRun, RequestFails, Refused, Accepted, agentVars
  <2> QED
    BY <2>1, <2>2
<1>3. \A l \in 1..MaxLinks : \A k \in Kind :
         (Mail(l, x, k)' => Mail(l, x, k)) /\ (At(l, x, k)' => At(l, x, k))
  BY <1>1 DEF Mail, At
<1> QED
  BY <1>0, <1>1, <1>2, <1>3, LinesStay

\* An execution that its agent's goroutine sends nothing about.
LEMMA AgentLines ==
    ASSUME RestTypeOK, RunsInv, LinesInv, NEW y \in Execution, Agent(y) PROVE LinesInv'
<1>0. RestTypeOK /\ \A x \in Execution : LinesOf(x)
  BY DEF LinesInv
<1>1. UNCHANGED <<handler, told, via>>
  BY DEF Agent, StartRun, Acknowledge, SendLine, Hang, SendResult, pageVars
<1>2. PICK j \in Kind :
         /\ Sends(y, j) \/ (UNCHANGED <<inbox, crossed>> /\ ~SendLine(y) /\ ~SendResult(y))
         /\ j = "line" => SendLine(y)
         /\ SendLine(y) => j = "line"
         /\ j \in Final => SendResult(y)
  <2>1. CASE StartRun(y)
    <3>1. run[y] = "sent"
      BY <2>1 DEF StartRun
    <3> QED
      BY <2>1, <3>1, MessageFacts DEF StartRun, netVars, pastVars, SendLine, SendResult, Kind
  <2>5. CASE Hang(y)
    <3>1. run[y] = "running" /\ run'[y] = "hung" /\ UNCHANGED <<inbox, crossed>>
      BY <2>5 DEF Hang, RestTypeOK, netVars, pastVars
    <3>2. ~SendLine(y) /\ ~SendResult(y)
      BY <3>1 DEF SendLine, SendResult, RestTypeOK
    <3> QED
      BY <3>1, <3>2, MessageFacts DEF Kind
  <2>2. CASE Acknowledge(y) /\ ~SendLine(y) /\ ~SendResult(y)
    <3>1. Sends(y, "ack") \/ UNCHANGED <<inbox, crossed>>
      BY <2>2 DEF Acknowledge
    <3> QED
      BY <2>2, <3>1, MessageFacts DEF Kind
  <2>3. CASE SendLine(y)
    BY <2>3, MessageFacts DEF SendLine, Kind
  <2>4. CASE SendResult(y)
    <3>1. PICK k \in Final : Sends(y, k)
      BY <2>4 DEF SendResult, Final
    <3>2. ~SendLine(y)
      BY <2>4 DEF SendResult, SendLine, RestTypeOK
    <3> QED
      BY <2>4, <3>1, <3>2, MessageFacts
  <2> QED
    BY <2>1, <2>2, <2>3, <2>4, <2>5 DEF Agent
<1>3. /\ \A x \in Execution, k \in Kind, l \in 1..MaxLinks :
            Mail(l, x, k)' => Mail(l, x, k) \/ (x = y /\ k = j /\ (y \in crossed' \/ l = via[y]))
      /\ \A x \in Execution, l \in 1..MaxLinks :
            InOrder(inbox[l], x) /\ (x # y \/ j # "line" \/ \A k \in Final : ~Mail(l, x, k))
               => InOrder(inbox'[l], x)
      /\ crossed \subseteq crossed'
  <2>1. CASE Sends(y, j)
    BY <2>1, SendsLast
  <2>2. CASE UNCHANGED <<inbox, crossed>>
    BY <2>2 DEF Mail
  <2> QED
    BY <1>2, <2>1, <2>2
<1>4. \A l \in 1..MaxLinks, x \in Execution : \A k \in Kind : At(l, x, k)' <=> At(l, x, k)
  BY <1>1 DEF At
<1>5. \A x \in Execution : x # y => run'[x] = run[x]
  BY DEF Agent, StartRun, Acknowledge, SendLine, Hang, SendResult, RestTypeOK
<1>6. ASSUME NEW x \in Execution, x # y PROVE LinesOf(x)'
  <2>1. \A l \in 1..MaxLinks : \A k \in Kind :
           (Mail(l, x, k)' => Mail(l, x, k)) /\ (At(l, x, k)' => At(l, x, k))
    BY <1>3, <1>4, <1>6
  <2>2. \A l \in 1..MaxLinks : InOrder(inbox[l], x) => InOrder(inbox'[l], x)
    BY <1>3, <1>6
  <2> QED
    BY <1>0, <1>1, <1>3, <1>5, <1>6, <2>1, <2>2, LinesStay
<1>7. LinesOf(y)'
  <2>0. Routed(y) /\ Ordered(y) /\ ToldLast(y)
    BY <1>0 DEF LinesOf
  <2>1. /\ run[y] \in {"running", "hung", "told", "killed"} => run'[y] \in {"running", "hung", "told", "killed"}
        /\ run[y] = "told" => run'[y] = "told"
    BY <1>0 DEF Agent, StartRun, Acknowledge, SendLine, Hang, SendResult, RestTypeOK
  <2>2. CASE StartRun(y)
    <3>1. UNCHANGED <<inbox, crossed>>
      BY <2>2 DEF StartRun, netVars, pastVars
    <3>2. \A l \in 1..MaxLinks : \A k \in Kind :
             (Mail(l, y, k)' => Mail(l, y, k)) /\ (At(l, y, k)' => At(l, y, k))
      BY <1>4, <3>1 DEF Mail
    <3> QED
      BY <1>0, <1>1, <2>1, <3>1, <3>2, LinesStay
  <2>3. CASE ~StartRun(y)
    <3>1. /\ run[y] \in {"running", "hung", "told"} /\ run'[y] \in {"running", "hung", "told"}
          /\ j = "line" => run[y] = "running"
          /\ j \in Final => run[y] \in {"running", "hung"} /\ run'[y] = "told"
      BY <1>0, <1>2, <2>3 DEF Agent, Acknowledge, SendLine, Hang, SendResult, RestTypeOK
    <3>2. Routed(y)'
      BY <1>1, <1>3, <1>4, <2>0, <2>1, <3>1 DEF Routed
    <3>3. run[y] \in {"running", "hung"} => \A l \in 1..MaxLinks : \A k \in Final : ~Mail(l, y, k) /\ ~At(l, y, k)
      BY <2>0, MessageFacts DEF Routed
    <3>4. Ordered(y)'
      <4> SUFFICES ASSUME NEW l \in 1..MaxLinks
                   PROVE  /\ ~At(l, y, "ack")'
                          /\ y \notin crossed' =>
                                /\ InOrder(inbox'[l], y)
                                /\ \A k \in Final : At(l, y, k)' => ~Mail(l, y, "line")'
        BY DEF Ordered
      <4>1. ~At(l, y, "ack")'
        BY <1>4, <2>0 DEF Ordered, Kind
      <4>2. ASSUME y \notin crossed' PROVE InOrder(inbox'[l], y)
        BY <1>3, <2>0, <3>1, <3>3, <4>2 DEF Ordered
      <4>3. ASSUME y \notin crossed', NEW k \in Final, At(l, y, k)' PROVE ~Mail(l, y, "line")'
        <5>1. At(l, y, k) /\ run[y] \notin {"running", "hung"} /\ ~Mail(l, y, "line")
          BY <1>3, <1>4, <2>0, <3>3, <4>3, MessageFacts DEF Ordered
        <5> QED
          BY <1>3, <3>1, <5>1, MessageFacts DEF Kind
      <4> QED
        BY <4>1, <4>2, <4>3
    <3>5. ToldLast(y)'
      <4> SUFFICES ASSUME NEW i \in Site
                   PROVE  /\ told'[i][y] \in {"result", "late line"} =>
                                /\ run'[y] = "told"
                                /\ y \notin crossed' =>
                                      \A l \in 1..MaxLinks : ~Mail(l, y, "line")' /\ ~At(l, y, "line")'
                          /\ told'[i][y] = "late line" => y \in crossed'
        BY DEF ToldLast
      <4>1. told'[i][y] = told[i][y]
        BY <1>1
      <4>2. told[i][y] = "late line" => y \in crossed'
        BY <1>3, <2>0 DEF ToldLast
      <4>3. ASSUME told[i][y] \in {"result", "late line"}
            PROVE  /\ run'[y] = "told"
                   /\ y \notin crossed' =>
                         \A l \in 1..MaxLinks : ~Mail(l, y, "line")' /\ ~At(l, y, "line")'
        <5>1. run[y] = "told" /\ j # "line"
          BY <2>0, <3>1, <4>3 DEF ToldLast
        <5>2. ASSUME y \notin crossed', NEW l \in 1..MaxLinks
              PROVE  ~Mail(l, y, "line")' /\ ~At(l, y, "line")'
          <6>1. y \notin crossed /\ "line" \in Kind
            BY <1>3, <5>2 DEF Kind
          <6>2. ~Mail(l, y, "line") /\ ~At(l, y, "line")
            BY <2>0, <4>3, <6>1 DEF ToldLast
          <6> QED
            BY <1>3, <1>4, <5>1, <6>1, <6>2
        <5> QED
          BY <2>1, <5>1, <5>2
      <4> QED
        BY <4>1, <4>2, <4>3
    <3> QED
      BY <3>2, <3>4, <3>5 DEF LinesOf
  <2> QED
    BY <2>2, <2>3
<1> QED
  BY <1>6, <1>7 DEF LinesInv

\* A step that begins, ends or drops messages of no execution in particular.
LEMMA LinesUnmoved ==
    ASSUME RestTypeOK, LinesInv,
           \A l \in 1..MaxLinks : \A w : Holds(inbox'[l], w) => Holds(inbox[l], w),
           \A l \in 1..MaxLinks : \A x \in Execution : InOrder(inbox[l], x) => InOrder(inbox'[l], x),
           \A l \in 1..MaxLinks :
              handler'[l].stage # "idle" => handler[l].stage # "idle" /\ handler'[l].msg = handler[l].msg,
           \A x \in Execution :
              \/ run'[x] = run[x] \/ run[x] = "sent"
              \/ run[x] \in {"running", "hung"} /\ run'[x] = "killed",
           UNCHANGED <<told, via, crossed>>
    PROVE  LinesInv'
<1> SUFFICES ASSUME NEW x \in Execution PROVE LinesOf(x)'
  BY DEF LinesInv
<1>1. LinesOf(x)
  BY DEF LinesInv
<1>2. \A l \in 1..MaxLinks : \A k \in Kind :
         (Mail(l, x, k)' => Mail(l, x, k)) /\ (At(l, x, k)' => At(l, x, k))
  BY DEF Mail, At
<1> QED
  BY <1>1, <1>2, LinesStay

LEMMA ReadLines ==
    ASSUME RestTypeOK, LinesInv, NEW l \in 1..MaxLinks, ReadMessage(l) PROVE LinesInv'
<1> DEFINE q == inbox[l]
<1>0. Head(q) \in Message
  BY HeadTailProperties DEF ReadMessage, RestTypeOK
<1> PICK m \in Message : m = Head(q)
  BY <1>0
<1>1. /\ q \in Seq(Message) /\ q # <<>> /\ inbox' = [inbox EXCEPT ![l] = Tail(q)] /\ Begin(l, m)
      /\ UNCHANGED <<run, via, told, crossed>> /\ handler[l] = Idle
      /\ inbox \in [1..MaxLinks -> Seq(Message)] /\ handler \in [1..MaxLinks -> Handled]
  BY DEF ReadMessage, agentVars, pastVars, pageVars, RestTypeOK
<1>2. /\ m \in Message /\ m = q[1] /\ Len(q) \in Nat /\ Len(q) >= 1
      /\ Len(Tail(q)) = Len(q) - 1 /\ \A n \in 1..Len(Tail(q)) : Tail(q)[n] = q[n + 1]
      /\ inbox'[l] = Tail(q) /\ \A n \in 1..MaxLinks : n # l => inbox'[n] = inbox[n]
  BY <1>1, HeadTailProperties
<1>3. /\ m.of \in Execution /\ m.kind \in Kind /\ m = Msg(m.of, m.kind) /\ Mail(l, m.of, m.kind)
  <2>1. m.of \in Execution /\ m.kind \in Kind /\ m = Msg(m.of, m.kind)
    BY <1>2, MessageFacts
  <2>2. 1 \in 1..Len(q)
    BY <1>2
  <2> QED
    BY <1>2, <2>1, <2>2 DEF Mail, Holds
<1>4. \A w : Holds(Tail(q), w) => Holds(q, w)
  <2> SUFFICES ASSUME NEW w, NEW n \in 1..Len(Tail(q)), Tail(q)[n] = w PROVE Holds(q, w)
    BY DEF Holds
  <2>1. n + 1 \in 1..Len(q) /\ q[n + 1] = w
    BY <1>2
  <2> QED
    BY <2>1 DEF Holds
<1>5. ASSUME NEW x \in Execution, InOrder(q, x) PROVE InOrder(Tail(q), x)
  <2> SUFFICES ASSUME NEW a \in 1..Len(Tail(q)), NEW n \in 1..Len(Tail(q)), a < n,
                      Tail(q)[a].of = x, Tail(q)[a].kind \in Final
               PROVE  Tail(q)[n] # Msg(x, "line")
    BY DEF InOrder
  <2>1. /\ a + 1 \in 1..Len(q) /\ n + 1 \in 1..Len(q) /\ a + 1 < n + 1
        /\ Tail(q)[a] = q[a + 1] /\ Tail(q)[n] = q[n + 1]
    BY <1>2
  <2> HIDE DEF q
  <2> QED
    BY <1>5, <2>1 DEF InOrder
<1>6. ASSUME NEW x \in Execution, InOrder(q, x), m.of = x, m.kind \in Final
      PROVE  ~Holds(Tail(q), Msg(x, "line"))
  <2> SUFFICES ASSUME NEW n \in 1..Len(Tail(q)) PROVE Tail(q)[n] # Msg(x, "line")
    BY DEF Holds
  <2>1. 1 \in 1..Len(q) /\ n + 1 \in 1..Len(q) /\ 1 < n + 1 /\ Tail(q)[n] = q[n + 1] /\ q[1] = m
    BY <1>2
  <2> HIDE DEF q
  <2> QED
    BY <1>6, <2>1 DEF InOrder
<1>7. /\ \A n \in 1..MaxLinks : n # l => handler'[n] = handler[n]
      /\ handler'[l].stage # "idle" => handler'[l].msg = m /\ m.kind # "ack"
  <2>1. PICK h \in {Idle, [stage |-> "last_run", msg |-> m, to |-> {}], [stage |-> "copy", msg |-> m, to |-> {}]} :
           handler' = [handler EXCEPT ![l] = h] /\ (m.kind = "ack" => h = Idle)
    BY <1>1 DEF Begin
  <2>2. handler'[l] = h /\ \A n \in 1..MaxLinks : n # l => handler'[n] = handler[n]
    BY <1>1, <2>1
  <2> QED
    BY <2>1, <2>2, HandledFacts
<1> HIDE DEF q
<1>8. \A n \in 1..MaxLinks, x \in Execution, k \in Kind :
         /\ Mail(n, x, k)' => Mail(n, x, k)
         /\ At(n, x, k)' => At(n, x, k) \/ (n = l /\ x = m.of /\ k = m.kind /\ k # "ack")
  <2> SUFFICES ASSUME NEW n \in 1..MaxLinks, NEW x \in Execution, NEW k \in Kind
               PROVE  /\ Mail(n, x, k)' => Mail(n, x, k)
                      /\ At(n, x, k)' => At(n, x, k) \/ (n = l /\ x = m.of /\ k = m.kind /\ k # "ack")
    OBVIOUS
  <2>1. Mail(n, x, k)' => Mail(n, x, k)
    BY <1>2, <1>4 DEF Mail, q
  <2>2. ASSUME n = l, At(n, x, k)' PROVE x = m.of /\ k = m.kind /\ k # "ack"
    BY <1>7, <2>2, MessageFacts DEF At
  <2>3. n # l /\ At(n, x, k)' => At(n, x, k)
    BY <1>7 DEF At
  <2> QED
    BY <2>1, <2>2, <2>3
<1>9. \A n \in 1..MaxLinks, x \in Execution : InOrder(inbox[n], x) => InOrder(inbox'[n], x)
  BY <1>2, <1>5 DEF q
<1>10. ASSUME NEW x \in Execution, x # m.of PROVE LinesOf(x)'
  BY <1>1, <1>8, <1>9, <1>10, LinesStay DEF LinesInv
<1>11. ASSUME NEW x \in Execution, x = m.of PROVE LinesOf(x)'
  <2>0. Routed(x) /\ Ordered(x) /\ ToldLast(x)
    BY DEF LinesInv, LinesOf
  <2>1. x = m.of /\ m.kind \in Kind /\ Mail(l, x, m.kind)
    BY <1>3, <1>11
  <2>2. Routed(x)'
    BY <1>1, <1>8, <2>0, <2>1 DEF Routed
  <2>3. \A n \in 1..MaxLinks : ~At(n, x, "ack")'
    BY <1>8, <2>0 DEF Ordered, Kind
  <2>4. ASSUME x \notin crossed', NEW n \in 1..MaxLinks
        PROVE  InOrder(inbox'[n], x) /\ \A k \in Final : At(n, x, k)' => ~Mail(n, x, "line")'
    <3>1. x \notin crossed /\ InOrder(inbox[n], x) /\ InOrder(inbox'[n], x)
      BY <1>1, <1>9, <2>0, <2>4 DEF Ordered
    <3>2. ASSUME NEW k \in Final, At(n, x, k)' PROVE ~Mail(n, x, "line")'
      <4>1. CASE At(n, x, k)
        BY <1>8, <2>0, <3>1, <4>1 DEF Ordered, Kind
      <4>2. CASE n = l /\ k = m.kind
        BY <1>2, <1>6, <2>0, <2>1, <3>1, <3>2, <4>2 DEF Mail, q
      <4> QED
        BY <1>8, <2>0, <3>2, <4>1, <4>2, MessageFacts
    <3> QED
      BY <3>1, <3>2
  <2>5. Ordered(x)'
    BY <2>3, <2>4 DEF Ordered
  <2>6. ASSUME NEW i \in Site, told[i][x] \in {"result", "late line"}, x \notin crossed, NEW n \in 1..MaxLinks
        PROVE  ~Mail(n, x, "line")' /\ ~At(n, x, "line")'
    <3>1. "line" \in Kind /\ \A p \in 1..MaxLinks : ~Mail(p, x, "line") /\ ~At(p, x, "line")
      BY <2>0, <2>6 DEF ToldLast, Kind
    <3>2. m.kind # "line"
      BY <2>1, <3>1
    <3> QED
      BY <1>8, <2>0, <3>1, <3>2
  <2>7. ToldLast(x)'
    BY <1>1, <2>0, <2>6 DEF ToldLast
  <2> QED
    BY <2>2, <2>5, <2>7 DEF LinesOf
<1> QED
  BY <1>10, <1>11 DEF LinesInv

LEMMA PageLines ==
    ASSUME RestTypeOK, LinesInv, NEW l \in 1..MaxLinks, SendToPage(l) PROVE LinesInv'
<1>0. /\ handler \in [1..MaxLinks -> Handled] /\ handler[l] \in Handled /\ handler[l].stage = "send"
      /\ told \in [Site -> [Execution -> {"nothing", "line", "result", "late line"}]]
      /\ UNCHANGED <<inbox, run, via, crossed>>
  BY DEF SendToPage, RestTypeOK, agentVars, netVars, pastVars
<1>a. handler[l].msg \in Message
  BY <1>0, HandledFacts
<1> PICK m \in Message : m = handler[l].msg
  BY <1>a
<1>1. /\ m \in Message /\ m.of \in Execution /\ m.kind \in Kind /\ m = Msg(m.of, m.kind)
      /\ handler[l].to \subseteq Site /\ At(l, m.of, m.kind)
  BY <1>0, HandledFacts, MessageFacts DEF At
<1>2. PICK i \in handler[l].to :
         /\ told' = IF site[i] = Gone THEN told ELSE [told EXCEPT ![i][m.of] = Shown(@, m.kind)]
         /\ handler' = IF handler[l].to = {i} THEN [handler EXCEPT ![l] = Idle]
                                              ELSE [handler EXCEPT ![l].to = @ \ {i}]
  BY DEF SendToPage
<1>3. \A n \in 1..MaxLinks : handler'[n].stage # "idle" =>
         handler[n].stage # "idle" /\ handler'[n].msg = handler[n].msg
  <2>1. PICK h \in {Idle, [handler[l] EXCEPT !.to = handler[l].to \ {i}]} : handler' = [handler EXCEPT ![l] = h]
    BY <1>0, <1>2
  <2>2. h.stage # "idle" => h.msg = m
    BY <1>0, <2>1, HandledFacts DEF Handled
  <2> QED
    BY <1>0, <2>1, <2>2
<1>4. \A n \in 1..MaxLinks, x \in Execution, k \in Kind :
         (Mail(n, x, k)' <=> Mail(n, x, k)) /\ (At(n, x, k)' => At(n, x, k))
  BY <1>0, <1>3 DEF Mail, At
<1>5. /\ \A j \in Site, x \in Execution : j # i \/ x # m.of => told'[j][x] = told[j][x]
      /\ told'[i][m.of] = told[i][m.of] \/ told'[i][m.of] = Shown(told[i][m.of], m.kind)
  BY <1>0, <1>1, <1>2
<1>6. ASSUME NEW x \in Execution, x # m.of PROVE LinesOf(x)'
  BY <1>0, <1>4, <1>5, <1>6, LinesStay DEF LinesInv
<1>7. ASSUME NEW x \in Execution, x = m.of PROVE LinesOf(x)'
  <2>0. /\ Routed(x) /\ Ordered(x) /\ ToldLast(x)
        /\ At(l, x, m.kind) /\ m.kind \in Kind
    BY <1>1, <1>7 DEF LinesInv, LinesOf
  <2>1. /\ \A j \in Site : j # i => told'[j][x] = told[j][x]
        /\ told'[i][x] = told[i][x] \/ told'[i][x] = Shown(told[i][x], m.kind)
    BY <1>5, <1>7
  <2>2. Routed(x)'
    BY <1>0, <1>4, <2>0 DEF Routed
  <2>3. Ordered(x)'
    <3>1. "ack" \in Kind /\ "line" \in Kind /\ Final \subseteq Kind
      BY DEF Kind
    <3> QED
      BY <1>0, <1>4, <2>0, <3>1 DEF Ordered
  <2>4. ASSUME NEW j \in Site
        PROVE  /\ told'[j][x] \in {"result", "late line"} =>
                     /\ run'[x] = "told"
                     /\ x \notin crossed' =>
                           \A n \in 1..MaxLinks : ~Mail(n, x, "line")' /\ ~At(n, x, "line")'
               /\ told'[j][x] = "late line" => x \in crossed'
    <3>0. "line" \in Kind
      BY DEF Kind
    <3>1. CASE told'[j][x] = told[j][x]
      BY <1>0, <1>4, <2>0, <3>0, <3>1 DEF ToldLast
    <3>2. CASE j = i /\ told'[i][x] = Shown(told[i][x], m.kind)
      <4>1. CASE m.kind \in Final
        <5>1. run[x] = "told" /\ told'[i][x] = "result"
          BY <2>0, <3>2, <4>1 DEF Routed, Shown
        <5>2. ASSUME x \notin crossed, NEW n \in 1..MaxLinks PROVE ~Mail(n, x, "line") /\ ~At(n, x, "line")
          <6>1. n # l => ~Mail(n, x, "line") /\ ~At(n, x, "line")
            BY <2>0, <3>0, <5>2 DEF Routed
          <6>2. ~Mail(l, x, "line")
            BY <2>0, <4>1, <5>2 DEF Ordered
          <6>3. ~At(l, x, "line")
            BY <2>0, <4>1, MessageFacts, <3>0 DEF At
          <6> QED
            BY <6>1, <6>2, <6>3
        <5> QED
          BY <1>0, <1>4, <2>0, <3>0, <3>2, <5>1, <5>2
      <4>2. CASE m.kind \notin Final
        <5>1. m.kind = "line"
          BY <2>0, <4>2 DEF Ordered, Kind
        <5>2. told[i][x] \in {"result", "late line"} =>
                 run[x] = "told" /\ x \in crossed
          BY <2>0, <3>2, <5>1 DEF ToldLast
        <5>3. told'[i][x] = IF told[i][x] \in {"result", "late line"} THEN "late line" ELSE "line"
          BY <3>2, <4>2 DEF Shown
        <5> QED
          BY <1>0, <3>2, <5>2, <5>3
      <4> QED
        BY <4>1, <4>2
    <3> QED
      BY <2>1, <3>1, <3>2
  <2>5. ToldLast(x)'
    BY <2>4 DEF ToldLast
  <2> QED
    BY <2>2, <2>3, <2>5 DEF LinesOf
<1> QED
  BY <1>6, <1>7 DEF LinesInv

\* A handler that goes on, and everything that cuts messages short.
LEMMA OtherLines ==
    ASSUME RestTypeOK, LinesInv,
           \/ \E l \in 1..MaxLinks : WriteLastRun(l) \/ CopySubscribers(l)
           \/ VersionStep \/ PageStep \/ Connect \/ ConnectionLost \/ BackendDies \/ AgentDies
           \/ UNCHANGED vars
    PROVE  LinesInv'
<1>0. handler \in [1..MaxLinks -> Handled] /\ inbox \in [1..MaxLinks -> Seq(Message)]
  BY DEF RestTypeOK
<1>1. ASSUME NEW l \in 1..MaxLinks, WriteLastRun(l) \/ CopySubscribers(l) PROVE LinesInv'
  <2>1. handler[l] \in Handled /\ handler[l].stage \in {"last_run", "copy"}
        /\ UNCHANGED <<inbox, run, told, via, crossed>>
    BY <1>0, <1>1 DEF WriteLastRun, CopySubscribers, agentVars, netVars, pageVars, pastVars
  <2>2. PICK h \in {Idle, [handler[l] EXCEPT !.stage = "copy"],
                    [handler[l] EXCEPT !.stage = "send", !.to = subs[handler[l].msg.of]]} :
           handler' = [handler EXCEPT ![l] = h]
    BY <1>0, <1>1 DEF WriteLastRun, CopySubscribers
  <2>3. h.stage # "idle" => h.msg = handler[l].msg
    BY <2>1, <2>2, HandledFacts DEF Handled
  <2>4. \A n \in 1..MaxLinks : handler'[n].stage # "idle" =>
           handler[n].stage # "idle" /\ handler'[n].msg = handler[n].msg
    BY <1>0, <2>1, <2>2, <2>3
  <2> QED
    BY <2>1, <2>4, LinesUnmoved
<1>2. CASE VersionStep \/ PageStep \/ Connect \/ UNCHANGED vars
  <2>1. UNCHANGED <<inbox, handler, run, told, via, crossed>>
    BY <1>2 DEF VersionStep, PageStep, Connect, vars, agentVars, netVars, pageVars, pastVars
  <2> QED
    BY <2>1, LinesUnmoved
<1>3. CASE AgentDies
  <2>1. /\ UNCHANGED <<inbox, handler, told, via, crossed>>
        /\ \A x \in Execution :
              \/ run'[x] = run[x] \/ run[x] = "sent"
              \/ run[x] \in {"running", "hung"} /\ run'[x] = "killed"
    BY <1>3 DEF AgentDies, pageVars, RestTypeOK
  <2> QED
    BY <2>1, LinesUnmoved
<1>4. CASE BackendDies
  <2>1. /\ inbox' = [l \in 1..MaxLinks |-> <<>>] /\ handler' = [l \in 1..MaxLinks |-> Idle]
        /\ UNCHANGED <<told, via, crossed>> /\ CommandsLost
    BY <1>4 DEF BackendDies
  <2>2. \A x \in Execution : run'[x] = run[x] \/ run[x] = "sent"
    BY <2>1, CommandsRuns
  <2>3. \A l \in 1..MaxLinks : Len(inbox'[l]) = 0 /\ handler'[l].stage = "idle"
    BY <2>1, HandledFacts
  <2>4. \A l \in 1..MaxLinks : (\A w : ~Holds(inbox'[l], w)) /\ \A x \in Execution : InOrder(inbox'[l], x)
    BY <2>3 DEF Holds, InOrder
  <2> QED
    BY <2>1, <2>2, <2>3, <2>4, LinesUnmoved
<1>5. CASE ConnectionLost
  <2>0. link \in 1..MaxLinks
    <3>1. wire /\ (wire => link > 0) /\ link \in 0..MaxLinks /\ MaxLinks \in Nat
      BY <1>5, BoundAssumption DEF ConnectionLost, RestTypeOK
    <3> QED
      BY <3>1
  <2>1. UNCHANGED <<handler, told, via, crossed>> /\ CommandsLost /\ link \in 1..MaxLinks
    BY <1>5, <2>0 DEF ConnectionLost, pageVars
  <2>2. PICK kept \in 0..Len(inbox[link]) : inbox' = [inbox EXCEPT ![link] = SubSeq(@, 1, kept)]
    BY <1>5 DEF ConnectionLost
  <2>3. \A x \in Execution : run'[x] = run[x] \/ run[x] = "sent"
    BY <2>1, CommandsRuns
  <2>4. inbox[link] \in Seq(Message) /\ 1 \in 1..(Len(inbox[link]) + 1)
    BY <1>0, <2>1
  <2>5. /\ inbox'[link] = SubSeq(inbox[link], 1, kept)
        /\ \A l \in 1..MaxLinks : l # link => inbox'[l] = inbox[l]
    BY <1>0, <2>1, <2>2
  <2>6. /\ \A w : Holds(inbox'[link], w) => Holds(inbox[link], w)
        /\ \A x \in Execution : InOrder(inbox[link], x) => InOrder(inbox'[link], x)
    BY <2>2, <2>4, <2>5, PartOf
  <2> QED
    BY <2>1, <2>3, <2>5, <2>6, LinesUnmoved
<1> QED
  BY <1>1, <1>2, <1>3, <1>4, <1>5

LEMMA InitLines == Init => LinesInv
<1> SUFFICES ASSUME Init, NEW x \in Execution PROVE LinesOf(x)
  BY DEF LinesInv
<1>1. /\ \A l \in 1..MaxLinks : Len(inbox[l]) = 0 /\ handler[l].stage = "idle"
      /\ \A i \in Site : told[i][x] = "nothing"
  BY HandledFacts DEF Init
<1>2. \A l \in 1..MaxLinks, k \in Kind : ~Mail(l, x, k) /\ ~At(l, x, k) /\ InOrder(inbox[l], x)
  BY <1>1 DEF Mail, Holds, At, InOrder
<1>3. "ack" \in Kind /\ Final \subseteq Kind
  BY DEF Kind
<1> QED
  BY <1>1, <1>2, <1>3 DEF LinesOf, Routed, Ordered, ToldLast

\* A page that was told the result of an execution gets no line of it any more, unless the agent
\* changed its connection in the middle of the run: for any number of pages and connections, and
\* whatever is lost (ws_handlers.go:282-343).
THEOREM NothingAfterCorrect == Spec => []NothingAfterResult
<1>1. RestTypeOK /\ RunsInv /\ LinesInv /\ [Next]_vars => LinesInv'
  BY RequestLines, AgentLines, ReadLines, PageLines, OtherLines DEF Next, Handler
<1>2. LinesInv => NothingAfterResult
  BY DEF LinesInv, LinesOf, ToldLast, NothingAfterResult
<1> QED
  BY <1>1, <1>2, InitLines, RunsAlways, PTL DEF Spec
=============================================================================
