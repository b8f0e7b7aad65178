--------------------------- MODULE DeploysProofs ---------------------------
(***************************************************************************)
(* Proofs about Deploys for any deploys and operations, and any bounds.    *)
(***************************************************************************)
EXTENDS Deploys, TLAPS

\* An update of the table by a row leaves a table of rows.
LEMMA UpdatesType ==
    ASSUME TypeOK, NEW d \in Deploy, NEW new \in Row, Updates(d, new)
    PROVE  row' \in [Deploy -> Row]
  BY DEF Updates, TypeOK

\* A row whose status, or status and log, changed is a row; so for containers and jobs.
LEMMA RowChange ==
    ASSUME NEW r \in Row, NEW s \in Status, NEW l \in SUBSET Op
    PROVE  /\ [r EXCEPT !.status = s] \in Row
           /\ [r EXCEPT !.status = s, !.log = l] \in Row
           /\ r.log \in SUBSET Op
  BY DEF Row

LEMMA ContainerChange ==
    ASSUME NEW c \in Container, NEW s \in {"none", "running", "exited"}
    PROVE  [c EXCEPT !.state = s] \in Container
  BY DEF Container

LEMMA JobChange ==
    ASSUME NEW j \in Job, NEW e \in Deploy
    PROVE  /\ [j EXCEPT !.todo = @ \ {e}, !.now = {e}] \in Job
           /\ [j EXCEPT !.todo = @ \ {e}, !.failed = TRUE] \in Job
           /\ [j EXCEPT !.now = {}] \in Job
           /\ [j EXCEPT !.now = {}, !.failed = TRUE] \in Job
  BY DEF Job

\* docker stop and docker rm leave containers.
LEMMA DockerStopType ==
    ASSUME TypeOK, NEW d \in Deploy, DockerStop(d)
    PROVE  container' \in [Deploy -> Container]
<1>1. container[d] \in Container
  BY DEF TypeOK
<1>2. [container[d] EXCEPT !.state = "exited"] \in Container
  BY <1>1, ContainerChange
<1>3. [container EXCEPT ![d].state = "exited"]
      = [container EXCEPT ![d] = [container[d] EXCEPT !.state = "exited"]]
  OBVIOUS
<1>4. [container EXCEPT ![d].state = "exited"] \in [Deploy -> Container]
  BY <1>2, <1>3 DEF TypeOK
<1> QED
  BY <1>4 DEF DockerStop, TypeOK

LEMMA NewContainerType ==
    ASSUME TypeOK, NEW d \in Deploy, NEW c \in Container
    PROVE  [container EXCEPT ![d] = c] \in [Deploy -> Container]
  BY DEF TypeOK

LEMMA NoContainerType == NoContainer \in Container
  BY DEF NoContainer, Container

LEMMA StartedContainerType ==
    ASSUME NEW o \in Op, NEW s \in {"running", "exited"}
    PROVE  [state |-> s, by |-> o] \in Container
  BY DEF Container

LEMMA DockerRmType ==
    ASSUME TypeOK, NEW d \in Deploy, DockerRm(d)
    PROVE  container' \in [Deploy -> Container]
  BY NoContainerType, NewContainerType DEF DockerRm

\* The job of a cleanup is replaced by a job.
LEMMA NewJobType ==
    ASSUME TypeOK, NEW o \in Op, NEW j \in Job
    PROVE  [job EXCEPT ![o] = j] \in [Op -> Job \cup {NoJob}]
  BY DEF TypeOK

\* A message of the agent goes to the end of the queue of its connection, or nowhere.
LEMMA ReportType ==
    ASSUME TypeOK, NEW o \in Op, NEW kind \in {"log", "result", "complete"}, Report(o, kind)
    PROVE  wire' \in [Links -> Seq(Message)] /\ trouble' \in SUBSET Deploy
<1>1. [kind |-> kind, run |-> o, ok |-> o \in won] \in Message
  <2> DEFINE ok == o \in won
  <2>1. ok \in BOOLEAN
    OBVIOUS
  <2> HIDE DEF ok
  <2>2. [kind |-> kind, run |-> o, ok |-> ok] \in Message
    BY <2>1 DEF Message
  <2> QED
    BY <2>2 DEF ok
<1>2. link.at \in Links /\ wire[link.at] \in Seq(Message)
  BY DEF TypeOK
<1>3. Append(wire[link.at], [kind |-> kind, run |-> o, ok |-> o \in won]) \in Seq(Message)
  BY <1>1, <1>2
<1>4. wire' \in [Links -> Seq(Message)]
  BY <1>2, <1>3 DEF Report, TypeOK
<1>5. trouble' \in SUBSET Deploy
  BY DeployAssumption DEF Report, TypeOK
<1> QED
  BY <1>4, <1>5

\* An operation that starts moves its own handler.
LEMMA BeginType ==
    ASSUME TypeOK, NEW o \in Op, NEW next \in Pc, Begin(o, next)
    PROVE  pc' \in [Op -> Pc] /\ trouble' \in SUBSET Deploy
  BY DeployAssumption DEF Begin, TypeOK

\* What a connection leaves to be read when it ends.
LEMMA CutOffType ==
    ASSUME TypeOK, NEW kept \in 0..Len(wire[link.at]), CutOff(kept)
    PROVE  wire' \in [Links -> Seq(Message)] /\ link' \in [at : Links, up : BOOLEAN]
<1>1. link.at \in Links /\ wire[link.at] \in Seq(Message)
  BY DEF TypeOK
<1>2. SubSeq(wire[link.at], 1, kept) \in Seq(Message)
  BY <1>1
<1> QED
  BY <1>1, <1>2 DEF CutOff, TypeOK

\* The message at the head of a queue, and the rest.
LEMMA HeadType ==
    ASSUME TypeOK, NEW g \in Links, wire[g] # <<>>
    PROVE  Head(wire[g]) \in Message /\ [wire EXCEPT ![g] = Tail(@)] \in [Links -> Seq(Message)]
<1>1. wire[g] \in Seq(Message)
  BY DEF TypeOK
<1>2. Head(wire[g]) \in Message /\ Tail(wire[g]) \in Seq(Message)
  BY <1>1
<1> QED
  BY <1>2 DEF TypeOK

\* A read loop that is not idle holds a message and the log it read.
LEMMA ReaderType ==
    ASSUME TypeOK, NEW g \in Links, reader[g] # Idle
    PROVE  reader[g] \in Handling
  BY DEF TypeOK

\* A cleanup that was started and not answered has its job.
LEMMA JobType ==
    ASSUME TypeOK, NEW o \in Op, job[o] # NoJob
    PROVE  job[o] \in Job
  BY DEF TypeOK

LEMMA InitTypeOK == Init => TypeOK
  BY BoundAssumption DEF Init, TypeOK, Row, Status, Pc, RunnerPc, Links, Container, NoContainer

LEMMA NextTypeOK == TypeOK /\ [Next]_vars => TypeOK'
<1> SUFFICES ASSUME TypeOK, [Next]_vars PROVE TypeOK'
  OBVIOUS
<1>1. ASSUME NEW o \in Op, CreateDeploy(o) PROVE TypeOK'
  <2> DEFINE d == DeployOf[o]
             s == IF KindOf[o] = "legacy" THEN "running" ELSE "pending"
  <2>1. d \in Deploy /\ row[d] \in Row /\ s \in Status
    BY DeployAssumption DEF TypeOK, Status
  <2>2. [row[d] EXCEPT !.status = s] \in Row
    BY <2>1, RowChange
  <2>3. row' = [row EXCEPT ![d] = [row[d] EXCEPT !.status = s]]
    BY <1>1 DEF CreateDeploy, FirstStatus
  <2>4. row' \in [Deploy -> Row]
    BY <2>1, <2>2, <2>3 DEF TypeOK
  <2>5. pc' \in [Op -> Pc] /\ trouble' \in SUBSET Deploy
    BY <1>1, BeginType DEF CreateDeploy, FirstStatus, Pc
  <2> QED
    BY <1>1, <2>4, <2>5 DEF CreateDeploy, FirstStatus, TypeOK, agentVars, netVars
<1>2. ASSUME NEW o \in Op, LoadDeploy(o) PROVE TypeOK'
  <2>1. pc' \in [Op -> Pc] /\ trouble' \in SUBSET Deploy
    BY <1>2, BeginType DEF LoadDeploy, Pc
  <2> QED
    BY <1>2, <2>1 DEF LoadDeploy, TypeOK, dbVars, agentVars, netVars
<1>3. ASSUME NEW o \in Op, SecretUnresolved(o) PROVE TypeOK'
  BY <1>3 DEF SecretUnresolved, Goto, Pc, TypeOK, dbVars, opVars, agentVars, netVars
<1>4. ASSUME NEW o \in Op, ResetDeploy(o) PROVE TypeOK'
  <2>1. [row[DeployOf[o]] EXCEPT !.status = "pending", !.log = {}] \in Row
    BY DeployAssumption, RowChange DEF TypeOK, Status
  <2>2. row' \in [Deploy -> Row]
    BY <1>4, <2>1, DeployAssumption, UpdatesType DEF ResetDeploy
  <2> QED
    BY <1>4, <2>2 DEF ResetDeploy, Goto, Pc, TypeOK, agentVars, netVars
<1>5. ASSUME NEW o \in Op, Send(o) PROVE TypeOK'
  BY <1>5 DEF Send, Goto, Pc, TypeOK, dbVars, opVars, agentVars, netVars
<1>6. ASSUME NEW o \in Op, RequestAnswered(o) PROVE TypeOK'
  BY <1>6 DEF RequestAnswered, Goto, OnError, Pc, TypeOK, dbVars, opVars, agentVars, netVars
<1>7. ASSUME NEW o \in Op, RequestFails(o) PROVE TypeOK'
  <2>1. trouble' \in SUBSET Deploy
    BY <1>7, DeployAssumption DEF RequestFails, TypeOK
  <2> QED
    BY <1>7, <2>1 DEF RequestFails, OnError, Goto, Pc, TypeOK, dbVars, agentVars, netVars
<1>8. ASSUME NEW o \in Op, MarkFailed(o) PROVE TypeOK'
  <2>1. [row[DeployOf[o]] EXCEPT !.status = "failed",
                                !.log = IF KindOf[o] = "legacy" THEN @ ELSE {}] \in Row
    BY DeployAssumption, RowChange DEF TypeOK, Status
  <2>2. row' \in [Deploy -> Row]
    BY <1>8, <2>1, DeployAssumption, UpdatesType DEF MarkFailed
  <2> QED
    BY <1>8, <2>2 DEF MarkFailed, Goto, Pc, TypeOK, agentVars, netVars
<1>9. ASSUME NEW o \in Op, MarkStopped(o) PROVE TypeOK'
  <2>1. [row[DeployOf[o]] EXCEPT !.status = "stopped"] \in Row
    BY DeployAssumption, RowChange DEF TypeOK, Status
  <2>2. row' \in [Deploy -> Row]
    BY <1>9, <2>1, DeployAssumption, UpdatesType DEF MarkStopped
  <2> QED
    BY <1>9, <2>2 DEF MarkStopped, Goto, Pc, TypeOK, agentVars, netVars
<1>10. ASSUME NEW o \in Op, EraseDeploy(o) PROVE TypeOK'
  BY <1>10, DeployAssumption DEF EraseDeploy, Goto, Pc, Row, Status, TypeOK, dbVars, opVars, agentVars, netVars
<1>11. ASSUME NEW o \in Op, StartRun(o) PROVE TypeOK'
  BY <1>11 DEF StartRun, RunnerTo, RunnerPc, TypeOK, dbVars, opVars, agentVars, netVars
<1>12. ASSUME NEW o \in Op, LogLine(o) PROVE TypeOK'
  <2>1. wire' \in [Links -> Seq(Message)] /\ trouble' \in SUBSET Deploy
    BY <1>12, ReportType DEF LogLine
  <2>2. logged' \in [Op -> 0..MaxLogs]
    BY <1>12, BoundAssumption DEF LogLine, TypeOK
  <2> QED
    BY <1>12, <2>1, <2>2 DEF LogLine, TypeOK, dbVars, opVars
<1>13. ASSUME NEW o \in Op, BuildDone(o) PROVE TypeOK'
  BY <1>13 DEF BuildDone, RunnerTo, RunnerPc, TypeOK, dbVars, opVars, agentVars, netVars
<1>14. ASSUME NEW o \in Op, RunFails(o) PROVE TypeOK'
  <2>1. container' \in [Deploy -> Container]
    <3>1. CASE UNCHANGED container
      BY <3>1 DEF TypeOK
    <3>2. ASSUME NEW left \in {"exited", "running"},
                 container' = [container EXCEPT ![DeployOf[o]] = [state |-> left, by |-> o]]
          PROVE  container' \in [Deploy -> Container]
      <4>1. [state |-> left, by |-> o] \in Container
        BY StartedContainerType
      <4> QED
        BY <3>2, <4>1, DeployAssumption, NewContainerType
    <3> QED
      BY <1>14, <3>1, <3>2 DEF RunFails
  <2> QED
    BY <1>14, <2>1 DEF RunFails, RunnerTo, RunnerPc, TypeOK, dbVars, opVars, netVars
<1>15. ASSUME NEW o \in Op, StopOld(o) PROVE TypeOK'
  <2>1. container' \in [Deploy -> Container]
    BY <1>15, DeployAssumption, DockerStopType DEF StopOld
  <2> QED
    BY <1>15, <2>1 DEF StopOld, RunnerTo, RunnerPc, TypeOK, dbVars, opVars, netVars
<1>16. ASSUME NEW o \in Op, RemoveOld(o) PROVE TypeOK'
  <2>1. container' \in [Deploy -> Container]
    BY <1>16, DeployAssumption, DockerRmType DEF RemoveOld, TypeOK
  <2> QED
    BY <1>16, <2>1 DEF RemoveOld, RunnerTo, RunnerPc, TypeOK, dbVars, opVars, netVars
<1>17. ASSUME NEW o \in Op, RunContainer(o) PROVE TypeOK'
  <2>1. container' \in [Deploy -> Container]
    BY <1>17, DeployAssumption, StartedContainerType, NewContainerType DEF RunContainer, TypeOK
  <2>2. won' \in SUBSET Op
    BY <1>17 DEF RunContainer, TypeOK
  <2> QED
    BY <1>17, <2>1, <2>2 DEF RunContainer, RunnerTo, RunnerPc, TypeOK, dbVars, opVars, netVars
<1>18. ASSUME NEW o \in Op, SendResult(o) PROVE TypeOK'
  <2>1. wire' \in [Links -> Seq(Message)] /\ trouble' \in SUBSET Deploy
    BY <1>18, ReportType DEF SendResult
  <2> QED
    BY <1>18, <2>1 DEF SendResult, RunnerTo, RunnerPc, TypeOK, dbVars, opVars
<1>19. ASSUME NEW o \in Op, SendComplete(o) PROVE TypeOK'
  <2>1. wire' \in [Links -> Seq(Message)] /\ trouble' \in SUBSET Deploy
    BY <1>19, ReportType DEF SendComplete
  <2> QED
    BY <1>19, <2>1 DEF SendComplete, RunnerTo, RunnerPc, TypeOK, dbVars, opVars
<1>20. ASSUME NEW o \in Op, StartStop(o) PROVE TypeOK'
  <2>1. job' \in [Op -> Job \cup {NoJob}]
    <3>1. PICK found \in {{}, {e \in Lookalike[DeployOf[o]] : container[e] # NoContainer}} :
             job' = [job EXCEPT ![o] = [todo |-> {DeployOf[o]} \cup found, now |-> {}, failed |-> FALSE]]
      BY <1>20 DEF StartStop, Listed
    <3>2. found \in SUBSET Deploy
      BY DeployAssumption, LookalikeAssumption
    <3>3. [todo |-> {DeployOf[o]} \cup found, now |-> {}, failed |-> FALSE] \in Job
      BY <3>2, DeployAssumption DEF Job
    <3> QED
      BY <3>1, <3>3 DEF TypeOK
  <2> QED
    BY <1>20, <2>1 DEF StartStop, Listed, TypeOK, dbVars, netVars
<1>21. ASSUME NEW o \in Op, StopContainer(o) PROVE TypeOK'
  <2>1. PICK e \in job[o].todo :
           DockerStop(e) /\ job' = [job EXCEPT ![o].todo = @ \ {e}, ![o].now = {e}]
    BY <1>21 DEF StopContainer
  <2>2. job[o] \in Job
    BY <1>21, JobType DEF StopContainer
  <2>3. container' \in [Deploy -> Container]
    BY <2>1, <2>2, DockerStopType DEF Job
  <2>4. job' \in [Op -> Job \cup {NoJob}]
    <3>1. e \in Deploy
      BY <2>1, <2>2 DEF Job
    <3>2. job' = [job EXCEPT ![o] = [job[o] EXCEPT !.todo = @ \ {e}, !.now = {e}]]
      BY <2>1
    <3> QED
      BY <2>2, <3>1, <3>2, JobChange, NewJobType
  <2> QED
    BY <1>21, <2>3, <2>4 DEF StopContainer, TypeOK, dbVars, opVars, netVars
<1>22. ASSUME NEW o \in Op, RemoveContainer(o) PROVE TypeOK'
  <2>1. job[o] \in Job
    BY <1>22, JobType DEF RemoveContainer
  <2>2. PICK e \in job[o].now :
           \/ DockerRm(e) /\ job' = [job EXCEPT ![o].now = {}]
           \/ job' = [job EXCEPT ![o].now = {}, ![o].failed = TRUE] /\ UNCHANGED container
    BY <1>22 DEF RemoveContainer
  <2>3. container' \in [Deploy -> Container]
    BY <2>1, <2>2, DockerRmType DEF Job, TypeOK
  <2>4. job' \in [Op -> Job \cup {NoJob}]
    <3>1. e \in Deploy
      BY <2>1, <2>2 DEF Job
    <3>2. \/ job' = [job EXCEPT ![o] = [job[o] EXCEPT !.now = {}]]
          \/ job' = [job EXCEPT ![o] = [job[o] EXCEPT !.now = {}, !.failed = TRUE]]
      BY <2>2
    <3>3. /\ [job[o] EXCEPT !.now = {}] \in Job
          /\ [job[o] EXCEPT !.now = {}, !.failed = TRUE] \in Job
      BY <2>1, <3>1, JobChange
    <3> QED
      BY <3>2, <3>3, NewJobType
  <2> QED
    BY <1>22, <2>3, <2>4 DEF RemoveContainer, TypeOK, dbVars, opVars, netVars
<1>23. ASSUME NEW o \in Op, CleanupFails(o) PROVE TypeOK'
  <2>1. job[o] \in Job
    BY <1>23, JobType DEF CleanupFails
  <2>2. job' \in [Op -> Job \cup {NoJob}]
    <3>1. CASE job' = [job EXCEPT ![o].now = {}, ![o].failed = TRUE] /\ job[o].now # {}
      <4>1. PICK e \in job[o].now : TRUE
        BY <3>1
      <4>2. e \in Deploy
        BY <2>1 DEF Job
      <4>3. job' = [job EXCEPT ![o] = [job[o] EXCEPT !.now = {}, !.failed = TRUE]]
        BY <3>1
      <4> QED
        BY <2>1, <4>2, <4>3, JobChange, NewJobType
    <3>2. ASSUME NEW e \in job[o].todo, job' = [job EXCEPT ![o].todo = @ \ {e}, ![o].failed = TRUE]
          PROVE  job' \in [Op -> Job \cup {NoJob}]
      <4>1. e \in Deploy
        BY <2>1 DEF Job
      <4>2. job' = [job EXCEPT ![o] = [job[o] EXCEPT !.todo = @ \ {e}, !.failed = TRUE]]
        BY <3>2
      <4> QED
        BY <2>1, <4>1, <4>2, JobChange, NewJobType
    <3> QED
      BY <1>23, <3>1, <3>2 DEF CleanupFails
  <2> QED
    BY <1>23, <2>2 DEF CleanupFails, TypeOK, dbVars, opVars, netVars
<1>24. ASSUME NEW o \in Op, AnswerStop(o) PROVE TypeOK'
  BY <1>24 DEF AnswerStop, TypeOK, dbVars, opVars, agentVars, netVars
<1>25. ASSUME NEW d \in Deploy, ContainerExits(d) PROVE TypeOK'
  BY <1>25, DockerStopType DEF ContainerExits, TypeOK, dbVars, opVars, netVars
<1>26. ASSUME NEW g \in Links, ReadLog(g) PROVE TypeOK'
  <2> DEFINE m == Head(wire[g])
  <2>1. m \in Message /\ wire' \in [Links -> Seq(Message)]
    BY <1>26, HeadType DEF ReadLog
  <2>2. DeployOf[m.run] \in Deploy /\ m.run \in Op
    BY <2>1, DeployAssumption DEF Message
  <2>3. [msg |-> m, log |-> row[DeployOf[m.run]].log] \in Handling
    BY <2>1, <2>2 DEF Handling, Row, TypeOK
  <2>4. reader' \in [Links -> Handling \cup {Idle}]
    BY <1>26, <2>3 DEF ReadLog, TypeOK
  <2>5. lines' \in [Deploy -> SUBSET Op]
    BY <1>26, <2>2 DEF ReadLog, TypeOK
  <2> QED
    BY <1>26, <2>1, <2>4, <2>5 DEF ReadLog, TypeOK, opVars, agentVars
<1>27. ASSUME NEW g \in Links, ApplyLog(g) PROVE TypeOK'
  <2> DEFINE m == reader[g].msg
             d == DeployOf[m.run]
             new == [row[d] EXCEPT !.status = "building", !.log = reader[g].log \cup {m.run}]
  <2>1. reader[g] \in Handling
    BY <1>27, ReaderType DEF ApplyLog
  <2>2. m \in Message /\ m.run \in Op /\ d \in Deploy /\ reader[g].log \in SUBSET Op
    BY <2>1, DeployAssumption DEF Handling, Message
  <2>3. new \in Row
    <3>1. row[d] \in Row /\ "building" \in Status
      BY <2>2 DEF TypeOK, Status
    <3>2. reader[g].log \cup {m.run} \in SUBSET Op
      BY <2>2
    <3> QED
      BY <3>1, <3>2, RowChange
  <2>4. Updates(d, new)
    BY <1>27 DEF ApplyLog
  <2>5. row' \in [Deploy -> Row]
    BY <2>2, <2>3, <2>4, UpdatesType
  <2>6. reader' \in [Links -> Handling \cup {Idle}]
    BY <1>27 DEF ApplyLog, TypeOK
  <2> HIDE DEF m, d, new
  <2> QED
    BY <1>27, <2>5, <2>6 DEF ApplyLog, TypeOK, opVars, agentVars
<1>28. ASSUME NEW g \in Links, ReadResult(g) PROVE TypeOK'
  <2> DEFINE m == Head(wire[g])
  <2>1. m \in Message /\ wire' \in [Links -> Seq(Message)]
    BY <1>28, HeadType DEF ReadResult
  <2>2. DeployOf[m.run] \in Deploy /\ m.run \in Op
    BY <2>1, DeployAssumption DEF Message
  <2>3. [msg |-> m, log |-> row[DeployOf[m.run]].log] \in Handling
    BY <2>1, <2>2 DEF Handling, Row, TypeOK
  <2>4. reader' \in [Links -> Handling \cup {Idle}]
    BY <1>28, <2>3 DEF ReadResult, TypeOK
  <2> QED
    BY <1>28, <2>1, <2>4 DEF ReadResult, TypeOK, dbVars, opVars, agentVars
<1>29. ASSUME NEW g \in Links, ApplyResult(g) PROVE TypeOK'
  <2> DEFINE m == reader[g].msg
             d == DeployOf[m.run]
             new == [status |-> IF m.ok THEN "running" ELSE "failed",
                     log |-> FinalLog(m, reader[g].log),
                     shown |-> IF m.ok THEN m.run ELSE NoRun]
  <2>1. reader[g] \in Handling
    BY <1>29, ReaderType DEF ApplyResult
  <2>2. m \in Message /\ m.run \in Op /\ d \in Deploy /\ reader[g].log \in SUBSET Op
    BY <2>1, DeployAssumption DEF Handling, Message
  <2>3. new \in Row
    BY <2>2 DEF FinalLog, Row, Status
  <2>4. Updates(d, new)
    BY <1>29 DEF ApplyResult
  <2>5. row' \in [Deploy -> Row]
    BY <2>2, <2>3, <2>4, UpdatesType
  <2>6. reader' \in [Links -> Handling \cup {Idle}]
    BY <1>29 DEF ApplyResult, TypeOK
  <2> HIDE DEF m, d, new
  <2> QED
    BY <1>29, <2>5, <2>6 DEF ApplyResult, TypeOK, opVars, agentVars
<1>30. ASSUME LoseLink PROVE TypeOK'
  <2>1. PICK kept \in 0..Len(wire[link.at]) :
           CutOff(kept) /\ trouble' = trouble \cup LostTo(kept)
    BY <1>30 DEF LoseLink
  <2>2. wire' \in [Links -> Seq(Message)] /\ link' \in [at : Links, up : BOOLEAN]
    BY <2>1, CutOffType
  <2>3. LostTo(kept) \in SUBSET Deploy
    BY DeployAssumption DEF LostTo, Completions, Message
  <2>4. cmds' \in SUBSET Op
    BY <1>30 DEF LoseLink, TypeOK
  <2> QED
    BY <1>30, <2>1, <2>2, <2>3, <2>4 DEF LoseLink, TypeOK, dbVars, agentVars
<1>31. ASSUME Reconnect PROVE TypeOK'
  BY <1>31, BoundAssumption DEF Reconnect, Links, TypeOK, dbVars, opVars, agentVars, netVars
<1>32. ASSUME AgentCrash PROVE TypeOK'
  <2>1. PICK kept \in 0..Len(wire[link.at]) : CutOff(kept)
    BY <1>32 DEF AgentCrash
  <2>2. wire' \in [Links -> Seq(Message)] /\ link' \in [at : Links, up : BOOLEAN]
    BY <2>1, CutOffType
  <2>3. crashes' \in 0..MaxCrashes
    BY <1>32, BoundAssumption DEF AgentCrash, TypeOK
  <2>4. runner' \in [Op -> RunnerPc] /\ job' \in [Op -> Job \cup {NoJob}]
    BY <1>32 DEF AgentCrash, RunnerPc, TypeOK
  <2>5. trouble' \in SUBSET Deploy
    BY <1>32 DEF AgentCrash, TypeOK
  <2> QED
    BY <1>32, <2>2, <2>3, <2>4, <2>5 DEF AgentCrash, TypeOK, dbVars
<1>33. ASSUME BackendCrash PROVE TypeOK'
  <2>1. crashes' \in 0..MaxCrashes
    BY <1>33, BoundAssumption DEF BackendCrash, TypeOK
  <2>2. pc' \in [Op -> Pc]
    BY <1>33 DEF BackendCrash, Pc, TypeOK
  <2>3. wire' \in [Links -> Seq(Message)] /\ reader' \in [Links -> Handling \cup {Idle}]
    BY <1>33 DEF BackendCrash
  <2>4. link' \in [at : Links, up : BOOLEAN] /\ trouble' \in SUBSET Deploy
    BY <1>33 DEF BackendCrash, TypeOK
  <2> QED
    BY <1>33, <2>1, <2>2, <2>3, <2>4 DEF BackendCrash, TypeOK, dbVars, agentVars
<1>34. CASE UNCHANGED vars
  BY <1>34 DEF vars, TypeOK
<1> QED
  BY <1>1, <1>2, <1>3, <1>4, <1>5, <1>6, <1>7, <1>8, <1>9, <1>10, <1>11, <1>12, <1>13, <1>14,
     <1>15, <1>16, <1>17, <1>18, <1>19, <1>20, <1>21, <1>22, <1>23, <1>24, <1>25, <1>26, <1>27,
     <1>28, <1>29, <1>30, <1>31, <1>32, <1>33, <1>34
  DEF Next, Request, Runner, Stopper, Reader

\* Every variable keeps its type, for any deploys, operations, connections and crashes.
THEOREM TypeCorrect == Spec => []TypeOK
  BY InitTypeOK, NextTypeOK, PTL DEF Spec

-----------------------------------------------------------------------------
(* A deleted deploy *)

Erased == [status |-> "deleted", log |-> {}, shown |-> NoRun]

\* A deploy exists, or has existed, from the moment an operation on it has begun; it is
\* created by one operation only, which has not begun while the deploy is absent.
RowInv ==
    /\ \A o \in Op : pc[o] = "idle" /\ KindOf[o] \in Creating => row[DeployOf[o]].status = "absent"
    /\ \A o \in Op : pc[o] # "idle" => row[DeployOf[o]].status # "absent"
    /\ \A d \in Deploy : row[d].status = "deleted" => row[d] = Erased

DeletedStays == \A d \in Deploy : row[d].status = "deleted" => row'[d] = row[d]

\* No handler that has begun becomes idle again, and none begins.
SamePhase == \A o \in Op : pc[o] = "idle" <=> pc'[o] = "idle"

LEMMA UnchangedRow ==
    ASSUME RowInv, UNCHANGED row, SamePhase
    PROVE  RowInv' /\ DeletedStays
  BY DEF RowInv, DeletedStays, SamePhase

\* UPDATE ... WHERE id = d touches only a row that is there, and leaves it there.
LEMMA UpdatedRow ==
    ASSUME TypeOK, RowInv, SamePhase, NEW d \in Deploy, NEW new,
           new.status \notin {"absent", "deleted"}, Updates(d, new)
    PROVE  RowInv' /\ DeletedStays
<1>1. CASE ~Present(d)
  BY <1>1, UnchangedRow DEF Updates
<1>2. CASE Present(d)
  <2>1. row' = [row EXCEPT ![d] = new]
    BY <1>2 DEF Updates
  <2>2. row'[d] = new /\ \A e \in Deploy \ {d} : row'[e] = row[e]
    BY <2>1 DEF TypeOK
  <2>3. row[d].status \notin {"absent", "deleted"}
    BY <1>2 DEF Present
  <2>4. DeletedStays
    BY <2>2, <2>3 DEF DeletedStays
  <2>5. RowInv'
    BY <2>2, <2>3, DeployAssumption DEF RowInv, SamePhase, Erased
  <2> QED
    BY <2>4, <2>5
<1> QED
  BY <1>1, <1>2

LEMMA InitRowInv == Init => RowInv
  BY DeployAssumption DEF Init, RowInv

LEMMA NextRowInv == TypeOK /\ RowInv /\ [Next]_vars => RowInv' /\ DeletedStays
<1> SUFFICES ASSUME TypeOK, RowInv, [Next]_vars PROVE RowInv' /\ DeletedStays
  OBVIOUS
<1>1. ASSUME NEW o \in Op, CreateDeploy(o) PROVE RowInv' /\ DeletedStays
  <2> DEFINE d == DeployOf[o]
  <2>1. d \in Deploy /\ pc[o] = "idle" /\ KindOf[o] \in Creating
    BY <1>1, DeployAssumption DEF CreateDeploy, FirstStatus, Begin
  <2>2. row[d].status = "absent" /\ row[d] \in Row
    BY <2>1 DEF RowInv, TypeOK
  <2>3. row'[d].status \in {"running", "pending"} /\ \A e \in Deploy \ {d} : row'[e] = row[e]
    BY <1>1, <2>1, <2>2 DEF CreateDeploy, FirstStatus, TypeOK, Row
  <2>4. pc' = [pc EXCEPT ![o] = "send"]
    BY <1>1 DEF CreateDeploy, FirstStatus, Begin
  <2>5. \A p \in Op : p # o => pc'[p] = pc[p]
    BY <2>4 DEF TypeOK
  <2>6. \A p \in Op : p # o /\ KindOf[p] \in Creating => DeployOf[p] # d
    BY <2>1, CreateAssumption
  <2>7. DeletedStays
    BY <2>2, <2>3 DEF DeletedStays
  <2>8. \A p \in Op : pc'[p] = "idle" /\ KindOf[p] \in Creating => row'[DeployOf[p]].status = "absent"
    <3> SUFFICES ASSUME NEW p \in Op, pc'[p] = "idle", KindOf[p] \in Creating
                 PROVE  row'[DeployOf[p]].status = "absent"
      OBVIOUS
    <3>1. p # o
      BY <2>4 DEF TypeOK
    <3>2. pc[p] = "idle" /\ DeployOf[p] \in Deploy \ {d}
      BY <3>1, <2>5, <2>6, DeployAssumption
    <3>3. row[DeployOf[p]].status = "absent"
      BY <3>2 DEF RowInv
    <3> QED
      BY <2>3, <3>2, <3>3
  <2>9. \A p \in Op : pc'[p] # "idle" => row'[DeployOf[p]].status # "absent"
    BY <2>3, <2>5, DeployAssumption DEF RowInv
  <2>10. \A e \in Deploy : row'[e].status = "deleted" => row'[e] = Erased
    BY <2>3 DEF RowInv
  <2> QED
    BY <2>7, <2>8, <2>9, <2>10 DEF RowInv
<1>2. ASSUME NEW o \in Op, LoadDeploy(o) PROVE RowInv' /\ DeletedStays
  BY <1>2 DEF LoadDeploy, Begin, Present, RowInv, DeletedStays, TypeOK, dbVars
<1>3. ASSUME NEW o \in Op, ResetDeploy(o) PROVE RowInv' /\ DeletedStays
  <2> DEFINE d == DeployOf[o]
             new == [row[d] EXCEPT !.status = "pending", !.log = {}]
  <2>1. d \in Deploy /\ row[d] \in Row
    BY DeployAssumption DEF TypeOK
  <2>2. new.status \notin {"absent", "deleted"}
    BY <2>1 DEF Row
  <2>3. Updates(d, new)
    BY <1>3 DEF ResetDeploy
  <2>4. SamePhase
    BY <1>3 DEF ResetDeploy, Goto, SamePhase, TypeOK
  <2> HIDE DEF d, new
  <2> QED
    BY <2>1, <2>2, <2>3, <2>4, UpdatedRow
<1>4. ASSUME NEW o \in Op, MarkFailed(o) PROVE RowInv' /\ DeletedStays
  <2> DEFINE d == DeployOf[o]
             new == [row[d] EXCEPT !.status = "failed",
                                !.log = IF KindOf[o] = "legacy" THEN @ ELSE {}]
  <2>1. d \in Deploy /\ row[d] \in Row
    BY DeployAssumption DEF TypeOK
  <2>2. new.status \notin {"absent", "deleted"}
    BY <2>1 DEF Row
  <2>3. Updates(d, new)
    BY <1>4 DEF MarkFailed
  <2>4. SamePhase
    BY <1>4 DEF MarkFailed, Goto, SamePhase, TypeOK
  <2> HIDE DEF d, new
  <2> QED
    BY <2>1, <2>2, <2>3, <2>4, UpdatedRow
<1>5. ASSUME NEW o \in Op, MarkStopped(o) PROVE RowInv' /\ DeletedStays
  <2> DEFINE d == DeployOf[o]
             new == [row[d] EXCEPT !.status = "stopped"]
  <2>1. d \in Deploy /\ row[d] \in Row
    BY DeployAssumption DEF TypeOK
  <2>2. new.status \notin {"absent", "deleted"}
    BY <2>1 DEF Row
  <2>3. Updates(d, new)
    BY <1>5 DEF MarkStopped
  <2>4. SamePhase
    BY <1>5 DEF MarkStopped, Goto, SamePhase, TypeOK
  <2> HIDE DEF d, new
  <2> QED
    BY <2>1, <2>2, <2>3, <2>4, UpdatedRow
<1>6. ASSUME NEW o \in Op, EraseDeploy(o) PROVE RowInv' /\ DeletedStays
  <2> DEFINE d == DeployOf[o]
  <2>1. d \in Deploy
    BY DeployAssumption
  <2>2. row'[d] = Erased /\ \A e \in Deploy \ {d} : row'[e] = row[e]
    BY <1>6, <2>1 DEF EraseDeploy, Erased, TypeOK
  <2>3. row[d].status # "absent"
    BY <1>6 DEF EraseDeploy, RowInv
  <2>4. SamePhase
    BY <1>6 DEF EraseDeploy, Goto, SamePhase, TypeOK
  <2>5. Erased.status = "deleted"
    BY DEF Erased
  <2>6. DeletedStays
    BY <2>2 DEF DeletedStays, RowInv
  <2>7. RowInv'
    BY <2>2, <2>3, <2>4, <2>5, DeployAssumption DEF RowInv, SamePhase
  <2> QED
    BY <2>6, <2>7
<1>7. ASSUME NEW o \in Op, SecretUnresolved(o) PROVE RowInv' /\ DeletedStays
  <2>1. SamePhase
    BY <1>7 DEF SecretUnresolved, Goto, SamePhase, TypeOK
  <2> QED
    BY <1>7, <2>1, UnchangedRow DEF SecretUnresolved, dbVars
<1>8. ASSUME NEW o \in Op, Send(o) PROVE RowInv' /\ DeletedStays
  <2>1. SamePhase
    BY <1>8 DEF Send, Goto, SamePhase, TypeOK
  <2> QED
    BY <1>8, <2>1, UnchangedRow DEF Send, dbVars
<1>9. ASSUME NEW o \in Op, RequestAnswered(o) PROVE RowInv' /\ DeletedStays
  <2>1. SamePhase
    BY <1>9 DEF RequestAnswered, OnError, Goto, SamePhase, TypeOK
  <2> QED
    BY <1>9, <2>1, UnchangedRow DEF RequestAnswered, dbVars
<1>10. ASSUME NEW o \in Op, RequestFails(o) PROVE RowInv' /\ DeletedStays
  <2>1. SamePhase
    BY <1>10 DEF RequestFails, OnError, Goto, SamePhase, TypeOK
  <2> QED
    BY <1>10, <2>1, UnchangedRow DEF RequestFails, dbVars
<1>11. ASSUME NEW g \in Links, ApplyLog(g) PROVE RowInv' /\ DeletedStays
  <2> DEFINE m == reader[g].msg
             d == DeployOf[m.run]
             new == [row[d] EXCEPT !.status = "building", !.log = reader[g].log \cup {m.run}]
  <2>1. reader[g] \in Handling
    BY <1>11, ReaderType DEF ApplyLog
  <2>2. m \in Message /\ d \in Deploy /\ row[d] \in Row
    BY <2>1, DeployAssumption DEF Handling, Message, TypeOK
  <2>3. new.status \notin {"absent", "deleted"}
    BY <2>2 DEF Row
  <2>4. Updates(d, new)
    BY <1>11 DEF ApplyLog
  <2>5. SamePhase
    BY <1>11 DEF ApplyLog, SamePhase, opVars
  <2> HIDE DEF m, d, new
  <2> QED
    BY <2>2, <2>3, <2>4, <2>5, UpdatedRow
<1>12. ASSUME NEW g \in Links, ApplyResult(g) PROVE RowInv' /\ DeletedStays
  <2> DEFINE m == reader[g].msg
             d == DeployOf[m.run]
             new == [status |-> IF m.ok THEN "running" ELSE "failed",
                     log |-> FinalLog(m, reader[g].log),
                     shown |-> IF m.ok THEN m.run ELSE NoRun]
  <2>1. reader[g] \in Handling
    BY <1>12, ReaderType DEF ApplyResult
  <2>2. m \in Message /\ d \in Deploy /\ row[d] \in Row
    BY <2>1, DeployAssumption DEF Handling, Message, TypeOK
  <2>3. new.status \notin {"absent", "deleted"}
    BY <2>2 DEF Row
  <2>4. Updates(d, new)
    BY <1>12 DEF ApplyResult
  <2>5. SamePhase
    BY <1>12 DEF ApplyResult, SamePhase, opVars
  <2> HIDE DEF m, d, new
  <2> QED
    BY <2>2, <2>3, <2>4, <2>5, UpdatedRow
<1>13. ASSUME BackendCrash PROVE RowInv' /\ DeletedStays
  <2>1. SamePhase
    BY <1>13 DEF BackendCrash, SamePhase, TypeOK
  <2> QED
    BY <1>13, <2>1, UnchangedRow DEF BackendCrash, dbVars
<1>14. CASE \/ \E o \in Op : \/ StartRun(o) \/ LogLine(o) \/ BuildDone(o) \/ RunFails(o) \/ StopOld(o) \/ RemoveOld(o) \/ RunContainer(o)
            \/ \E o \in Op : \/ SendResult(o) \/ SendComplete(o) \/ StartStop(o) \/ StopContainer(o) \/ RemoveContainer(o) \/ CleanupFails(o) \/ AnswerStop(o)
            \/ \E d \in Deploy : ContainerExits(d)
            \/ \E g \in Links : ReadLog(g) \/ ReadResult(g)
            \/ LoseLink \/ Reconnect \/ AgentCrash
            \/ UNCHANGED vars
  <2>1. UNCHANGED <<row, pc>>
    BY <1>14 DEF StartRun, LogLine, BuildDone, RunFails, StopOld, RemoveOld, RunContainer, SendResult,
       SendComplete, StartStop, StopContainer, RemoveContainer, CleanupFails, AnswerStop, ContainerExits, ReadLog, ReadResult,
       LoseLink, Reconnect, AgentCrash, vars, dbVars, opVars
  <2> QED
    BY <2>1, UnchangedRow DEF SamePhase
<1> QED
  BY <1>1, <1>2, <1>3, <1>4, <1>5, <1>6, <1>7, <1>8, <1>9, <1>10, <1>11, <1>12, <1>13, <1>14
  DEF Next, Request, Runner, Stopper, Reader

\* Nothing that arrives late brings a deleted deploy back, whatever crashes and interleaves.
THEOREM DeletedStaysDeleted == Spec => DeletedForever
<1>1. Spec => [](TypeOK /\ RowInv)
  <2>1. Init => TypeOK /\ RowInv
    BY InitTypeOK, InitRowInv
  <2>2. TypeOK /\ RowInv /\ [Next]_vars => (TypeOK /\ RowInv)'
    BY NextTypeOK, NextRowInv
  <2> QED
    BY <2>1, <2>2, PTL DEF Spec
<1>2. TypeOK /\ RowInv /\ [Next]_vars => [DeletedStays]_vars
  BY NextRowInv
<1>3. Spec => [][DeletedStays]_vars
  BY <1>1, <1>2, PTL DEF Spec
<1> QED
  BY <1>3 DEF DeletedForever, DeletedStays

-----------------------------------------------------------------------------
(* The address in a row *)

Honest(m) == m.ok => m.run \in won

\* Every message under way, every message in hand and every address tell of a run that started.
OutcomeInv ==
    /\ \A g \in Links : \A i \in 1..Len(wire[g]) : Honest(wire[g][i])
    /\ \A g \in Links : reader[g] # Idle => Honest(reader[g].msg)
    /\ ShownRunStarted

LEMMA InitOutcomeInv == Init => OutcomeInv
  BY DEF Init, OutcomeInv, ShownRunStarted

\* A run that has started has always started.
LEMMA MoreWon ==
    ASSUME OutcomeInv, UNCHANGED <<row, wire, reader>>, won \subseteq won'
    PROVE  OutcomeInv'
  BY DEF OutcomeInv, Honest, ShownRunStarted

\* A message that is sent says what docker said.
LEMMA HonestReport ==
    ASSUME TypeOK, OutcomeInv, NEW o \in Op, NEW kind, Report(o, kind),
           UNCHANGED <<row, reader, won>>
    PROVE  OutcomeInv'
<1> DEFINE m == [kind |-> kind, run |-> o, ok |-> o \in won]
<1>1. Honest(m)
  BY DEF Honest
<1>2. CASE wire' = wire
  BY <1>2 DEF OutcomeInv, Honest, ShownRunStarted
<1>3. CASE wire' = [wire EXCEPT ![link.at] = Append(@, m)]
  <2>1. ASSUME NEW g \in Links, NEW i \in 1..Len(wire'[g]) PROVE Honest(wire'[g][i])
    <3>1. wire[g] \in Seq(Message)
      BY DEF TypeOK
    <3>2. CASE g # link.at
      <4>1. wire'[g] = wire[g]
        BY <1>3, <3>2 DEF TypeOK
      <4> QED
        BY <2>1, <4>1 DEF OutcomeInv
    <3>3. CASE g = link.at
      <4> HIDE DEF m
      <4>1. wire'[g] = Append(wire[g], m)
        BY <1>3, <3>3 DEF TypeOK
      <4>2. i \in 1..(Len(wire[g]) + 1)
        BY <2>1, <3>1, <4>1
      <4>3. wire'[g][i] = IF i = Len(wire[g]) + 1 THEN m ELSE wire[g][i]
        BY <3>1, <4>1, <4>2
      <4>4. i # Len(wire[g]) + 1 => i \in 1..Len(wire[g])
        BY <3>1, <4>2
      <4> QED
        BY <1>1, <4>3, <4>4 DEF OutcomeInv
    <3> QED
      BY <3>2, <3>3
  <2>2. \A g \in Links : \A i \in 1..Len(wire'[g]) : (Honest(wire[g][i]))'
    BY <2>1 DEF Honest
  <2> QED
    BY <2>2 DEF OutcomeInv, Honest, ShownRunStarted
<1> QED
  BY <1>2, <1>3 DEF Report

\* A message that is taken from the queue is in hand, or of no consequence.
LEMMA HonestReading ==
    ASSUME TypeOK, OutcomeInv, NEW g \in Links, wire[g] # <<>>,
           wire' = [wire EXCEPT ![g] = Tail(@)],
           \A h \in Links : reader'[h] # reader[h] => reader'[h].msg = Head(wire[g]),
           UNCHANGED <<row, won>>
    PROVE  OutcomeInv'
<1>1. wire[g] \in Seq(Message)
  BY DEF TypeOK
<1>2. Head(wire[g]) = wire[g][1] /\ 1 \in 1..Len(wire[g])
  BY <1>1
<1>3. Honest(Head(wire[g]))
  BY <1>2 DEF OutcomeInv
<1>4. \A h \in Links : reader'[h] # Idle => Honest(reader'[h].msg)
  BY <1>3 DEF OutcomeInv, Honest
<1>5. ASSUME NEW h \in Links, NEW i \in 1..Len(wire'[h]) PROVE Honest(wire'[h][i])
  <2>1. CASE h # g
    BY <1>5, <2>1 DEF OutcomeInv, TypeOK
  <2>2. CASE h = g
    <3>1. wire'[h] = Tail(wire[g])
      BY <2>2 DEF TypeOK
    <3>2. Len(Tail(wire[g])) = Len(wire[g]) - 1 /\ Len(wire[g]) \in Nat
      BY <1>1, <1>2
    <3>3. i \in 1..(Len(wire[g]) - 1)
      BY <1>5, <2>2, <3>1, <3>2
    <3>4. i + 1 \in 1..Len(wire[g])
      BY <3>2, <3>3
    <3>5. Tail(wire[g])[i] = wire[g][i + 1]
      BY <1>1, <1>2, <3>2, <3>3
    <3> QED
      BY <3>1, <3>4, <3>5 DEF OutcomeInv
  <2> QED
    BY <2>1, <2>2
<1> QED
  BY <1>4, <1>5 DEF OutcomeInv, Honest, ShownRunStarted

\* Of a queue that is cut off, the rest is a beginning.
LEMMA HonestCutOff ==
    ASSUME TypeOK, OutcomeInv, NEW kept \in 0..Len(wire[link.at]), CutOff(kept),
           UNCHANGED <<row, reader, won>>
    PROVE  OutcomeInv'
<1>1. link.at \in Links /\ wire[link.at] \in Seq(Message)
  BY DEF TypeOK
<1>2. wire' = [wire EXCEPT ![link.at] = SubSeq(@, 1, kept)]
  BY DEF CutOff
<1>3. ASSUME NEW h \in Links, NEW i \in 1..Len(wire'[h]) PROVE Honest(wire'[h][i])
  <2>1. CASE h # link.at
    BY <1>2, <1>3, <2>1 DEF OutcomeInv, TypeOK
  <2>2. CASE h = link.at
    <3>1. wire'[h] = SubSeq(wire[h], 1, kept)
      BY <1>1, <1>2, <2>2 DEF TypeOK
    <3>2. i \in 1..Len(wire[h]) /\ wire'[h][i] = wire[h][i]
      BY <1>1, <1>3, <2>2, <3>1
    <3> QED
      BY <3>2 DEF OutcomeInv
  <2> QED
    BY <2>1, <2>2
<1> QED
  BY <1>3 DEF OutcomeInv, Honest, ShownRunStarted

\* An update of a row leaves its address, removes it, or writes one that is honest.
LEMMA HonestUpdate ==
    ASSUME OutcomeInv, \A e \in Deploy : row'[e].shown \in {row[e].shown, NoRun} \cup won,
           UNCHANGED <<wire, won>>, \A g \in Links : reader'[g] \in {Idle, reader[g]}
    PROVE  OutcomeInv'
<1>1. ShownRunStarted'
  BY DEF OutcomeInv, ShownRunStarted
<1> QED
  BY <1>1 DEF OutcomeInv, Honest

LEMMA NextOutcomeInv == TypeOK /\ OutcomeInv /\ [Next]_vars => OutcomeInv'
<1> SUFFICES ASSUME TypeOK, OutcomeInv, [Next]_vars PROVE OutcomeInv'
  OBVIOUS
<1>1. ASSUME NEW o \in Op, CreateDeploy(o) PROVE OutcomeInv'
  <2> DEFINE d == DeployOf[o]
             s == IF KindOf[o] = "legacy" THEN "running" ELSE "pending"
             new == [row[d] EXCEPT !.status = s]
  <2>1. d \in Deploy /\ row[d] \in Row
    BY DeployAssumption DEF TypeOK
  <2>2. new.shown = row[d].shown
    BY <2>1 DEF Row
  <2>3. row' = [row EXCEPT ![d] = new]
    BY <1>1 DEF CreateDeploy, FirstStatus
  <2> HIDE DEF d, new
  <2>4. \A e \in Deploy : row'[e].shown \in {row[e].shown, NoRun} \cup won
    BY <2>1, <2>2, <2>3 DEF TypeOK
  <2>5. UNCHANGED <<wire, won>> /\ \A g \in Links : reader'[g] = reader[g]
    BY <1>1 DEF CreateDeploy, FirstStatus, agentVars, netVars
  <2> QED
    BY <2>4, <2>5, HonestUpdate
<1>2. ASSUME NEW o \in Op, ResetDeploy(o) PROVE OutcomeInv'
  <2> DEFINE d == DeployOf[o]
             new == [row[d] EXCEPT !.status = "pending", !.log = {}]
  <2>1. d \in Deploy /\ row[d] \in Row
    BY DeployAssumption DEF TypeOK
  <2>2. new.shown = row[d].shown
    BY <2>1 DEF Row
  <2>3. row' \in {row, [row EXCEPT ![d] = new]}
    BY <1>2 DEF ResetDeploy, Updates
  <2> HIDE DEF d, new
  <2>4. \A e \in Deploy : row'[e].shown \in {row[e].shown, NoRun} \cup won
    BY <2>1, <2>2, <2>3 DEF TypeOK
  <2>5. UNCHANGED <<wire, won>> /\ \A g \in Links : reader'[g] = reader[g]
    BY <1>2 DEF ResetDeploy, agentVars, netVars
  <2> QED
    BY <2>4, <2>5, HonestUpdate
<1>3. ASSUME NEW o \in Op, MarkFailed(o) PROVE OutcomeInv'
  <2> DEFINE d == DeployOf[o]
             new == [row[d] EXCEPT !.status = "failed",
                                !.log = IF KindOf[o] = "legacy" THEN @ ELSE {}]
  <2>1. d \in Deploy /\ row[d] \in Row
    BY DeployAssumption DEF TypeOK
  <2>2. new.shown = row[d].shown
    BY <2>1 DEF Row
  <2>3. row' \in {row, [row EXCEPT ![d] = new]}
    BY <1>3 DEF MarkFailed, Updates
  <2> HIDE DEF d, new
  <2>4. \A e \in Deploy : row'[e].shown \in {row[e].shown, NoRun} \cup won
    BY <2>1, <2>2, <2>3 DEF TypeOK
  <2>5. UNCHANGED <<wire, won>> /\ \A g \in Links : reader'[g] = reader[g]
    BY <1>3 DEF MarkFailed, agentVars, netVars
  <2> QED
    BY <2>4, <2>5, HonestUpdate
<1>4. ASSUME NEW o \in Op, MarkStopped(o) PROVE OutcomeInv'
  <2> DEFINE d == DeployOf[o]
             new == [row[d] EXCEPT !.status = "stopped"]
  <2>1. d \in Deploy /\ row[d] \in Row
    BY DeployAssumption DEF TypeOK
  <2>2. new.shown = row[d].shown
    BY <2>1 DEF Row
  <2>3. row' \in {row, [row EXCEPT ![d] = new]}
    BY <1>4 DEF MarkStopped, Updates
  <2> HIDE DEF d, new
  <2>4. \A e \in Deploy : row'[e].shown \in {row[e].shown, NoRun} \cup won
    BY <2>1, <2>2, <2>3 DEF TypeOK
  <2>5. UNCHANGED <<wire, won>> /\ \A g \in Links : reader'[g] = reader[g]
    BY <1>4 DEF MarkStopped, agentVars, netVars
  <2> QED
    BY <2>4, <2>5, HonestUpdate
<1>5. ASSUME NEW o \in Op, EraseDeploy(o) PROVE OutcomeInv'
  <2>1. DeployOf[o] \in Deploy
    BY DeployAssumption
  <2>2. row' = [row EXCEPT ![DeployOf[o]] = Erased]
    BY <1>5 DEF EraseDeploy, Erased
  <2>3. Erased.shown = NoRun
    BY DEF Erased
  <2>4. \A e \in Deploy : row'[e].shown \in {row[e].shown, NoRun} \cup won
    BY <2>1, <2>2, <2>3 DEF TypeOK
  <2>5. UNCHANGED <<wire, won>> /\ \A g \in Links : reader'[g] = reader[g]
    BY <1>5 DEF EraseDeploy, agentVars, netVars
  <2> QED
    BY <2>4, <2>5, HonestUpdate
<1>6. ASSUME NEW o \in Op, LogLine(o) PROVE OutcomeInv'
  BY <1>6, HonestReport DEF LogLine, dbVars
<1>7. ASSUME NEW o \in Op, SendResult(o) PROVE OutcomeInv'
  BY <1>7, HonestReport DEF SendResult, dbVars
<1>8. ASSUME NEW o \in Op, SendComplete(o) PROVE OutcomeInv'
  BY <1>8, HonestReport DEF SendComplete, dbVars
<1>9. ASSUME NEW o \in Op, RunContainer(o) PROVE OutcomeInv'
  <2>1. UNCHANGED <<row, wire, reader>> /\ won \subseteq won'
    BY <1>9 DEF RunContainer, dbVars, netVars
  <2> QED
    BY <2>1, MoreWon
<1>10. ASSUME NEW g \in Links, ReadLog(g) PROVE OutcomeInv'
  <2>1. \A h \in Links : reader'[h] # reader[h] => reader'[h].msg = Head(wire[g])
    BY <1>10 DEF ReadLog, TypeOK
  <2>2. UNCHANGED <<row, won>>
    BY <1>10 DEF ReadLog, agentVars
  <2>3. wire[g] # <<>> /\ wire' = [wire EXCEPT ![g] = Tail(@)]
    BY <1>10 DEF ReadLog
  <2> QED
    BY <2>1, <2>2, <2>3, HonestReading
<1>11. ASSUME NEW g \in Links, ReadResult(g) PROVE OutcomeInv'
  <2>1. \A h \in Links : reader'[h] # reader[h] => reader'[h].msg = Head(wire[g])
    BY <1>11 DEF ReadResult, TypeOK
  <2>2. UNCHANGED <<row, won>>
    BY <1>11 DEF ReadResult, agentVars, dbVars
  <2>3. wire[g] # <<>> /\ wire' = [wire EXCEPT ![g] = Tail(@)]
    BY <1>11 DEF ReadResult
  <2> QED
    BY <2>1, <2>2, <2>3, HonestReading
<1>12. ASSUME NEW g \in Links, ApplyLog(g) PROVE OutcomeInv'
  <2> DEFINE m == reader[g].msg
             d == DeployOf[m.run]
             new == [row[d] EXCEPT !.status = "building", !.log = reader[g].log \cup {m.run}]
  <2>1. reader[g] \in Handling
    BY <1>12, ReaderType DEF ApplyLog
  <2>2. d \in Deploy /\ row[d] \in Row
    BY <2>1, DeployAssumption DEF Handling, Message, TypeOK
  <2>3. new.shown = row[d].shown
    BY <2>2 DEF Row
  <2>4. row' \in {row, [row EXCEPT ![d] = new]}
    BY <1>12 DEF ApplyLog, Updates
  <2>5. \A h \in Links : reader'[h] \in {Idle, reader[h]}
    BY <1>12 DEF ApplyLog, TypeOK
  <2> HIDE DEF m, d, new
  <2>6. \A e \in Deploy : row'[e].shown \in {row[e].shown, NoRun} \cup won
    BY <2>2, <2>3, <2>4 DEF TypeOK
  <2>7. UNCHANGED <<wire, won>>
    BY <1>12 DEF ApplyLog, agentVars
  <2> QED
    BY <2>5, <2>6, <2>7, HonestUpdate
<1>13. ASSUME NEW g \in Links, ApplyResult(g) PROVE OutcomeInv'
  <2> DEFINE m == reader[g].msg
             d == DeployOf[m.run]
             new == [status |-> IF m.ok THEN "running" ELSE "failed",
                     log |-> FinalLog(m, reader[g].log),
                     shown |-> IF m.ok THEN m.run ELSE NoRun]
  <2>1. reader[g] \in Handling
    BY <1>13, ReaderType DEF ApplyResult
  <2>2. d \in Deploy /\ m \in Message
    BY <2>1, DeployAssumption DEF Handling, Message
  <2>3. new.shown # NoRun => new.shown \in won
    BY <1>13, <2>2 DEF ApplyResult, OutcomeInv, Honest
  <2>4. row' \in {row, [row EXCEPT ![d] = new]}
    BY <1>13 DEF ApplyResult, Updates
  <2>5. \A h \in Links : reader'[h] \in {Idle, reader[h]}
    BY <1>13 DEF ApplyResult, TypeOK
  <2> HIDE DEF m, d, new
  <2>6. \A e \in Deploy : row'[e].shown \in {row[e].shown, NoRun} \cup won
    BY <2>2, <2>3, <2>4 DEF TypeOK
  <2>7. UNCHANGED <<wire, won>>
    BY <1>13 DEF ApplyResult, agentVars
  <2> QED
    BY <2>5, <2>6, <2>7, HonestUpdate
<1>14. ASSUME LoseLink PROVE OutcomeInv'
  BY <1>14, HonestCutOff DEF LoseLink, dbVars, agentVars
<1>15. ASSUME AgentCrash PROVE OutcomeInv'
  BY <1>15, HonestCutOff DEF AgentCrash, dbVars
<1>16. ASSUME BackendCrash PROVE OutcomeInv'
  BY <1>16 DEF BackendCrash, OutcomeInv, Honest, ShownRunStarted, dbVars, agentVars
<1>17. CASE \/ \E o \in Op : LoadDeploy(o) \/ SecretUnresolved(o) \/ Send(o) \/ RequestAnswered(o) \/ RequestFails(o)
            \/ \E o \in Op : StartRun(o) \/ BuildDone(o) \/ RunFails(o) \/ StopOld(o) \/ RemoveOld(o)
            \/ \E o \in Op : StartStop(o) \/ StopContainer(o) \/ RemoveContainer(o) \/ CleanupFails(o) \/ AnswerStop(o)
            \/ \E d \in Deploy : ContainerExits(d)
            \/ Reconnect
            \/ UNCHANGED vars
  <2>1. UNCHANGED <<row, wire, reader, won>>
    BY <1>17 DEF LoadDeploy, SecretUnresolved, Send, RequestAnswered, RequestFails, StartRun, BuildDone, RunFails, StopOld, RemoveOld,
       StartStop, StopContainer, RemoveContainer, CleanupFails, AnswerStop, ContainerExits, Reconnect,
       vars, dbVars, opVars, agentVars, netVars
  <2> QED
    BY <2>1, MoreWon
<1> QED
  BY <1>1, <1>2, <1>3, <1>4, <1>5, <1>6, <1>7, <1>8, <1>9, <1>10, <1>11, <1>12, <1>13, <1>14, <1>15, <1>16, <1>17
  DEF Next, Request, Runner, Stopper, Reader

\* The address in a row is that of a run whose docker run succeeded.
THEOREM ShownRunCorrect == Spec => []ShownRunStarted
<1>1. Init => TypeOK /\ OutcomeInv
  BY InitTypeOK, InitOutcomeInv
<1>2. TypeOK /\ OutcomeInv /\ [Next]_vars => (TypeOK /\ OutcomeInv)'
  BY NextTypeOK, NextOutcomeInv
<1>3. TypeOK /\ OutcomeInv => ShownRunStarted
  BY DEF OutcomeInv
<1> QED
  BY <1>1, <1>2, <1>3, PTL DEF Spec
-----------------------------------------------------------------------------
(* The row and docker: what is under way *)

\* The messages of a queue, and what the backend has not applied of a connection.
Queue(s) == {s[i] : i \in 1..Len(s)}
NewsOf(g) == Queue(wire[g]) \cup (IF reader[g] = Idle THEN {} ELSE {reader[g].msg})
Pending(g, o) == \E m \in NewsOf(g) : m.run = o

\* The completion of a run comes after all the rest of it.
Completes(m, o) == m.kind = "complete" /\ m.run = o
EndsIn(s, o) == \E i \in 1..Len(s) : Completes(s[i], o) /\ \A j \in (i + 1)..Len(s) : s[j].run # o
Closing(g, o) ==
    \/ EndsIn(wire[g], o)
    \/ reader[g] # Idle /\ Completes(reader[g].msg, o) /\ \A m \in Queue(wire[g]) : m.run # o

LEMMA QueueAppend ==
    ASSUME NEW s \in Seq(Message), NEW m
    PROVE  Queue(Append(s, m)) = Queue(s) \cup {m}
<1>1. Len(Append(s, m)) = Len(s) + 1 /\ Len(s) \in Nat
  OBVIOUS
<1>2. \A i \in 1..Len(s) : Append(s, m)[i] = s[i]
  OBVIOUS
<1>3. Append(s, m)[Len(s) + 1] = m
  OBVIOUS
<1>4. \A i \in 1..(Len(s) + 1) : i \in 1..Len(s) \/ i = Len(s) + 1
  BY <1>1
<1>5. Queue(Append(s, m)) \subseteq Queue(s) \cup {m}
  BY <1>1, <1>2, <1>3, <1>4 DEF Queue
<1>6. \A i \in 1..Len(s) : i \in 1..Len(Append(s, m))
  BY <1>1
<1>7. Len(s) + 1 \in 1..Len(Append(s, m))
  BY <1>1
<1> QED
  BY <1>2, <1>3, <1>5, <1>6, <1>7 DEF Queue

LEMMA QueueTail ==
    ASSUME NEW s \in Seq(Message), s # <<>>
    PROVE  /\ Len(Tail(s)) = Len(s) - 1 /\ Len(s) \in Nat \ {0}
           /\ Head(s) = s[1]
           /\ \A i \in 1..(Len(s) - 1) : Tail(s)[i] = s[i + 1]
           /\ Queue(s) = {Head(s)} \cup Queue(Tail(s))
<1>1. Len(Tail(s)) = Len(s) - 1 /\ Len(s) \in Nat \ {0}
  OBVIOUS
<1>2. Head(s) = s[1]
  OBVIOUS
<1>3. \A i \in 1..(Len(s) - 1) : Tail(s)[i] = s[i + 1]
  OBVIOUS
<1>4. Queue(s) \subseteq {Head(s)} \cup Queue(Tail(s))
  <2> SUFFICES ASSUME NEW i \in 1..Len(s) PROVE s[i] \in {Head(s)} \cup Queue(Tail(s))
    BY DEF Queue
  <2>1. CASE i = 1
    BY <1>2, <2>1
  <2>2. CASE i # 1
    <3>1. i - 1 \in 1..(Len(s) - 1) /\ (i - 1) + 1 = i
      BY <1>1, <2>2
    <3>2. Tail(s)[i - 1] = s[i]
      BY <1>3, <3>1
    <3> QED
      BY <1>1, <3>1, <3>2 DEF Queue
  <2> QED
    BY <2>1, <2>2
<1>5. Queue(Tail(s)) \subseteq Queue(s)
  <2> SUFFICES ASSUME NEW i \in 1..(Len(s) - 1) PROVE Tail(s)[i] \in Queue(s)
    BY <1>1 DEF Queue
  <2>1. i + 1 \in 1..Len(s)
    BY <1>1
  <2> QED
    BY <1>3, <2>1 DEF Queue
<1>6. Head(s) \in Queue(s)
  BY <1>1, <1>2 DEF Queue
<1> QED
  BY <1>1, <1>2, <1>3, <1>4, <1>5, <1>6

LEMMA QueueCut ==
    ASSUME NEW s \in Seq(Message), NEW k \in 0..Len(s)
    PROVE  /\ Len(SubSeq(s, 1, k)) = k
           /\ \A i \in 1..k : i \in 1..Len(s) /\ SubSeq(s, 1, k)[i] = s[i]
           /\ Queue(SubSeq(s, 1, k)) \subseteq Queue(s)
<1>1. Len(SubSeq(s, 1, k)) = k
  OBVIOUS
<1>2. \A i \in 1..k : i \in 1..Len(s) /\ SubSeq(s, 1, k)[i] = s[i]
  OBVIOUS
<1> QED
  BY <1>1, <1>2 DEF Queue

\* A run that ends in a queue is in it.
LEMMA EndsQueue ==
    ASSUME NEW s, NEW o, EndsIn(s, o)
    PROVE  \E m \in Queue(s) : Completes(m, o)
  BY DEF EndsIn, Queue

\* A run ends with its completion, and what others send after it changes nothing.
LEMMA EndsAppend ==
    ASSUME NEW s \in Seq(Message), NEW m, NEW o, (m.run # o /\ EndsIn(s, o)) \/ Completes(m, o)
    PROVE  EndsIn(Append(s, m), o)
<1> DEFINE t == Append(s, m)
<1>1. Len(t) = Len(s) + 1 /\ Len(s) \in Nat
  OBVIOUS
<1>2. \A i \in 1..Len(s) : t[i] = s[i]
  OBVIOUS
<1>3. t[Len(s) + 1] = m
  OBVIOUS
<1> HIDE DEF t
<1>4. CASE Completes(m, o)
  <2>1. Len(s) + 1 \in 1..Len(t) /\ \A j \in (Len(s) + 2)..Len(t) : FALSE
    BY <1>1
  <2> QED
    BY <1>3, <1>4, <2>1 DEF EndsIn, t
<1>5. CASE m.run # o /\ EndsIn(s, o)
  <2>1. PICK i \in 1..Len(s) : Completes(s[i], o) /\ \A j \in (i + 1)..Len(s) : s[j].run # o
    BY <1>5 DEF EndsIn
  <2>2. i \in 1..Len(t) /\ Completes(t[i], o)
    BY <1>1, <1>2, <2>1
  <2>3. ASSUME NEW j \in (i + 1)..Len(t) PROVE t[j].run # o
    <3>1. (j \in (i + 1)..Len(s) /\ j \in 1..Len(s)) \/ j = Len(s) + 1
      BY <1>1, <2>1
    <3> QED
      BY <1>2, <1>3, <1>5, <2>1, <3>1
  <2> QED
    BY <2>2, <2>3 DEF EndsIn, t
<1> QED
  BY <1>4, <1>5

\* When the head is read the run still ends in the queue, or the head was the end.
LEMMA EndsTail ==
    ASSUME NEW s \in Seq(Message), s # <<>>, NEW o, EndsIn(s, o)
    PROVE  EndsIn(Tail(s), o) \/ (Completes(Head(s), o) /\ \A m \in Queue(Tail(s)) : m.run # o)
<1>1. PICK i \in 1..Len(s) : Completes(s[i], o) /\ \A j \in (i + 1)..Len(s) : s[j].run # o
  BY DEF EndsIn
<1> DEFINE t == Tail(s)
           n == Len(s)
<1>2. Len(t) = n - 1 /\ n \in Nat \ {0} /\ Head(s) = s[1] /\ \A j \in 1..(n - 1) : t[j] = s[j + 1]
  BY QueueTail
<1> HIDE DEF t, n
<1>3. CASE i = 1
  <2>1. ASSUME NEW j \in 1..Len(t) PROVE t[j].run # o
    <3>1. j + 1 \in (i + 1)..n /\ j \in 1..(n - 1)
      BY <1>2, <1>3
    <3> QED
      BY <1>1, <1>2, <3>1 DEF n
  <2>2. \A m \in Queue(t) : m.run # o
    BY <2>1 DEF Queue
  <2> QED
    BY <1>1, <1>2, <1>3, <2>2 DEF t
<1>4. CASE i # 1
  <2>1. i - 1 \in 1..(n - 1) /\ (i - 1) + 1 = i
    BY <1>1, <1>2, <1>4 DEF n
  <2>2. Completes(t[i - 1], o)
    BY <1>1, <1>2, <2>1
  <2>3. ASSUME NEW j \in ((i - 1) + 1)..Len(t) PROVE t[j].run # o
    <3>1. j \in 1..(n - 1) /\ j + 1 \in (i + 1)..n
      BY <1>2, <2>1
    <3> QED
      BY <1>1, <1>2, <3>1 DEF n
  <2> QED
    BY <1>2, <2>1, <2>2, <2>3 DEF EndsIn, t
<1> QED
  BY <1>3, <1>4

\* When the queue is cut off the run still ends in it, or its completion is lost.
LEMMA EndsCut ==
    ASSUME NEW s \in Seq(Message), NEW k \in 0..Len(s), NEW o, EndsIn(s, o)
    PROVE  EndsIn(SubSeq(s, 1, k), o) \/ \E i \in (k + 1)..Len(s) : Completes(s[i], o)
<1>1. PICK i \in 1..Len(s) : Completes(s[i], o) /\ \A j \in (i + 1)..Len(s) : s[j].run # o
  BY DEF EndsIn
<1> DEFINE t == SubSeq(s, 1, k)
<1>2. Len(t) = k /\ \A j \in 1..k : j \in 1..Len(s) /\ t[j] = s[j]
  BY QueueCut
<1>3. k \in Nat /\ Len(s) \in Nat
  OBVIOUS
<1> HIDE DEF t
<1>4. CASE i <= k
  <2>1. i \in 1..k
    BY <1>1, <1>3, <1>4
  <2>2. \A j \in (i + 1)..k : j \in 1..k /\ j \in (i + 1)..Len(s)
    BY <1>1, <1>3
  <2> QED
    BY <1>1, <1>2, <2>1, <2>2 DEF EndsIn, t
<1>5. CASE i > k
  BY <1>1, <1>3, <1>5
<1> QED
  BY <1>1, <1>3, <1>4, <1>5

\* What a step leaves alone of an operation, and of its messages.
SameOp(p) ==
    /\ pc'[p] = pc[p] /\ reply'[p] = reply[p] /\ (p \in cmds' <=> p \in cmds)
    /\ runner'[p] = runner[p] /\ job'[p] = job[p] /\ (p \in won' <=> p \in won)
SameNews(p) ==
    \A g \in Links : /\ Pending(g, p)' <=> Pending(g, p)
                     /\ Closing(g, p) => Closing(g, p)'

LEMMA QuietNews ==
    ASSUME UNCHANGED <<wire, reader>>
    PROVE  /\ \A p \in Op : SameNews(p)
           /\ \A g \in Links : NewsOf(g)' = NewsOf(g)
  BY DEF SameNews, Pending, NewsOf, Closing

\* A report of a run is its last message, on the connection of the moment; no other run notices.
LEMMA SentNews ==
    ASSUME TypeOK, NEW o \in Op, NEW kind \in {"log", "result", "complete"}, Report(o, kind),
           UNCHANGED reader, NEW at, at = link.at
    PROVE  /\ \A p \in Op \ {o} : SameNews(p)
           /\ \A g \in Links : Pending(g, o) => Pending(g, o)'
           /\ \A g \in Links : Pending(g, o)' => Pending(g, o) \/ (link.up /\ g = at)
           /\ link.up => Pending(at, o)'
           /\ link.up /\ kind = "complete" => Closing(at, o)'
           /\ \A g \in Links : \A m \in NewsOf(g)' :
                 m \in NewsOf(g) \/ m = [kind |-> kind, run |-> o, ok |-> o \in won]
<1>1. CASE ~link.up
  <2>1. UNCHANGED wire
    BY <1>1 DEF Report
  <2> QED
    BY <1>1, <2>1, QuietNews DEF SameNews
<1>2. CASE link.up
  <2>1. PICK m : m = [kind |-> kind, run |-> o, ok |-> o \in won]
    OBVIOUS
  <2>2. at \in Links
    BY DEF TypeOK
  <2>3. wire[at] \in Seq(Message) /\ m.run = o /\ m.kind = kind
    BY <2>1, <2>2 DEF TypeOK
  <2>4. wire' = [wire EXCEPT ![at] = Append(wire[at], m)]
    BY <1>2, <2>1, <2>2 DEF Report
  <2>5. /\ wire'[at] = Append(wire[at], m)
        /\ \A g \in Links \ {at} : wire'[g] = wire[g]
    BY <2>4 DEF TypeOK
  <2>6. NewsOf(at)' = NewsOf(at) \cup {m}
    BY <2>3, <2>5, QueueAppend DEF NewsOf
  <2>7. \A g \in Links \ {at} : NewsOf(g)' = NewsOf(g)
    BY <2>5 DEF NewsOf
  <2>8. ASSUME NEW p \in Op \ {o}, NEW g \in Links
        PROVE  (Pending(g, p)' <=> Pending(g, p)) /\ (Closing(g, p) => Closing(g, p)')
    <3>1. CASE g # at
      BY <2>5, <2>7, <3>1 DEF Pending, Closing
    <3>2. CASE g = at
      <4>1. Pending(at, p)' <=> Pending(at, p)
        BY <2>3, <2>6, <2>8 DEF Pending
      <4>2. EndsIn(wire[at], p) => EndsIn(Append(wire[at], m), p)
        BY <2>3, <2>8, EndsAppend
      <4>3. Queue(Append(wire[at], m)) = Queue(wire[at]) \cup {m}
        BY <2>3, QueueAppend
      <4>4. Closing(at, p) => Closing(at, p)'
        BY <2>3, <2>5, <2>8, <4>2, <4>3 DEF Closing
      <4> QED
        BY <3>2, <4>1, <4>4
    <3> QED
      BY <3>1, <3>2
  <2>9. \A p \in Op \ {o} : SameNews(p)
    BY <2>8 DEF SameNews
  <2>10. \A g \in Links : Pending(g, o) => Pending(g, o)'
    BY <2>6, <2>7 DEF Pending
  <2>11. \A g \in Links : Pending(g, o)' => Pending(g, o) \/ g = at
    BY <2>7 DEF Pending
  <2>12. Pending(at, o)'
    BY <2>3, <2>6 DEF Pending
  <2>13. kind = "complete" => Closing(at, o)'
    <3> SUFFICES ASSUME kind = "complete" PROVE Closing(at, o)'
      OBVIOUS
    <3>1. Completes(m, o)
      BY <2>3 DEF Completes
    <3>2. EndsIn(Append(wire[at], m), o)
      BY <2>3, <3>1, EndsAppend
    <3> QED
      BY <2>5, <3>2 DEF Closing
  <2>14. \A g \in Links : \A n \in NewsOf(g)' : n \in NewsOf(g) \/ n = m
    BY <2>6, <2>7
  <2> QED
    BY <1>2, <2>1, <2>2, <2>9, <2>10, <2>11, <2>12, <2>13, <2>14
<1> QED
  BY <1>1, <1>2

\* A read loop takes a message in hand, or lets it go.
LEMMA ReadNews ==
    ASSUME TypeOK, NEW g \in Links, reader[g] = Idle, wire[g] # <<>>,
           wire' = [wire EXCEPT ![g] = Tail(@)], NEW m, m = Head(wire[g]),
           \E l : reader' \in {reader, [reader EXCEPT ![g] = [msg |-> m, log |-> l]]}
    PROVE  /\ m \in NewsOf(g) /\ m \in Message
           /\ \A h \in Links : NewsOf(h)' \subseteq NewsOf(h)
           /\ \A p \in Op \ {m.run} : SameNews(p)
           /\ \A h \in Links : Pending(h, m.run)' /\ Closing(h, m.run) => Closing(h, m.run)'
           /\ reader' # reader => SameNews(m.run)
<1> PICK l : reader' \in {reader, [reader EXCEPT ![g] = [msg |-> m, log |-> l]]}
  OBVIOUS
<1>1. wire[g] \in Seq(Message)
  BY DEF TypeOK
<1>2. m \in Message /\ Tail(wire[g]) \in Seq(Message)
  BY <1>1
<1>3. Queue(wire[g]) = {m} \cup Queue(Tail(wire[g]))
  BY <1>1, QueueTail
<1>4. wire'[g] = Tail(wire[g]) /\ \A h \in Links \ {g} : wire'[h] = wire[h] /\ reader'[h] = reader[h]
  BY DEF TypeOK
<1>5. \/ reader' = reader
      \/ reader'[g] = [msg |-> m, log |-> l] /\ reader'[g] # Idle
  <2>1. [msg |-> m, log |-> l] # Idle
    <3>1. "log" \notin DOMAIN Idle
      BY DEF Idle
    <3>2. "log" \in DOMAIN [msg |-> m, log |-> l]
      OBVIOUS
    <3> QED
      BY <3>1, <3>2
  <2> QED
    BY <2>1 DEF TypeOK
<1>6. NewsOf(g) = {m} \cup Queue(Tail(wire[g]))
  BY <1>3 DEF NewsOf
<1>7. CASE reader' = reader
  <2>1. NewsOf(g)' = Queue(Tail(wire[g]))
    BY <1>4, <1>7 DEF NewsOf
  <2>2. \A h \in Links \ {g} : NewsOf(h)' = NewsOf(h)
    BY <1>4 DEF NewsOf
  <2>3. ASSUME NEW p \in Op, NEW h \in Links, p # m.run \/ Pending(h, p)', Closing(h, p)
        PROVE  Closing(h, p)'
    <3>1. CASE h # g
      BY <1>4, <2>3, <3>1 DEF Closing
    <3>2. CASE h = g
      <4>1. EndsIn(wire[g], p)
        BY <2>3, <3>2 DEF Closing
      <4>2. \/ EndsIn(Tail(wire[g]), p)
            \/ Completes(m, p) /\ \A n \in Queue(Tail(wire[g])) : n.run # p
        BY <1>1, <4>1, EndsTail
      <4>3. CASE EndsIn(Tail(wire[g]), p)
        BY <1>4, <3>2, <4>3 DEF Closing
      <4>4. CASE Completes(m, p) /\ \A n \in Queue(Tail(wire[g])) : n.run # p
        BY <2>1, <2>3, <3>2, <4>4 DEF Completes, Pending
      <4> QED
        BY <4>2, <4>3, <4>4
    <3> QED
      BY <3>1, <3>2
  <2>4. \A p \in Op \ {m.run} : \A h \in Links : Pending(h, p)' <=> Pending(h, p)
    BY <1>6, <2>1, <2>2 DEF Pending
  <2>5. m.run \in Op
    BY <1>2 DEF Message
  <2> QED
    BY <1>2, <1>6, <1>7, <2>1, <2>2, <2>3, <2>4, <2>5 DEF SameNews
<1>8. CASE reader'[g] = [msg |-> m, log |-> l] /\ reader'[g] # Idle
  <2>1. NewsOf(g)' = NewsOf(g)
    BY <1>4, <1>6, <1>8 DEF NewsOf
  <2>2. \A h \in Links : NewsOf(h)' = NewsOf(h)
    BY <1>4, <2>1 DEF NewsOf
  <2>3. ASSUME NEW p \in Op, NEW h \in Links, Closing(h, p)
        PROVE  Closing(h, p)'
    <3>1. CASE h # g
      BY <1>4, <2>3, <3>1 DEF Closing
    <3>2. CASE h = g
      <4>1. EndsIn(wire[g], p)
        BY <2>3, <3>2 DEF Closing
      <4>2. \/ EndsIn(Tail(wire[g]), p)
            \/ Completes(m, p) /\ \A n \in Queue(Tail(wire[g])) : n.run # p
        BY <1>1, <4>1, EndsTail
      <4> QED
        BY <1>4, <1>8, <3>2, <4>2 DEF Closing
    <3> QED
      BY <3>1, <3>2
  <2>4. \A p \in Op : SameNews(p)
    BY <2>2, <2>3 DEF SameNews, Pending
  <2>5. m.run \in Op
    BY <1>2 DEF Message
  <2> QED
    BY <1>2, <1>6, <2>2, <2>3, <2>4, <2>5
<1> QED
  BY <1>5, <1>7, <1>8

\* A read loop is through with the message in hand; if that was the last of a run that had
\* ended, it was the completion.
LEMMA AppliedNews ==
    ASSUME TypeOK, NEW g \in Links, reader[g] # Idle, UNCHANGED wire,
           reader' = [reader EXCEPT ![g] = Idle], NEW m, m = reader[g].msg
    PROVE  /\ m \in NewsOf(g) /\ m \in Message
           /\ \A h \in Links : NewsOf(h)' \subseteq NewsOf(h)
           /\ \A p \in Op \ {m.run} : SameNews(p)
           /\ \A h \in Links : Pending(h, m.run)' /\ Closing(h, m.run) => Closing(h, m.run)'
           /\ Closing(g, m.run) /\ ~Pending(g, m.run)' => Completes(m, m.run)
<1>1. reader[g] \in Handling
  BY ReaderType
<1>2. m \in Message
  BY <1>1 DEF Handling
<1>3. reader'[g] = Idle /\ \A h \in Links \ {g} : reader'[h] = reader[h]
  BY DEF TypeOK
<1>4. NewsOf(g)' = Queue(wire[g]) /\ NewsOf(g) = Queue(wire[g]) \cup {m}
  BY <1>3 DEF NewsOf
<1>5. \A h \in Links \ {g} : NewsOf(h)' = NewsOf(h)
  BY <1>3 DEF NewsOf
<1>6. \A p \in Op \ {m.run} : \A h \in Links : Pending(h, p)' <=> Pending(h, p)
  BY <1>4, <1>5 DEF Pending
<1>7. ASSUME NEW p \in Op, NEW h \in Links, p # m.run \/ Pending(h, p)', Closing(h, p)
      PROVE  Closing(h, p)'
  <2>1. CASE h # g
    BY <1>3, <1>7, <2>1 DEF Closing
  <2>2. CASE h = g
    <3>1. CASE EndsIn(wire[g], p)
      BY <2>2, <3>1 DEF Closing
    <3>2. CASE Completes(m, p) /\ \A n \in Queue(wire[g]) : n.run # p
      BY <1>4, <1>7, <2>2, <3>2 DEF Completes, Pending
    <3> QED
      BY <1>7, <2>2, <3>1, <3>2 DEF Closing
  <2> QED
    BY <2>1, <2>2
<1>8. Closing(g, m.run) /\ ~Pending(g, m.run)' => Completes(m, m.run)
  <2> SUFFICES ASSUME Closing(g, m.run), ~Pending(g, m.run)' PROVE Completes(m, m.run)
    OBVIOUS
  <2>1. \A n \in Queue(wire[g]) : n.run # m.run
    BY <1>4 DEF Pending
  <2>2. ~EndsIn(wire[g], m.run)
    BY <2>1, EndsQueue DEF Completes
  <2> QED
    BY <2>2 DEF Closing
<1>9. m.run \in Op
  BY <1>2 DEF Message
<1> QED
  BY <1>2, <1>4, <1>5, <1>6, <1>7, <1>8, <1>9 DEF SameNews

-----------------------------------------------------------------------------
(* The row and docker: the invariant *)

\* The agent has heard nothing of an operation yet.
Untold(o) == o \notin cmds /\ reply[o] = "none" /\ runner[o] = "none" /\ job[o] = NoJob

\* How far the handler and the agent can be with an operation at once.
StageOf(o) ==
    /\ pc[o] \in {"idle", "reset", "send"} => Untold(o)
    /\ o \in cmds => reply[o] = "none" /\ runner[o] = "none" /\ job[o] = NoJob
    /\ job[o] # NoJob =>
          /\ KindOf[o] \notin Dispatching /\ reply[o] = "none"
          /\ job[o].todo \cup job[o].now \subseteq {DeployOf[o]} \cup Lookalike[DeployOf[o]]
    /\ KindOf[o] \in Dispatching => reply[o] # "error" /\ (reply[o] = "ok" <=> runner[o] # "none")
    /\ KindOf[o] \notin Dispatching => runner[o] = "none"
    /\ pc[o] \in {"reset", "fail"} => KindOf[o] \in Dispatching
    /\ pc[o] = "reset" => KindOf[o] = "redeploy"
    /\ pc[o] \in {"mark", "erase"} => KindOf[o] \notin Dispatching /\ reply[o] = "ok"
    /\ o \in won => runner[o] \in {"result", "complete", "ended"}

\* A message is of a run that has started; a completion is of one that has ended, and says
\* whether its docker run succeeded.
TrueTo(m) ==
    /\ runner[m.run] # "none"
    /\ m.kind = "complete" => runner[m.run] = "ended" /\ (m.ok <=> m.run \in won)
MessageInv == \A g \in Links : \A m \in NewsOf(g) : TrueTo(m)

\* The handler, the agent or a message is still at work for an operation.
Running(o) == runner[o] \notin {"none", "ended"} \/ \E g \in Links : Pending(g, o)
Working(o) ==
    \/ pc[o] \notin {"idle", "done", "refused"}
    \/ o \in cmds
    \/ job[o] # NoJob
    \/ Running(o)

\* Without trouble a deploy has one operation at a time,
OneInv ==
    \A o, p \in Op : /\ DeployOf[o] = DeployOf[p] /\ DeployOf[o] \notin trouble
                     /\ Working(o) /\ Working(p)
                     => o = p

\* whose handler waits while the agent has its command, and whose run sends over one connection
\* and ends with its completion.
NewsInOrder(o) ==
    /\ \A g, h \in Links : Pending(g, o) /\ Pending(h, o) => g = h
    /\ runner[o] = "ended" => \A g \in Links : Pending(g, o) => Closing(g, o)
OrderOf(o) ==
    /\ o \in cmds \/ job[o] # NoJob => pc[o] = "wait"
    /\ runner[o] # "none" => pc[o] \in {"wait", "done"}
    /\ pc[o] = "fail" => Untold(o)
    /\ NewsInOrder(o)

\* From its reset a deploy belongs to the run to come until the completion of that is applied;
\* from the removal of its container to the stop or delete until that is in the row.
Deploying(o) ==
    /\ KindOf[o] \in Dispatching
    /\ \/ pc[o] \in {"send", "fail"}
       \/ pc[o] = "wait" /\ runner[o] = "none"
       \/ Running(o)
Removed(o) ==
    /\ KindOf[o] \notin Dispatching
    /\ \/ job[o] # NoJob /\ job[o].todo = {} /\ job[o].now = {} /\ ~job[o].failed
       \/ pc[o] = "wait" /\ reply[o] = "ok"
       \/ pc[o] \in {"mark", "erase"}

\* The cleanup of a deploy that is alone has to stop its container, to remove it, or is over.
Cleanup(j, d) ==
    \/ j.todo = {d} /\ j.now = {} /\ ~j.failed
    \/ j.todo = {} /\ j.now = {d} /\ ~j.failed
    \/ j.todo = {} /\ j.now = {}

\* What an operation holds of its deploy while it goes on.
Held(o) ==
    LET d == DeployOf[o] IN
    /\ Deploying(o) \/ pc[o] = "reset" => Present(d)
    /\ KindOf[o] \in {"create", "redeploy"} /\ pc[o] = "send" => row[d].status = "pending"
    /\ Running(o) /\ o \in won => container[d] # NoContainer /\ container[d].by = o
    /\ Removed(o) => container[d] = NoContainer
    /\ job[o] # NoJob => Cleanup(job[o], d)

RestOf(d) ==
    /\ (\A o \in Op : DeployOf[o] = d => ~Deploying(o) /\ ~Removed(o)) => Settled(d)
    /\ \A o \in Op : DeployOf[o] = d => Held(o)

StageInv == \A o \in Op : StageOf(o)
OrderInv == \A o \in Op : DeployOf[o] \notin trouble => OrderOf(o)
RestInv == \A d \in Deploy : d \notin trouble /\ Alone(d) => RestOf(d)
HonestInv == StageInv /\ MessageInv /\ OneInv /\ OrderInv /\ RestInv

LEMMA NewsType ==
    ASSUME TypeOK, NEW g \in Links
    PROVE  /\ NewsOf(g) \subseteq Message
           /\ \A m \in NewsOf(g) : m.run \in Op
<1>1. wire[g] \in Seq(Message)
  BY DEF TypeOK
<1>2. Queue(wire[g]) \subseteq Message
  BY <1>1 DEF Queue
<1>3. reader[g] # Idle => reader[g].msg \in Message
  BY ReaderType DEF Handling
<1>4. NewsOf(g) \subseteq Message
  BY <1>2, <1>3 DEF NewsOf
<1> QED
  BY <1>4 DEF Message

\* A deploy is busy when one of its operations is at work.
LEMMA BusyWorking ==
    ASSUME TypeOK, NEW d \in Deploy
    PROVE  Busy(d) <=> \E o \in Op : DeployOf[o] = d /\ Working(o)
<1>1. ASSUME NEW g \in Links
      PROVE  Unapplied(g, d) <=> \E m \in NewsOf(g) : DeployOf[m.run] = d
  BY DEF Unapplied, About, NewsOf, Queue
<1>2. ASSUME NEW g \in Links
      PROVE  Unapplied(g, d) <=> \E o \in Op : DeployOf[o] = d /\ Pending(g, o)
  BY <1>1, NewsType DEF Pending
<1> QED
  BY <1>2 DEF Busy, Working, Running

\* An operation that is left alone stays as far as it was.
LEMMA SameWork ==
    ASSUME NEW p \in Op, SameOp(p), SameNews(p)
    PROVE  /\ Running(p)' <=> Running(p)
           /\ Working(p)' <=> Working(p)
           /\ Deploying(p)' <=> Deploying(p)
           /\ Removed(p)' <=> Removed(p)
           /\ StageOf(p) => StageOf(p)'
           /\ OrderOf(p) => OrderOf(p)'
<1>1. Running(p)' <=> Running(p)
  BY DEF Running, SameOp, SameNews
<1>2. Working(p)' <=> Working(p)
  BY <1>1 DEF Working, SameOp
<1>3. Deploying(p)' <=> Deploying(p)
  BY <1>1 DEF Deploying, SameOp
<1>4. Removed(p)' <=> Removed(p)
  BY DEF Removed, SameOp
<1>5. StageOf(p) => StageOf(p)'
  BY DEF StageOf, Untold, SameOp
<1>6. NewsInOrder(p) => NewsInOrder(p)'
  BY DEF NewsInOrder, SameOp, SameNews
<1>7. OrderOf(p) => OrderOf(p)'
  BY <1>6 DEF OrderOf, Untold, SameOp
<1> QED
  BY <1>1, <1>2, <1>3, <1>4, <1>5, <1>7

\* An operation that is not at work holds nothing.
LEMMA IdleHolds ==
    ASSUME NEW p \in Op, ~Working(p)
    PROVE  ~Running(p) /\ ~Deploying(p) /\ ~Removed(p) /\ Held(p) /\ pc[p] # "reset"
<1>1. ~Running(p) /\ ~Deploying(p) /\ ~Removed(p) /\ pc[p] \notin {"reset", "send"} /\ job[p] = NoJob
  BY DEF Working, Deploying, Removed
<1> QED
  BY <1>1 DEF Held

LEMMA IdleHoldsNext ==
    ASSUME NEW p \in Op, ~Working(p)'
    PROVE  Held(p)'
<1>1. ~Running(p)' /\ ~Deploying(p)' /\ ~Removed(p)' /\ pc'[p] \notin {"reset", "send"} /\ job'[p] = NoJob
  BY DEF Working, Deploying, Removed
<1> QED
  BY <1>1 DEF Held

\* What a step leaves alone of a deploy.
SameRest(d) ==
    /\ row'[d] = row[d]
    /\ container'[d] = NoContainer <=> container[d] = NoContainer
    /\ container'[d].by = container[d].by
SameRefused(d) == \A p \in Op : DeployOf[p] = d /\ pc[p] = "refused" => pc'[p] = "refused"

LEMMA SettledStays ==
    ASSUME NEW d \in Deploy, Settled(d), SameRest(d), SameRefused(d)
    PROVE  Settled(d)'
  BY DEF Settled, SameRest, SameRefused

\* So does a deploy whose operations are left alone.
LEMMA RestStays ==
    ASSUME NEW d \in Deploy, RestOf(d), SameRest(d),
           \A p \in Op : DeployOf[p] = d => SameOp(p) /\ SameNews(p)
    PROVE  RestOf(d)'
<1>1. SameRefused(d)
  BY DEF SameRefused, SameOp
<1>2. \A p \in Op : DeployOf[p] = d =>
         (Deploying(p)' <=> Deploying(p)) /\ (Removed(p)' <=> Removed(p)) /\ (Running(p)' <=> Running(p))
  BY SameWork
<1>3. (\A p \in Op : DeployOf[p] = d => ~Deploying(p)' /\ ~Removed(p)') => Settled(d)'
  BY <1>1, <1>2, SettledStays DEF RestOf
<1>4. ASSUME NEW p \in Op, DeployOf[p] = d PROVE Held(p)'
  <2>1. Held(p) /\ SameOp(p)
    BY <1>4 DEF RestOf
  <2>2. /\ Deploying(p)' <=> Deploying(p)
        /\ Removed(p)' <=> Removed(p)
        /\ Running(p)' <=> Running(p)
    BY <1>2, <1>4
  <2> QED
    BY <1>4, <2>1, <2>2 DEF Held, SameOp, SameRest, Present, Cleanup
<1> QED
  BY <1>3, <1>4 DEF RestOf

\* The steps of one operation: they leave the others alone,
OneActs(o) ==
    /\ trouble \subseteq trouble'
    /\ \A p \in Op \ {o} : SameOp(p) /\ SameNews(p)
    /\ \A d \in Deploy \ {DeployOf[o]} : Alone(d) => SameRest(d)
\* are the only work on their deploy,
Sole(o) ==
    DeployOf[o] \notin trouble' =>
        \A p \in Op : DeployOf[p] = DeployOf[o] /\ p # o => ~Working(p)
\* never take a run back,
Onward(o) ==
    /\ runner[o] # "none" => runner'[o] # "none"
    /\ runner[o] = "ended" => runner'[o] = "ended" /\ (o \in won' <=> o \in won)
\* and leave what they hold in order.
Honours(o) ==
    Alone(DeployOf[o]) => Held(o)' /\ (~Deploying(o)' /\ ~Removed(o)' => Settled(DeployOf[o])')

LEMMA SoleWorker ==
    ASSUME OneInv, NEW o \in Op, Working(o), trouble \subseteq trouble'
    PROVE  Sole(o)
  BY DEF OneInv, Sole

LEMMA MessagesStay ==
    ASSUME TypeOK, MessageInv, \A p \in Op : Onward(p),
           NEW g \in Links, NEW m \in NewsOf(g)
    PROVE  TrueTo(m)'
<1>1. m.run \in Op /\ TrueTo(m)
  BY NewsType DEF MessageInv
<1> QED
  BY <1>1 DEF TrueTo, Onward

LEMMA OneStep ==
    ASSUME TypeOK, HonestInv, NEW o \in Op, OneActs(o), Sole(o), Onward(o), StageOf(o)',
           \A g \in Links : \A m \in NewsOf(g)' : m \in NewsOf(g) \/ TrueTo(m)',
           DeployOf[o] \notin trouble' => OrderOf(o)' /\ Honours(o)
    PROVE  HonestInv'
<1>1. \A p \in Op \ {o} : SameOp(p) /\ SameNews(p)
  BY DEF OneActs
<1>2. StageInv'
  BY <1>1, SameWork DEF HonestInv, StageInv
<1>3. \A p \in Op : Onward(p)
  BY <1>1 DEF Onward, SameOp
<1>4. MessageInv'
  BY <1>3, MessagesStay DEF HonestInv, MessageInv
<1>5. \A p \in Op \ {o} : Working(p)' <=> Working(p)
  BY <1>1, SameWork
<1>6. trouble \subseteq trouble'
  BY DEF OneActs
<1>7. OneInv'
  <2> SUFFICES ASSUME NEW p \in Op, NEW q \in Op, DeployOf[p] = DeployOf[q],
                      DeployOf[p] \notin trouble', Working(p)', Working(q)', p # q
               PROVE  FALSE
    BY DEF OneInv
  <2>1. CASE p = o
    BY <1>5, <2>1 DEF Sole
  <2>2. CASE q = o
    BY <1>5, <2>2 DEF Sole
  <2>3. CASE p # o /\ q # o
    BY <1>5, <1>6, <2>3 DEF OneInv, HonestInv
  <2> QED
    BY <2>1, <2>2, <2>3
<1>8. OrderInv'
  <2> SUFFICES ASSUME NEW p \in Op, DeployOf[p] \notin trouble' PROVE OrderOf(p)'
    BY DEF OrderInv
  <2>1. CASE p = o
    BY <2>1
  <2>2. CASE p # o
    BY <1>1, <1>6, <2>2, SameWork DEF HonestInv, OrderInv
  <2> QED
    BY <2>1, <2>2
<1>9. RestInv'
  <2> SUFFICES ASSUME NEW d \in Deploy, d \notin trouble', Alone(d) PROVE RestOf(d)'
    BY DEF RestInv, Alone
  <2>1. RestOf(d)
    BY <1>6 DEF HonestInv, RestInv
  <2>2. CASE d # DeployOf[o]
    <3>1. SameRest(d)
      BY <2>2 DEF OneActs
    <3>2. \A p \in Op : DeployOf[p] = d => SameOp(p) /\ SameNews(p)
      BY <1>1, <2>2
    <3> QED
      BY <2>1, <3>1, <3>2, RestStays
  <2>3. CASE d = DeployOf[o]
    <3>1. \A p \in Op : DeployOf[p] = d /\ p # o => ~Working(p)'
      BY <1>5, <2>3 DEF Sole
    <3>2. \A p \in Op : DeployOf[p] = d /\ p # o => Held(p)'
      BY <3>1, IdleHoldsNext
    <3>3. Held(o)' /\ (~Deploying(o)' /\ ~Removed(o)' => Settled(d)')
      BY <2>3 DEF Honours
    <3> QED
      BY <2>3, <3>2, <3>3 DEF RestOf
  <2> QED
    BY <2>2, <2>3
<1> QED
  BY <1>2, <1>4, <1>7, <1>8, <1>9 DEF HonestInv

-----------------------------------------------------------------------------
(* The row and docker: the steps of the handlers *)

LEMMA HandlerActs ==
    ASSUME TypeOK, HonestInv, NEW o \in Op, UNCHANGED <<wire, reader, runner, won, job, container, reply>>,
           cmds' \in {cmds, cmds \cup {o}}, NEW next \in Pc, pc' = [pc EXCEPT ![o] = next],
           trouble \subseteq trouble',
           \A d \in Deploy \ {DeployOf[o]} : row'[d] = row[d]
    PROVE  /\ OneActs(o) /\ Onward(o) /\ pc'[o] = next
           /\ \A g \in Links : \A m \in NewsOf(g)' : m \in NewsOf(g)
           /\ Running(o)' <=> Running(o)
           /\ NewsInOrder(o) => NewsInOrder(o)'
<1>1. (\A p \in Op : SameNews(p)) /\ \A g \in Links : NewsOf(g)' = NewsOf(g)
  BY QuietNews
<1>2. pc'[o] = next /\ \A p \in Op \ {o} : pc'[p] = pc[p]
  BY DEF TypeOK
<1>3. OneActs(o)
  BY <1>1, <1>2 DEF OneActs, SameOp, SameRest
<1>4. Running(o)' <=> Running(o)
  BY <1>1 DEF Running, SameNews
<1>5. NewsInOrder(o) => NewsInOrder(o)'
  BY <1>1 DEF NewsInOrder, SameNews
<1> QED
  BY <1>1, <1>2, <1>3, <1>4, <1>5 DEF Onward

\* Nobody is at work on a deploy on which an operation begins without trouble.
LEMMA BeginsAlone ==
    ASSUME TypeOK, NEW o \in Op, NEW next, Begin(o, next), DeployOf[o] \notin trouble'
    PROVE  \A p \in Op : DeployOf[p] = DeployOf[o] => ~Working(p)
<1>1. DeployOf[o] \in Deploy
  BY DeployAssumption
<1>2. ~Busy(DeployOf[o])
  BY DEF Begin
<1> QED
  BY <1>1, <1>2, BusyWorking

LEMMA HonestCreate == ASSUME TypeOK, HonestInv, NEW o \in Op, CreateDeploy(o) PROVE HonestInv'
<1> DEFINE d == DeployOf[o]
<1>1. d \in Deploy /\ row[d] \in Row
  BY DeployAssumption DEF TypeOK
<1>2. Begin(o, "send") /\ KindOf[o] \in Creating /\ pc[o] = "idle" /\ StageOf(o)
  BY DEF CreateDeploy, Begin, HonestInv, StageInv
<1>3. row'[d].status = FirstStatus(o) /\ \A e \in Deploy \ {d} : row'[e] = row[e]
  BY <1>1 DEF CreateDeploy, TypeOK, Row
<1>4. UNCHANGED <<wire, reader, runner, won, job, container, reply, cmds>>
  BY DEF CreateDeploy, agentVars, netVars
<1>5. pc' = [pc EXCEPT ![o] = "send"] /\ trouble \subseteq trouble'
  BY <1>2 DEF Begin
<1>6. /\ OneActs(o) /\ Onward(o) /\ pc'[o] = "send"
      /\ \A g \in Links : \A m \in NewsOf(g)' : m \in NewsOf(g)
      /\ Running(o)' <=> Running(o)
      /\ NewsInOrder(o) => NewsInOrder(o)'
  BY <1>3, <1>4, <1>5, HandlerActs DEF Pc
<1>7. Sole(o)
  BY <1>2, BeginsAlone DEF Sole
<1>8. StageOf(o)'
  BY <1>2, <1>4, <1>6 DEF StageOf, Untold
<1>9. ASSUME d \notin trouble' PROVE OrderOf(o)' /\ Honours(o)
  <2>1. ~Working(o) /\ d \notin trouble
    BY <1>2, <1>5, <1>9, BeginsAlone
  <2>2. OrderOf(o)
    BY <2>1 DEF HonestInv, OrderInv
  <2>3. OrderOf(o)'
    BY <1>2, <1>4, <1>6, <2>2 DEF OrderOf, StageOf, Untold
  <2>4. ~Running(o)' /\ KindOf[o] \in Dispatching /\ job'[o] = NoJob
    BY <1>2, <1>4, <1>6, <2>1 DEF Dispatching, StageOf, Untold, Working
  <2>5. Present(d)' /\ (KindOf[o] \in {"create", "redeploy"} => row'[d].status = "pending")
    BY <1>3 DEF FirstStatus, Present
  <2>6. Held(o)' /\ Deploying(o)'
    BY <1>6, <2>4, <2>5 DEF Held, Deploying, Removed
  <2> QED
    BY <2>3, <2>6 DEF Honours
<1> QED
  BY <1>6, <1>7, <1>8, <1>9, OneStep

LEMMA HonestLoad == ASSUME TypeOK, HonestInv, NEW o \in Op, LoadDeploy(o) PROVE HonestInv'
<1> DEFINE d == DeployOf[o]
           next == IF KindOf[o] = "redeploy" THEN "reset" ELSE "send"
<1>1. d \in Deploy /\ next \in {"reset", "send"} /\ next \in Pc
  BY DeployAssumption DEF Pc
<1>2. /\ Begin(o, next) /\ KindOf[o] \notin Creating /\ Present(d) /\ pc[o] = "idle" /\ StageOf(o)
      /\ next = "reset" => KindOf[o] = "redeploy"
      /\ next = "send" => KindOf[o] \notin Dispatching
  BY DEF LoadDeploy, Begin, HonestInv, StageInv, Dispatching
<1> HIDE DEF next
<1>4. UNCHANGED <<wire, reader, runner, won, job, container, reply, cmds, row>>
  BY DEF LoadDeploy, agentVars, netVars, dbVars
<1>5. pc' = [pc EXCEPT ![o] = next] /\ trouble \subseteq trouble'
  BY <1>2 DEF Begin
<1>6. /\ OneActs(o) /\ Onward(o) /\ pc'[o] = next
      /\ \A g \in Links : \A m \in NewsOf(g)' : m \in NewsOf(g)
      /\ Running(o)' <=> Running(o)
      /\ NewsInOrder(o) => NewsInOrder(o)'
  BY <1>1, <1>4, <1>5, HandlerActs
<1>7. Sole(o)
  BY <1>2, BeginsAlone DEF Sole
<1>8. StageOf(o)'
  BY <1>1, <1>2, <1>4, <1>6 DEF StageOf, Untold, Dispatching
<1>9. ASSUME d \notin trouble' PROVE OrderOf(o)' /\ Honours(o)
  <2>1. d \notin trouble /\ \A p \in Op : DeployOf[p] = d => ~Working(p)
    BY <1>2, <1>5, <1>9, BeginsAlone
  <2>2. OrderOf(o)
    BY <2>1 DEF HonestInv, OrderInv
  <2>3. OrderOf(o)'
    BY <1>1, <1>2, <1>4, <1>6, <2>2 DEF OrderOf, StageOf, Untold
  <2>4. ~Running(o)' /\ job'[o] = NoJob /\ reply'[o] = "none"
    BY <1>2, <1>4, <1>6, <2>1 DEF StageOf, Untold, Working
  <2>5. ~Deploying(o)' /\ ~Removed(o)'
    BY <1>1, <1>2, <1>6, <2>4 DEF Deploying, Removed
  <2>6. Held(o)'
    BY <1>1, <1>2, <1>4, <1>6, <2>4, <2>5 DEF Held, Present, Dispatching, Creating
  <2>7. ASSUME Alone(d) PROVE Settled(d)'
    <3>1. RestOf(d)
      BY <1>1, <2>1, <2>7 DEF HonestInv, RestInv
    <3>2. Settled(d)
      BY <2>1, <3>1, IdleHolds DEF RestOf
    <3>3. SameRest(d) /\ SameRefused(d)
      BY <1>2, <1>4, <1>5 DEF SameRest, SameRefused, TypeOK
    <3> QED
      BY <1>1, <3>2, <3>3, SettledStays
  <2> QED
    BY <2>3, <2>6, <2>7 DEF Honours
<1> QED
  BY <1>6, <1>7, <1>8, <1>9, OneStep

LEMMA UpdatedRest ==
    ASSUME TypeOK, NEW d \in Deploy, NEW new, Updates(d, new)
    PROVE  /\ Present(d) => row'[d] = new
           /\ ~Present(d) => row'[d] = row[d]
           /\ \A e \in Deploy \ {d} : row'[e] = row[e]
  BY DEF Updates, TypeOK

\* What an operation at work finds, and the deploy of one that holds nothing.
LEMMA HeldNow ==
    ASSUME HonestInv, NEW o \in Op, DeployOf[o] \notin trouble
    PROVE  /\ OrderOf(o)
           /\ Alone(DeployOf[o]) =>
                 /\ Held(o)
                 /\ Working(o) /\ ~Deploying(o) /\ ~Removed(o) => Settled(DeployOf[o])
<1>1. OrderOf(o)
  BY DEF HonestInv, OrderInv
<1>2. ASSUME Alone(DeployOf[o]) PROVE RestOf(DeployOf[o])
  BY <1>2, DeployAssumption DEF HonestInv, RestInv
<1>3. ASSUME Alone(DeployOf[o]), Working(o), ~Deploying(o), ~Removed(o)
      PROVE  Settled(DeployOf[o])
  <2>1. \A p \in Op : DeployOf[p] = DeployOf[o] /\ p # o => ~Working(p)
    BY <1>3 DEF HonestInv, OneInv
  <2>2. \A p \in Op : DeployOf[p] = DeployOf[o] => ~Deploying(p) /\ ~Removed(p)
    BY <1>3, <2>1, IdleHolds
  <2> QED
    BY <1>2, <1>3, <2>2 DEF RestOf
<1> QED
  BY <1>1, <1>2, <1>3 DEF RestOf

LEMMA HonestReset == ASSUME TypeOK, HonestInv, NEW o \in Op, ResetDeploy(o) PROVE HonestInv'
<1> DEFINE d == DeployOf[o]
           new == [row[d] EXCEPT !.status = "pending", !.log = {}]
<1>1. d \in Deploy /\ row[d] \in Row
  BY DeployAssumption DEF TypeOK
<1>2. pc[o] = "reset" /\ StageOf(o) /\ Updates(d, new) /\ pc' = [pc EXCEPT ![o] = "send"]
  BY DEF ResetDeploy, Goto, HonestInv, StageInv
<1>3. new.status = "pending"
  BY <1>1 DEF Row
<1> HIDE DEF new
<1>4. UNCHANGED <<wire, reader, runner, won, job, container, reply, cmds, trouble>>
  BY DEF ResetDeploy, agentVars, netVars
<1>5. /\ Present(d) => row'[d] = new
      /\ ~Present(d) => row'[d] = row[d]
      /\ \A e \in Deploy \ {d} : row'[e] = row[e]
  BY <1>1, <1>2, UpdatedRest
<1>6. /\ OneActs(o) /\ Onward(o) /\ pc'[o] = "send"
      /\ \A g \in Links : \A m \in NewsOf(g)' : m \in NewsOf(g)
      /\ Running(o)' <=> Running(o)
      /\ NewsInOrder(o) => NewsInOrder(o)'
  BY <1>2, <1>4, <1>5, HandlerActs DEF Pc
<1>7. Sole(o)
  BY <1>2, <1>4, SoleWorker DEF Working, HonestInv
<1>8. StageOf(o)'
  BY <1>2, <1>4, <1>6 DEF StageOf, Untold
<1>9. ASSUME d \notin trouble' PROVE OrderOf(o)' /\ Honours(o)
  <2>1. OrderOf(o) /\ (Alone(d) => Held(o))
    BY <1>4, <1>9, HeldNow
  <2>2. OrderOf(o)'
    BY <1>2, <1>4, <1>6, <2>1 DEF OrderOf, StageOf, Untold
  <2>3. ASSUME Alone(d) PROVE Held(o)' /\ Deploying(o)'
    <3>1. Present(d)
      BY <1>2, <2>1, <2>3 DEF Held
    <3>2. row'[d].status = "pending"
      BY <1>3, <1>5, <3>1
    <3>3. Deploying(o)' /\ ~Removed(o)' /\ job'[o] = NoJob /\ o \notin won'
      BY <1>2, <1>4, <1>6 DEF Deploying, Removed, StageOf, Untold
    <3> QED
      BY <3>2, <3>3 DEF Held, Present
  <2> QED
    BY <2>2, <2>3 DEF Honours
<1> QED
  BY <1>6, <1>7, <1>8, <1>9, OneStep

LEMMA HonestSecret == ASSUME TypeOK, HonestInv, NEW o \in Op, SecretUnresolved(o) PROVE HonestInv'
<1> DEFINE d == DeployOf[o]
<1>1. d \in Deploy /\ row[d] \in Row
  BY DeployAssumption DEF TypeOK
<1>2. pc[o] = "send" /\ KindOf[o] \in {"create", "redeploy"} /\ StageOf(o) /\ pc' = [pc EXCEPT ![o] = "refused"]
  BY DEF SecretUnresolved, Goto, HonestInv, StageInv
<1>4. UNCHANGED <<wire, reader, runner, won, job, container, reply, cmds, row, trouble>>
  BY DEF SecretUnresolved, agentVars, netVars, dbVars
<1>6. /\ OneActs(o) /\ Onward(o) /\ pc'[o] = "refused"
      /\ \A g \in Links : \A m \in NewsOf(g)' : m \in NewsOf(g)
      /\ Running(o)' <=> Running(o)
      /\ NewsInOrder(o) => NewsInOrder(o)'
  BY <1>2, <1>4, HandlerActs DEF Pc
<1>7. Sole(o)
  BY <1>2, <1>4, SoleWorker DEF Working, HonestInv
<1>8. StageOf(o)'
  BY <1>2, <1>4, <1>6 DEF StageOf, Untold
<1>9. ASSUME d \notin trouble' PROVE OrderOf(o)' /\ Honours(o)
  <2>1. OrderOf(o) /\ (Alone(d) => Held(o))
    BY <1>4, <1>9, HeldNow
  <2>2. OrderOf(o)'
    BY <1>2, <1>4, <1>6, <2>1 DEF OrderOf, StageOf, Untold
  <2>3. ASSUME Alone(d) PROVE Honours(o)
    <3>1. row[d].status = "pending" /\ KindOf[o] \in Dispatching
      BY <1>2, <2>1, <2>3 DEF Held, Dispatching, Creating
    <3>2. job'[o] = NoJob /\ o \notin won' /\ ~Removed(o)'
      BY <1>2, <1>4, <1>6, <3>1 DEF Removed, StageOf, Untold
    <3>3. Held(o)'
      BY <1>4, <1>6, <3>1, <3>2 DEF Held, Present
    <3>4. Settled(d)'
      BY <1>4, <1>6, <3>1 DEF Settled
    <3> QED
      BY <3>3, <3>4 DEF Honours
  <2> QED
    BY <2>2, <2>3 DEF Honours
<1> QED
  BY <1>6, <1>7, <1>8, <1>9, OneStep

LEMMA HonestSend == ASSUME TypeOK, HonestInv, NEW o \in Op, Send(o) PROVE HonestInv'
<1> DEFINE d == DeployOf[o]
<1>2. pc[o] = "send" /\ StageOf(o) /\ pc' = [pc EXCEPT ![o] = "wait"] /\ cmds' \in {cmds, cmds \cup {o}}
  BY DEF Send, Goto, HonestInv, StageInv
<1>4. UNCHANGED <<wire, reader, runner, won, job, container, reply, row, trouble>>
  BY DEF Send, agentVars, netVars, dbVars
<1>6. /\ OneActs(o) /\ Onward(o) /\ pc'[o] = "wait"
      /\ \A g \in Links : \A m \in NewsOf(g)' : m \in NewsOf(g)
      /\ Running(o)' <=> Running(o)
      /\ NewsInOrder(o) => NewsInOrder(o)'
  BY <1>2, <1>4, HandlerActs DEF Pc
<1>7. Sole(o)
  BY <1>2, <1>4, SoleWorker DEF Working, HonestInv
<1>8. StageOf(o)'
  BY <1>2, <1>4, <1>6 DEF StageOf, Untold
<1>9. ASSUME d \notin trouble' PROVE OrderOf(o)' /\ Honours(o)
  <2>1. /\ OrderOf(o)
        /\ Alone(d) => Held(o) /\ (Working(o) /\ ~Deploying(o) /\ ~Removed(o) => Settled(d))
    BY <1>4, <1>9, HeldNow
  <2>2. OrderOf(o)'
    BY <1>2, <1>4, <1>6, <2>1 DEF OrderOf, StageOf, Untold
  <2>3. ASSUME Alone(d) PROVE Honours(o)
    <3>1. job'[o] = NoJob /\ o \notin won' /\ ~Removed(o)' /\ ~Removed(o) /\ Working(o)
      BY <1>2, <1>4, <1>6 DEF Removed, StageOf, Untold, Working
    <3>2. Deploying(o) <=> Deploying(o)'
      BY <1>2, <1>4, <1>6 DEF Deploying, StageOf, Untold
    <3>3. Held(o)'
      BY <1>4, <1>6, <2>1, <2>3, <3>1, <3>2 DEF Held, Present
    <3>4. SameRest(d) /\ SameRefused(d) /\ d \in Deploy
      BY <1>2, <1>4, DeployAssumption DEF SameRest, SameRefused, TypeOK
    <3>5. ~Deploying(o) => Settled(d)'
      BY <2>1, <2>3, <3>1, <3>4, SettledStays
    <3> QED
      BY <3>2, <3>3, <3>5 DEF Honours
  <2> QED
    BY <2>2, <2>3 DEF Honours
<1> QED
  BY <1>6, <1>7, <1>8, <1>9, OneStep

LEMMA HonestAnswered == ASSUME TypeOK, HonestInv, NEW o \in Op, RequestAnswered(o) PROVE HonestInv'
<1> DEFINE d == DeployOf[o]
<1>1. StageOf(o) /\ pc[o] = "wait" /\ KindOf[o] \in Kinds
  BY KindAssumption DEF RequestAnswered, HonestInv, StageInv
<1>2. PICK next \in {"mark", "erase", "done", "refused"} :
         /\ pc' = [pc EXCEPT ![o] = next]
         /\ next = "mark" \/ next = "erase" => KindOf[o] \notin Dispatching /\ reply[o] = "ok"
         /\ next = "done" => KindOf[o] \in Dispatching /\ reply[o] = "ok"
         /\ next = "refused" => KindOf[o] \notin Dispatching /\ reply[o] = "error"
  <2>1. CASE reply[o] = "ok"
    BY <1>1, <2>1 DEF RequestAnswered, Goto, Kinds, Dispatching, Creating
  <2>2. CASE reply[o] = "error"
    BY <1>1, <2>2 DEF RequestAnswered, Goto, OnError, StageOf
  <2> QED
    BY <2>1, <2>2 DEF RequestAnswered
<1>4. UNCHANGED <<wire, reader, runner, won, job, container, reply, row, trouble, cmds>>
  BY DEF RequestAnswered, agentVars, netVars, dbVars
<1>5. o \notin cmds /\ job[o] = NoJob /\ (KindOf[o] \in Dispatching => runner[o] # "none")
  BY <1>1, <1>2 DEF StageOf
<1>6. /\ OneActs(o) /\ Onward(o) /\ pc'[o] = next
      /\ \A g \in Links : \A m \in NewsOf(g)' : m \in NewsOf(g)
      /\ Running(o)' <=> Running(o)
      /\ NewsInOrder(o) => NewsInOrder(o)'
  BY <1>2, <1>4, HandlerActs DEF Pc
<1>7. Sole(o)
  BY <1>1, <1>4, SoleWorker DEF Working, HonestInv
<1>8. StageOf(o)'
  BY <1>1, <1>2, <1>4, <1>6 DEF StageOf, Untold
<1>9. ASSUME d \notin trouble' PROVE OrderOf(o)' /\ Honours(o)
  <2>1. /\ OrderOf(o)
        /\ Alone(d) => Held(o) /\ (Working(o) /\ ~Deploying(o) /\ ~Removed(o) => Settled(d))
    BY <1>4, <1>9, HeldNow
  <2>2. OrderOf(o)'
    BY <1>1, <1>2, <1>4, <1>5, <1>6, <2>1 DEF OrderOf, StageOf, Untold
  <2>3. ASSUME Alone(d) PROVE Honours(o)
    <3>1. job'[o] = NoJob /\ Working(o)
      BY <1>1, <1>4, <1>5 DEF Working
    <3>2. Deploying(o) <=> Deploying(o)'
      BY <1>1, <1>2, <1>4, <1>5, <1>6 DEF Deploying
    <3>3. Removed(o) <=> Removed(o)'
      BY <1>1, <1>2, <1>4, <1>5, <1>6, <3>1 DEF Removed
    <3>4. Held(o)'
      BY <1>2, <1>4, <1>6, <2>1, <2>3, <3>1, <3>2, <3>3 DEF Held, Present
    <3>5. SameRest(d) /\ SameRefused(d) /\ d \in Deploy
      BY <1>1, <1>2, <1>4, DeployAssumption DEF SameRest, SameRefused, TypeOK
    <3>6. ~Deploying(o)' /\ ~Removed(o)' => Settled(d)'
      BY <2>1, <2>3, <3>1, <3>2, <3>3, <3>5, SettledStays
    <3> QED
      BY <3>4, <3>6 DEF Honours
  <2> QED
    BY <2>2, <2>3 DEF Honours
<1> QED
  BY <1>6, <1>7, <1>8, <1>9, OneStep

LEMMA HonestFails == ASSUME TypeOK, HonestInv, NEW o \in Op, RequestFails(o) PROVE HonestInv'
<1> DEFINE d == DeployOf[o]
<1>1. StageOf(o) /\ pc[o] = "wait"
  BY DEF RequestFails, HonestInv, StageInv
<1>2. PICK next \in {"fail", "refused"} :
         /\ pc' = [pc EXCEPT ![o] = next]
         /\ next = "fail" <=> KindOf[o] \in Dispatching
  BY DEF RequestFails, Goto, OnError
<1>4. UNCHANGED <<wire, reader, runner, won, job, container, reply, row, cmds>> /\ trouble \subseteq trouble'
  BY DEF RequestFails, agentVars, netVars, dbVars
<1>6. /\ OneActs(o) /\ Onward(o) /\ pc'[o] = next
      /\ \A g \in Links : \A m \in NewsOf(g)' : m \in NewsOf(g)
      /\ Running(o)' <=> Running(o)
      /\ NewsInOrder(o) => NewsInOrder(o)'
  BY <1>2, <1>4, HandlerActs DEF Pc
<1>7. Sole(o)
  BY <1>1, <1>4, SoleWorker DEF Working, HonestInv
<1>8. StageOf(o)'
  BY <1>1, <1>2, <1>4, <1>6 DEF StageOf, Untold
<1>9. ASSUME d \notin trouble' PROVE OrderOf(o)' /\ Honours(o)
  <2>1. /\ OrderOf(o)
        /\ Alone(d) => Held(o) /\ (Working(o) /\ ~Deploying(o) /\ ~Removed(o) => Settled(d))
    BY <1>4, <1>9, HeldNow
  <2>2. ~Delivered(o)
    BY <1>9 DEF RequestFails
  <2>3. Untold(o)
    BY <1>1, <2>2 DEF Untold, Delivered, StageOf
  <2>4. OrderOf(o)'
    BY <1>2, <1>4, <1>6, <2>1, <2>3 DEF OrderOf, Untold
  <2>5. ASSUME Alone(d) PROVE Honours(o)
    <3>1. job'[o] = NoJob /\ Working(o) /\ o \notin won
      BY <1>1, <1>4, <2>3 DEF Working, Untold, StageOf
    <3>2. Deploying(o) <=> Deploying(o)'
      BY <1>1, <1>2, <1>4, <1>6, <2>3 DEF Deploying, Untold
    <3>3. ~Removed(o) /\ ~Removed(o)'
      BY <1>1, <1>2, <1>4, <1>6, <2>3 DEF Removed, Untold
    <3>4. Held(o)'
      BY <1>2, <1>4, <1>6, <2>1, <2>5, <3>1, <3>2, <3>3 DEF Held, Present
    <3>5. SameRest(d) /\ SameRefused(d) /\ d \in Deploy
      BY <1>1, <1>2, <1>4, DeployAssumption DEF SameRest, SameRefused, TypeOK
    <3>6. ~Deploying(o)' /\ ~Removed(o)' => Settled(d)'
      BY <2>1, <2>5, <3>1, <3>2, <3>3, <3>5, SettledStays
    <3> QED
      BY <3>4, <3>6 DEF Honours
  <2> QED
    BY <2>4, <2>5 DEF Honours
<1> QED
  BY <1>6, <1>7, <1>8, <1>9, OneStep

LEMMA HonestMarkFailed == ASSUME TypeOK, HonestInv, NEW o \in Op, MarkFailed(o) PROVE HonestInv'
<1> DEFINE d == DeployOf[o]
           new == [row[d] EXCEPT !.status = "failed",
                                 !.log = IF KindOf[o] = "legacy" THEN @ ELSE {}]
<1>1. d \in Deploy /\ row[d] \in Row
  BY DeployAssumption DEF TypeOK
<1>2. pc[o] = "fail" /\ StageOf(o) /\ Updates(d, new) /\ pc' = [pc EXCEPT ![o] = "refused"]
  BY DEF MarkFailed, Goto, HonestInv, StageInv
<1>3. new.status = "failed"
  BY <1>1 DEF Row
<1> HIDE DEF new
<1>4. UNCHANGED <<wire, reader, runner, won, job, container, reply, cmds, trouble>>
  BY DEF MarkFailed, agentVars, netVars
<1>5. /\ Present(d) => row'[d] = new
      /\ ~Present(d) => row'[d] = row[d]
      /\ \A e \in Deploy \ {d} : row'[e] = row[e]
  BY <1>1, <1>2, UpdatedRest
<1>6. /\ OneActs(o) /\ Onward(o) /\ pc'[o] = "refused"
      /\ \A g \in Links : \A m \in NewsOf(g)' : m \in NewsOf(g)
      /\ Running(o)' <=> Running(o)
      /\ NewsInOrder(o) => NewsInOrder(o)'
  BY <1>2, <1>4, <1>5, HandlerActs DEF Pc
<1>7. Sole(o)
  BY <1>2, <1>4, SoleWorker DEF Working, HonestInv
<1>8. StageOf(o)'
  BY <1>2, <1>4, <1>6 DEF StageOf, Untold
<1>9. ASSUME d \notin trouble' PROVE OrderOf(o)' /\ Honours(o)
  <2>1. OrderOf(o) /\ (Alone(d) => Held(o))
    BY <1>4, <1>9, HeldNow
  <2>2. OrderOf(o)' /\ Untold(o) /\ KindOf[o] \in Dispatching
    BY <1>2, <1>4, <1>6, <2>1 DEF OrderOf, StageOf, Untold
  <2>3. ASSUME Alone(d) PROVE Held(o)' /\ Settled(d)'
    <3>1. Present(d)
      BY <1>2, <2>1, <2>2, <2>3 DEF Held, Deploying
    <3>2. row'[d].status = "failed"
      BY <1>3, <1>5, <3>1
    <3>3. ~Removed(o)' /\ job'[o] = NoJob /\ o \notin won'
      BY <1>2, <1>4, <1>6, <2>2 DEF Removed, StageOf, Untold
    <3> QED
      BY <1>6, <3>2, <3>3 DEF Held, Present, Settled
  <2> QED
    BY <2>2, <2>3 DEF Honours
<1> QED
  BY <1>6, <1>7, <1>8, <1>9, OneStep

\* A stop or a delete that has come to its row has removed the container.
LEMMA HonestMarkStopped == ASSUME TypeOK, HonestInv, NEW o \in Op, MarkStopped(o) \/ EraseDeploy(o) PROVE HonestInv'
<1> DEFINE d == DeployOf[o]
           new == [row[d] EXCEPT !.status = "stopped"]
<1>1. d \in Deploy /\ row[d] \in Row
  BY DeployAssumption DEF TypeOK
<1>2. pc[o] \in {"mark", "erase"} /\ StageOf(o) /\ pc' = [pc EXCEPT ![o] = "done"]
  BY DEF MarkStopped, EraseDeploy, Goto, HonestInv, StageInv
<1>3. new.status = "stopped"
  BY <1>1 DEF Row
<1> HIDE DEF new
<1>4. UNCHANGED <<wire, reader, runner, won, job, container, reply, cmds, trouble>>
  BY DEF MarkStopped, EraseDeploy, agentVars, netVars
<1>5. /\ row'[d].status \in {"stopped", "deleted", "absent"}
      /\ \A e \in Deploy \ {d} : row'[e] = row[e]
  <2>1. CASE MarkStopped(o)
    <3>1. Updates(d, new)
      BY <2>1 DEF MarkStopped, new
    <3> QED
      BY <1>1, <1>3, <3>1, UpdatedRest DEF Present
  <2>2. CASE EraseDeploy(o)
    BY <1>1, <2>2 DEF EraseDeploy, TypeOK
  <2> QED
    BY <2>1, <2>2
<1>6. /\ OneActs(o) /\ Onward(o) /\ pc'[o] = "done"
      /\ \A g \in Links : \A m \in NewsOf(g)' : m \in NewsOf(g)
      /\ Running(o)' <=> Running(o)
      /\ NewsInOrder(o) => NewsInOrder(o)'
  BY <1>2, <1>4, <1>5, HandlerActs DEF Pc
<1>7. Sole(o)
  BY <1>2, <1>4, SoleWorker DEF Working, HonestInv
<1>8. StageOf(o)'
  BY <1>2, <1>4, <1>6 DEF StageOf, Untold
<1>9. ASSUME d \notin trouble' PROVE OrderOf(o)' /\ Honours(o)
  <2>1. OrderOf(o) /\ (Alone(d) => Held(o))
    BY <1>4, <1>9, HeldNow
  <2>2. OrderOf(o)' /\ job[o] = NoJob /\ KindOf[o] \notin Dispatching /\ o \notin won
    BY <1>2, <1>4, <1>6, <2>1 DEF OrderOf, StageOf, Untold
  <2>3. ASSUME Alone(d) PROVE Held(o)' /\ Settled(d)'
    <3>1. container[d] = NoContainer
      BY <1>2, <2>1, <2>2, <2>3 DEF Held, Removed
    <3>2. ~Deploying(o)' /\ ~Removed(o)'
      BY <1>4, <1>6, <2>2 DEF Removed, Deploying
    <3> QED
      BY <1>4, <1>5, <1>6, <2>2, <3>1, <3>2 DEF Held, Settled
  <2> QED
    BY <2>2, <2>3 DEF Honours
<1> QED
  BY <1>6, <1>7, <1>8, <1>9, OneStep

-----------------------------------------------------------------------------
(* The row and docker: the steps of a run *)

SameContainer(d) ==
    /\ container'[d] = NoContainer <=> container[d] = NoContainer
    /\ container'[d].by = container[d].by

LEMMA StoppedContainer ==
    ASSUME TypeOK, NEW e \in Deploy, DockerStop(e)
    PROVE  \A d \in Deploy : SameContainer(d)
<1>1. CASE container' = container
  BY <1>1 DEF SameContainer
<1>2. CASE /\ container' = [container EXCEPT ![e].state = "exited"]
           /\ container[e].state = "running"
  <2>1. container[e] \in Container
    BY DEF TypeOK
  <2>2. container'[e].state = "exited" /\ container'[e].by = container[e].by
    BY <1>2, <2>1 DEF TypeOK, Container
  <2>3. container'[e] # NoContainer /\ container[e] # NoContainer
    BY <1>2, <2>2 DEF NoContainer
  <2>4. \A d \in Deploy \ {e} : container'[d] = container[d]
    BY <1>2 DEF TypeOK
  <2> QED
    BY <2>2, <2>3, <2>4 DEF SameContainer
<1> QED
  BY <1>1, <1>2 DEF DockerStop

LEMMA AgentActs ==
    ASSUME TypeOK, NEW o \in Op, UNCHANGED <<wire, reader, row, pc, trouble>>,
           \A p \in Op \ {o} : /\ runner'[p] = runner[p] /\ reply'[p] = reply[p] /\ job'[p] = job[p]
                               /\ p \in cmds' <=> p \in cmds
                               /\ p \in won' <=> p \in won,
           \A d \in Deploy \ {DeployOf[o]} : Alone(d) => SameContainer(d)
    PROVE  /\ OneActs(o) /\ SameNews(o)
           /\ \A g \in Links : \A m \in NewsOf(g)' : m \in NewsOf(g)
           /\ (runner'[o] = "ended" => runner[o] = "ended") => (NewsInOrder(o) => NewsInOrder(o)')
<1>1. (\A p \in Op : SameNews(p)) /\ \A g \in Links : NewsOf(g)' = NewsOf(g)
  BY QuietNews
<1>2. OneActs(o)
  BY <1>1 DEF OneActs, SameOp, SameRest, SameContainer
<1>3. (runner'[o] = "ended" => runner[o] = "ended") => (NewsInOrder(o) => NewsInOrder(o)')
  BY <1>1 DEF NewsInOrder, SameNews
<1> QED
  BY <1>1, <1>2, <1>3

LEMMA HonestStartRun == ASSUME TypeOK, HonestInv, NEW o \in Op, StartRun(o) PROVE HonestInv'
<1> DEFINE d == DeployOf[o]
<1>1. StageOf(o) /\ o \in cmds /\ KindOf[o] \in Dispatching /\ cmds' = cmds \ {o}
  BY DEF StartRun, HonestInv, StageInv
<1>2. /\ runner'[o] = "build" /\ reply'[o] = "ok"
      /\ \A p \in Op \ {o} : runner'[p] = runner[p] /\ reply'[p] = reply[p]
  BY DEF StartRun, RunnerTo, TypeOK
<1>3. UNCHANGED <<wire, reader, row, pc, trouble, job, won, container>>
  BY DEF StartRun, dbVars, netVars
<1>4. /\ OneActs(o) /\ SameNews(o)
      /\ \A g \in Links : \A m \in NewsOf(g)' : m \in NewsOf(g)
      /\ NewsInOrder(o) => NewsInOrder(o)'
  BY <1>1, <1>2, <1>3, AgentActs DEF SameContainer
<1>5. runner[o] = "none" /\ Onward(o)
  BY <1>1 DEF StageOf, Onward
<1>6. Sole(o)
  BY <1>1, <1>3, SoleWorker DEF Working, HonestInv
<1>7. StageOf(o)'
  BY <1>1, <1>2, <1>3 DEF StageOf, Untold
<1>8. ASSUME d \notin trouble' PROVE OrderOf(o)' /\ Honours(o)
  <2>1. OrderOf(o) /\ (Alone(d) => Held(o))
    BY <1>3, <1>8, HeldNow
  <2>2. pc[o] = "wait" /\ job[o] = NoJob /\ o \notin won
    BY <1>1, <2>1 DEF OrderOf, StageOf
  <2>3. OrderOf(o)'
    BY <1>1, <1>3, <1>4, <2>1, <2>2 DEF OrderOf
  <2>4. ASSUME Alone(d) PROVE Held(o)' /\ Deploying(o)'
    <3>1. Present(d)
      BY <1>1, <1>5, <2>1, <2>2, <2>4 DEF Held, Deploying
    <3>2. Deploying(o)' /\ ~Removed(o)'
      BY <1>1, <1>2 DEF Deploying, Running, Removed
    <3> QED
      BY <1>3, <2>2, <3>1, <3>2 DEF Held, Present
  <2> QED
    BY <2>3, <2>4 DEF Honours
<1> QED
  BY <1>4, <1>5, <1>6, <1>7, <1>8, OneStep

\* A run that goes on may do what it likes with the container, for the row is not settled.
LEMMA HonestRunGoesOn ==
    ASSUME TypeOK, HonestInv, NEW o \in Op, runner[o] \in {"build", "stop", "rm", "run"},
           NEW next \in {"stop", "rm", "run", "result"}, runner' = [runner EXCEPT ![o] = next],
           UNCHANGED <<wire, reader, row, pc, trouble, job, reply, cmds>>,
           won' \in {won, won \cup {o}},
           \A e \in Deploy \ {DeployOf[o]} : container'[e] = container[e],
           o \in won' => /\ next = "result" /\ container'[DeployOf[o]] # NoContainer
                         /\ container'[DeployOf[o]].by = o
    PROVE  HonestInv'
<1> DEFINE d == DeployOf[o]
<1>1. StageOf(o) /\ KindOf[o] \in Dispatching
  BY DEF HonestInv, StageInv, StageOf
<1>2. runner'[o] = next /\ \A p \in Op \ {o} : runner'[p] = runner[p]
  BY DEF TypeOK
<1>4. /\ OneActs(o) /\ SameNews(o)
      /\ \A g \in Links : \A m \in NewsOf(g)' : m \in NewsOf(g)
      /\ NewsInOrder(o) => NewsInOrder(o)'
  BY <1>2, AgentActs DEF SameContainer
<1>5. Onward(o)
  BY <1>2 DEF Onward
<1>6. Sole(o)
  BY SoleWorker DEF Working, Running, HonestInv
<1>7. StageOf(o)'
  BY <1>1, <1>2 DEF StageOf, Untold
<1>8. ASSUME d \notin trouble' PROVE OrderOf(o)' /\ Honours(o)
  <2>1. OrderOf(o) /\ (Alone(d) => Held(o))
    BY <1>8, HeldNow
  <2>2. pc[o] \in {"wait", "done"} /\ job[o] = NoJob /\ o \notin cmds
    BY <1>1, <2>1 DEF OrderOf, StageOf
  <2>3. OrderOf(o)'
    BY <1>4, <2>1, <2>2 DEF OrderOf
  <2>4. ASSUME Alone(d) PROVE Held(o)' /\ Deploying(o)'
    <3>1. Present(d)
      BY <1>1, <2>1, <2>4 DEF Held, Deploying, Running
    <3>2. Deploying(o)' /\ ~Removed(o)'
      BY <1>1, <1>2 DEF Deploying, Running, Removed
    <3> QED
      BY <2>2, <3>1, <3>2 DEF Held, Present
  <2> QED
    BY <2>3, <2>4 DEF Honours
<1> QED
  BY <1>4, <1>5, <1>6, <1>7, <1>8, OneStep

LEMMA HonestRunner ==
    ASSUME TypeOK, HonestInv, NEW o \in Op,
           BuildDone(o) \/ RunFails(o) \/ StopOld(o) \/ RemoveOld(o) \/ RunContainer(o)
    PROVE  HonestInv'
<1> DEFINE d == DeployOf[o]
<1>1. d \in Deploy /\ (runner[o] \in {"build", "stop", "rm", "run"} => o \notin won)
  BY DeployAssumption DEF HonestInv, StageInv, StageOf
<1>2. CASE BuildDone(o)
  <2>1. /\ runner[o] = "build" /\ runner' = [runner EXCEPT ![o] = "stop"]
        /\ UNCHANGED <<wire, reader, row, pc, trouble, job, reply, cmds, won, container>>
    BY <1>2 DEF BuildDone, RunnerTo, dbVars, opVars, netVars
  <2> QED
    BY <1>1, <2>1, HonestRunGoesOn
<1>3. CASE RunFails(o)
  <2>1. /\ runner[o] \in {"build", "stop", "rm", "run"} /\ runner' = [runner EXCEPT ![o] = "result"]
        /\ UNCHANGED <<wire, reader, row, pc, trouble, job, reply, cmds, won>>
        /\ \A e \in Deploy \ {d} : container'[e] = container[e]
    BY <1>3 DEF RunFails, RunnerTo, dbVars, opVars, netVars, TypeOK
  <2> QED
    BY <1>1, <2>1, HonestRunGoesOn
<1>4. CASE StopOld(o)
  <2>1. /\ runner[o] = "stop" /\ runner' = [runner EXCEPT ![o] = "rm"]
        /\ UNCHANGED <<wire, reader, row, pc, trouble, job, reply, cmds, won>>
        /\ \A e \in Deploy \ {d} : container'[e] = container[e]
    BY <1>4 DEF StopOld, DockerStop, RunnerTo, dbVars, opVars, netVars, TypeOK
  <2> QED
    BY <1>1, <2>1, HonestRunGoesOn
<1>5. CASE RemoveOld(o)
  <2>1. PICK next \in {"run", "result"} :
           /\ runner[o] = "rm" /\ runner' = [runner EXCEPT ![o] = next]
           /\ UNCHANGED <<wire, reader, row, pc, trouble, job, reply, cmds, won>>
           /\ \A e \in Deploy \ {d} : container'[e] = container[e]
    BY <1>5 DEF RemoveOld, DockerRm, RunnerTo, dbVars, opVars, netVars, TypeOK
  <2> QED
    BY <1>1, <2>1, HonestRunGoesOn
<1>6. CASE RunContainer(o)
  <2>1. /\ runner[o] = "run" /\ runner' = [runner EXCEPT ![o] = "result"]
        /\ UNCHANGED <<wire, reader, row, pc, trouble, job, reply, cmds>>
    BY <1>6 DEF RunContainer, RunnerTo, dbVars, opVars, netVars
  <2>2. CASE container[d] = NoContainer
    <3>1. container' = [container EXCEPT ![d] = [state |-> "running", by |-> o]] /\ won' = won \cup {o}
      BY <1>6, <2>2 DEF RunContainer
    <3>2. container'[d] = [state |-> "running", by |-> o] /\ \A e \in Deploy \ {d} : container'[e] = container[e]
      BY <1>1, <3>1 DEF TypeOK
    <3>3. container'[d] # NoContainer /\ container'[d].by = o
      BY <3>2 DEF NoContainer
    <3> QED
      BY <2>1, <3>1, <3>2, <3>3, HonestRunGoesOn
  <2>3. CASE container[d] # NoContainer
    <3>1. UNCHANGED <<container, won>>
      BY <1>6, <2>3 DEF RunContainer
    <3> QED
      BY <1>1, <2>1, <3>1, HonestRunGoesOn
  <2> QED
    BY <2>2, <2>3
<1> QED
  BY <1>2, <1>3, <1>4, <1>5, <1>6

\* What a run reports goes over one connection as long as there is no trouble.
LEMMA HonestReports ==
    ASSUME TypeOK, HonestInv, NEW o \in Op, runner[o] \notin {"none", "ended"},
           NEW kind \in {"log", "result", "complete"}, Report(o, kind),
           NEW next, runner' = [runner EXCEPT ![o] = next],
           next # "none", next = "ended" <=> kind = "complete",
           o \in won => next \in {"result", "complete", "ended"},
           UNCHANGED <<row, pc, reply, cmds, job, won, container, link, reader>>
    PROVE  HonestInv'
<1> DEFINE d == DeployOf[o]
<1>1. StageOf(o) /\ KindOf[o] \in Dispatching
  BY DEF HonestInv, StageInv, StageOf
<1>2. runner'[o] = next /\ \A p \in Op \ {o} : runner'[p] = runner[p]
  BY DEF TypeOK
<1>3. PICK at \in Links : at = link.at
  BY DEF TypeOK
<1>4. PICK m : m = [kind |-> kind, run |-> o, ok |-> o \in won]
  OBVIOUS
<1>5. /\ \A p \in Op \ {o} : SameNews(p)
      /\ \A g \in Links : Pending(g, o) => Pending(g, o)'
      /\ \A g \in Links : Pending(g, o)' => Pending(g, o) \/ (link.up /\ g = at)
      /\ link.up => Pending(at, o)'
      /\ link.up /\ kind = "complete" => Closing(at, o)'
      /\ \A g \in Links : \A n \in NewsOf(g)' : n \in NewsOf(g) \/ n = m
  BY <1>3, <1>4, SentNews
<1>6. TrueTo(m)'
  <2>1. m.kind = kind /\ m.run = o /\ m.ok = (o \in won)
    BY <1>4
  <2> QED
    BY <1>2, <2>1 DEF TrueTo
<1>7. trouble \subseteq trouble'
  BY DEF Report
<1>8. OneActs(o)
  BY <1>2, <1>5, <1>7 DEF OneActs, SameOp, SameRest
<1>9. Onward(o)
  BY <1>2 DEF Onward
<1>10. Sole(o)
  BY <1>7, SoleWorker DEF Working, Running, HonestInv
<1>11. StageOf(o)'
  BY <1>1, <1>2 DEF StageOf, Untold
<1>12. ASSUME d \notin trouble' PROVE OrderOf(o)' /\ Honours(o)
  <2>1. OrderOf(o) /\ (Alone(d) => Held(o))
    BY <1>7, <1>12, HeldNow
  <2>2. pc[o] \in {"wait", "done"} /\ job[o] = NoJob /\ o \notin cmds
    BY <1>1, <2>1 DEF OrderOf, StageOf
  <2>3. /\ kind = "complete" => link.up
        /\ link.up => \A g \in Links \ {at} : ~Unapplied(g, d)
    BY <1>3, <1>12 DEF Report
  <2>4. link.up => \A g \in Links \ {at} : ~Pending(g, o)
    <3> SUFFICES ASSUME NEW g \in Links, Pending(g, o) PROVE Unapplied(g, d)
      BY <2>3
    <3> QED
      BY DEF Unapplied, About, Pending, NewsOf, Queue
  <2>5. NewsInOrder(o)'
    <3>1. \A g, h \in Links : Pending(g, o)' /\ Pending(h, o)' => g = h
      BY <1>5, <2>1, <2>4 DEF OrderOf, NewsInOrder
    <3>2. runner'[o] = "ended" => \A g \in Links : Pending(g, o)' => Closing(g, o)'
      BY <1>2, <1>5, <2>3, <2>4
    <3> QED
      BY <3>1, <3>2 DEF NewsInOrder
  <2>6. OrderOf(o)'
    BY <2>1, <2>2, <2>5 DEF OrderOf
  <2>7. ASSUME Alone(d) PROVE Held(o)' /\ Deploying(o)'
    <3>1. Running(o) /\ Running(o)'
      BY <1>2, <1>3, <1>5, <2>3 DEF Running
    <3>2. Deploying(o) /\ Deploying(o)' /\ ~Removed(o)'
      BY <1>1, <3>1 DEF Deploying, Removed
    <3> QED
      BY <2>1, <2>2, <2>7, <3>1, <3>2 DEF Held, Present
  <2> QED
    BY <2>6, <2>7 DEF Honours
<1> QED
  BY <1>5, <1>6, <1>8, <1>9, <1>10, <1>11, <1>12, OneStep

LEMMA HonestSends ==
    ASSUME TypeOK, HonestInv, NEW o \in Op, LogLine(o) \/ SendResult(o) \/ SendComplete(o)
    PROVE  HonestInv'
<1>1. o \in won => runner[o] \in {"result", "complete", "ended"}
  BY DEF HonestInv, StageInv, StageOf
<1>2. CASE LogLine(o)
  <2>1. /\ runner[o] \notin {"none", "ended"} /\ runner' = [runner EXCEPT ![o] = runner[o]]
        /\ Report(o, "log")
        /\ UNCHANGED <<row, pc, reply, cmds, job, won, container, link, reader>>
    BY <1>2 DEF LogLine, dbVars, opVars, TypeOK
  <2> QED
    BY <1>1, <2>1, HonestReports
<1>3. CASE SendResult(o)
  <2>1. /\ runner[o] = "result" /\ runner' = [runner EXCEPT ![o] = "complete"]
        /\ Report(o, "result")
        /\ UNCHANGED <<row, pc, reply, cmds, job, won, container, link, reader>>
    BY <1>3 DEF SendResult, RunnerTo, dbVars, opVars
  <2> QED
    BY <2>1, HonestReports
<1>4. CASE SendComplete(o)
  <2>1. /\ runner[o] = "complete" /\ runner' = [runner EXCEPT ![o] = "ended"]
        /\ Report(o, "complete")
        /\ UNCHANGED <<row, pc, reply, cmds, job, won, container, link, reader>>
    BY <1>4 DEF SendComplete, RunnerTo, dbVars, opVars
  <2> QED
    BY <2>1, HonestReports
<1> QED
  BY <1>2, <1>3, <1>4

-----------------------------------------------------------------------------
(* The row and docker: the steps of a stop or a delete on the agent *)

LEMMA IsJob == ASSUME NEW j \in Job PROVE j # NoJob
<1>1. "now" \in DOMAIN j
  BY DEF Job
<1>2. "now" \notin DOMAIN NoJob
  BY DEF NoJob
<1> QED
  BY <1>1, <1>2

\* Docker is asked for no container that belongs to a deploy that is alone, but one's own.
LEMMA OwnContainers ==
    ASSUME NEW o \in Op, NEW e \in {DeployOf[o]} \cup Lookalike[DeployOf[o]], NEW d \in Deploy, d # DeployOf[o], Alone(d)
    PROVE  e # d
  BY DeployAssumption DEF Alone

LEMMA HonestStartStop == ASSUME TypeOK, HonestInv, NEW o \in Op, StartStop(o) PROVE HonestInv'
<1> DEFINE d == DeployOf[o]
<1>1. /\ StageOf(o) /\ o \in cmds /\ KindOf[o] \notin Dispatching /\ cmds' = cmds \ {o}
      /\ d \in Deploy /\ Listed(d) \subseteq Lookalike[d] /\ Lookalike[d] \subseteq Deploy
  BY DeployAssumption, LookalikeAssumption DEF StartStop, HonestInv, StageInv, Listed
<1>2. PICK j : /\ job' = [job EXCEPT ![o] = j]
               /\ \E found \in {{}, Listed(d)} : j = [todo |-> {d} \cup found, now |-> {}, failed |-> FALSE]
  <2>1. PICK found \in {{}, Listed(d)} :
           job' = [job EXCEPT ![o] = [todo |-> {d} \cup found, now |-> {}, failed |-> FALSE]]
    BY DEF StartStop
  <2>2. PICK j : j = [todo |-> {d} \cup found, now |-> {}, failed |-> FALSE]
    OBVIOUS
  <2>3. job' = [job EXCEPT ![o] = j]
    BY <2>1, <2>2
  <2> QED
    BY <2>2, <2>3
<1>3. j \in Job /\ j # NoJob
  <2>1. PICK t \in SUBSET Deploy : j = [todo |-> t, now |-> {}, failed |-> FALSE]
    <3>1. PICK found \in {{}, Listed(d)} : j = [todo |-> {d} \cup found, now |-> {}, failed |-> FALSE]
      BY <1>2
    <3>2. {d} \cup found \subseteq Deploy
      BY <1>1, <3>1
    <3> QED
      BY <3>1, <3>2
  <2>2. j \in Job
    BY <2>1 DEF Job
  <2> QED
    BY <2>2, IsJob
<1>4. job'[o] = j /\ \A p \in Op \ {o} : job'[p] = job[p]
  BY <1>2 DEF TypeOK
<1>5. UNCHANGED <<wire, reader, row, pc, trouble, reply, runner, won, container>>
  BY DEF StartStop, dbVars, netVars
<1>6. /\ OneActs(o) /\ SameNews(o)
      /\ \A g \in Links : \A m \in NewsOf(g)' : m \in NewsOf(g)
      /\ NewsInOrder(o) => NewsInOrder(o)'
  BY <1>1, <1>4, <1>5, AgentActs DEF SameContainer
<1>7. Onward(o)
  BY <1>5 DEF Onward
<1>8. Sole(o)
  BY <1>1, <1>5, SoleWorker DEF Working, HonestInv
<1>9. j.todo \cup j.now \subseteq {d} \cup Lookalike[d]
  BY <1>1, <1>2
<1>10. StageOf(o)'
  BY <1>1, <1>4, <1>5, <1>9 DEF StageOf, Untold
<1>11. ASSUME d \notin trouble' PROVE OrderOf(o)' /\ Honours(o)
  <2>1. /\ OrderOf(o)
        /\ Alone(d) => Held(o) /\ (Working(o) /\ ~Deploying(o) /\ ~Removed(o) => Settled(d))
    BY <1>5, <1>11, HeldNow
  <2>2. pc[o] = "wait" /\ reply[o] = "none" /\ runner[o] = "none" /\ o \notin won /\ job[o] = NoJob
    BY <1>1, <2>1 DEF OrderOf, StageOf
  <2>3. OrderOf(o)'
    BY <1>5, <1>6, <2>1, <2>2 DEF OrderOf
  <2>4. ASSUME Alone(d) PROVE Honours(o)
    <3>1. j.todo = {d} /\ j.now = {} /\ ~j.failed
      BY <1>1, <1>2, <2>4 DEF Alone
    <3>2. ~Removed(o) /\ ~Removed(o)' /\ ~Deploying(o) /\ ~Deploying(o)' /\ Working(o)
      BY <1>1, <1>4, <1>5, <2>2, <3>1 DEF Removed, Deploying, Working
    <3>3. Held(o)'
      BY <1>1, <1>4, <1>5, <2>2, <3>1, <3>2 DEF Held, Cleanup
    <3>4. SameRest(d) /\ SameRefused(d)
      BY <1>5 DEF SameRest, SameRefused
    <3>5. Settled(d)'
      BY <1>1, <2>1, <2>4, <3>2, <3>4, SettledStays
    <3> QED
      BY <3>3, <3>5 DEF Honours
  <2> QED
    BY <2>3, <2>4 DEF Honours
<1> QED
  BY <1>6, <1>7, <1>8, <1>10, <1>11, OneStep

Over(j) == j.todo = {} /\ j.now = {} /\ ~j.failed

\* A cleanup that goes on leaves the container, or removes it and has then nothing more to do.
LEMMA HonestCleanup ==
    ASSUME TypeOK, HonestInv, NEW o \in Op, job[o] # NoJob, NEW j \in Job,
           job' = [job EXCEPT ![o] = j],
           UNCHANGED <<wire, reader, row, pc, trouble, reply, cmds, runner, won>>,
           j.todo \cup j.now \subseteq job[o].todo \cup job[o].now,
           \A e \in Deploy : e \notin job[o].todo \cup job[o].now => SameContainer(e),
           ~Over(job[o]),
           Cleanup(job[o], DeployOf[o]) =>
               /\ Cleanup(j, DeployOf[o])
               /\ IF Over(j) THEN container'[DeployOf[o]] = NoContainer ELSE SameContainer(DeployOf[o])
    PROVE  HonestInv'
<1> DEFINE d == DeployOf[o]
<1>1. StageOf(o) /\ d \in Deploy
  BY DeployAssumption DEF HonestInv, StageInv
<1>2. /\ KindOf[o] \notin Dispatching /\ reply[o] = "none" /\ o \notin cmds /\ runner[o] = "none" /\ o \notin won
      /\ job[o].todo \cup job[o].now \subseteq {d} \cup Lookalike[d]
  BY <1>1 DEF StageOf
<1>3. j # NoJob
  BY IsJob
<1>4. job'[o] = j /\ \A p \in Op \ {o} : job'[p] = job[p]
  BY DEF TypeOK
<1>5. \A e \in Deploy \ {d} : Alone(e) => SameContainer(e)
  BY <1>2, OwnContainers
<1>6. /\ OneActs(o) /\ SameNews(o)
      /\ \A g \in Links : \A m \in NewsOf(g)' : m \in NewsOf(g)
      /\ NewsInOrder(o) => NewsInOrder(o)'
  BY <1>4, <1>5, AgentActs
<1>7. Onward(o)
  BY DEF Onward
<1>8. Sole(o)
  BY SoleWorker DEF Working, HonestInv
<1>9. StageOf(o)'
  BY <1>1, <1>2, <1>3, <1>4 DEF StageOf, Untold
<1>10. ASSUME d \notin trouble' PROVE OrderOf(o)' /\ Honours(o)
  <2>1. /\ OrderOf(o)
        /\ Alone(d) => Held(o) /\ (Working(o) /\ ~Deploying(o) /\ ~Removed(o) => Settled(d))
    BY <1>10, HeldNow
  <2>2. pc[o] = "wait"
    BY <2>1 DEF OrderOf
  <2>3. OrderOf(o)'
    BY <1>2, <1>6, <2>1, <2>2 DEF OrderOf
  <2>4. ASSUME Alone(d) PROVE Honours(o)
    <3>1. Cleanup(job[o], d)
      BY <2>1, <2>4 DEF Held
    <3>2. ~Removed(o) /\ ~Deploying(o) /\ ~Deploying(o)' /\ Working(o) /\ (Removed(o)' <=> Over(j))
      BY <1>2, <1>3, <1>4, <2>2 DEF Removed, Deploying, Working, Over
    <3>3. Held(o)'
      BY <1>2, <1>4, <2>2, <3>1, <3>2 DEF Held
    <3>4. ASSUME ~Over(j) PROVE Settled(d)'
      <4>1. SameRest(d) /\ SameRefused(d)
        BY <3>1, <3>4 DEF SameRest, SameRefused, SameContainer
      <4> QED
        BY <1>1, <2>1, <2>4, <3>2, <4>1, SettledStays
    <3> QED
      BY <3>2, <3>3, <3>4 DEF Honours
  <2> QED
    BY <2>3, <2>4 DEF Honours
<1> QED
  BY <1>6, <1>7, <1>8, <1>9, <1>10, OneStep

LEMMA HonestStopper ==
    ASSUME TypeOK, HonestInv, NEW o \in Op, StopContainer(o) \/ RemoveContainer(o) \/ CleanupFails(o)
    PROVE  HonestInv'
<1> DEFINE d == DeployOf[o]
<1>1. PICK k \in Job : k = job[o]
  BY JobType DEF StopContainer, RemoveContainer, CleanupFails
<1>2. /\ job[o] # NoJob
      /\ UNCHANGED <<wire, reader, row, pc, trouble, reply, cmds, runner, won>>
  BY DEF StopContainer, RemoveContainer, CleanupFails, dbVars, opVars, netVars
<1>3. k.todo \subseteq Deploy /\ k.now \subseteq Deploy /\ d \in Deploy
  BY DeployAssumption DEF Job
<1>4. CASE StopContainer(o)
  <2>1. PICK e \in k.todo : /\ k.now = {} /\ DockerStop(e)
                            /\ job' = [job EXCEPT ![o] = [k EXCEPT !.todo = @ \ {e}, !.now = {e}]]
    BY <1>1, <1>4 DEF StopContainer
  <2>2. PICK j : j = [k EXCEPT !.todo = @ \ {e}, !.now = {e}]
    OBVIOUS
  <2>3. j \in Job /\ j.todo = k.todo \ {e} /\ j.now = {e} /\ j.failed = k.failed
    BY <1>3, <2>1, <2>2 DEF Job
  <2>4. \A x \in Deploy : SameContainer(x)
    BY <1>3, <2>1, StoppedContainer
  <2>5. ~Over(k) /\ ~Over(j) /\ (Cleanup(k, d) => Cleanup(j, d))
    BY <2>1, <2>3 DEF Over, Cleanup
  <2>6. j.todo \cup j.now \subseteq k.todo \cup k.now /\ job' = [job EXCEPT ![o] = j]
    BY <2>1, <2>2, <2>3
  <2> QED
    BY <1>1, <1>2, <1>3, <2>3, <2>4, <2>5, <2>6, HonestCleanup
<1>5. CASE RemoveContainer(o)
  <2>1. PICK e \in k.now :
           \/ DockerRm(e) /\ job' = [job EXCEPT ![o] = [k EXCEPT !.now = {}]]
           \/ container' = container /\ job' = [job EXCEPT ![o] = [k EXCEPT !.now = {}, !.failed = TRUE]]
    BY <1>1, <1>5 DEF RemoveContainer
  <2>2. CASE DockerRm(e) /\ job' = [job EXCEPT ![o] = [k EXCEPT !.now = {}]]
    <3>1. PICK j : j = [k EXCEPT !.now = {}]
      OBVIOUS
    <3>2. j \in Job /\ j.todo = k.todo /\ j.now = {} /\ j.failed = k.failed
      BY <3>1 DEF Job
    <3>3. container'[e] = NoContainer /\ \A x \in Deploy \ {e} : container'[x] = container[x]
      BY <1>3, <2>1, <2>2 DEF DockerRm, TypeOK
    <3>4. ~Over(k) /\ (Cleanup(k, d) => Cleanup(j, d) /\ e = d /\ Over(j))
      BY <2>1, <3>2 DEF Over, Cleanup
    <3>5. \A x \in Deploy : x \notin k.todo \cup k.now => SameContainer(x)
      BY <2>1, <3>3 DEF SameContainer
    <3>6. j.todo \cup j.now \subseteq k.todo \cup k.now /\ job' = [job EXCEPT ![o] = j]
      BY <2>2, <3>1, <3>2
    <3> QED
      BY <1>1, <1>2, <1>3, <3>2, <3>3, <3>4, <3>5, <3>6, HonestCleanup
  <2>3. CASE container' = container /\ job' = [job EXCEPT ![o] = [k EXCEPT !.now = {}, !.failed = TRUE]]
    <3>1. PICK j : j = [k EXCEPT !.now = {}, !.failed = TRUE]
      OBVIOUS
    <3>2. j \in Job /\ j.todo = k.todo /\ j.now = {} /\ j.failed
      BY <3>1 DEF Job
    <3>4. ~Over(k) /\ ~Over(j) /\ (Cleanup(k, d) => Cleanup(j, d))
      BY <2>1, <3>2 DEF Over, Cleanup
    <3>5. \A x \in Deploy : SameContainer(x)
      BY <2>3 DEF SameContainer
    <3>6. j.todo \cup j.now \subseteq k.todo \cup k.now /\ job' = [job EXCEPT ![o] = j]
      BY <2>3, <3>1, <3>2
    <3> QED
      BY <1>1, <1>2, <1>3, <3>2, <3>4, <3>5, <3>6, HonestCleanup
  <2> QED
    BY <2>1, <2>2, <2>3
<1>6. CASE CleanupFails(o)
  <2>1. \A x \in Deploy : SameContainer(x)
    BY <1>6 DEF CleanupFails, SameContainer
  <2>2. CASE k.now # {} /\ job' = [job EXCEPT ![o] = [k EXCEPT !.now = {}, !.failed = TRUE]]
    <3>1. PICK j : j = [k EXCEPT !.now = {}, !.failed = TRUE]
      OBVIOUS
    <3>2. j \in Job /\ j.todo = k.todo /\ j.now = {} /\ j.failed
      BY <3>1 DEF Job
    <3>4. ~Over(k) /\ ~Over(j) /\ (Cleanup(k, d) => Cleanup(j, d))
      BY <2>2, <3>2 DEF Over, Cleanup
    <3>6. j.todo \cup j.now \subseteq k.todo \cup k.now /\ job' = [job EXCEPT ![o] = j]
      BY <2>2, <3>1, <3>2
    <3> QED
      BY <1>1, <1>2, <1>3, <2>1, <3>2, <3>4, <3>6, HonestCleanup
  <2>3. CASE k.now = {} /\ \E e \in k.todo : job' = [job EXCEPT ![o] = [k EXCEPT !.todo = @ \ {e}, !.failed = TRUE]]
    <3>1. PICK e \in k.todo : job' = [job EXCEPT ![o] = [k EXCEPT !.todo = @ \ {e}, !.failed = TRUE]]
      BY <2>3
    <3>2. PICK j : j = [k EXCEPT !.todo = @ \ {e}, !.failed = TRUE]
      OBVIOUS
    <3>3. j \in Job /\ j.todo = k.todo \ {e} /\ j.now = {} /\ j.failed
      BY <2>3, <3>2 DEF Job
    <3>4. ~Over(k) /\ ~Over(j) /\ (Cleanup(k, d) => Cleanup(j, d))
      BY <2>3, <3>3 DEF Over, Cleanup
    <3>6. j.todo \cup j.now \subseteq k.todo \cup k.now /\ job' = [job EXCEPT ![o] = j]
      BY <3>1, <3>2, <3>3
    <3> QED
      BY <1>1, <1>2, <1>3, <2>1, <3>3, <3>4, <3>6, HonestCleanup
  <2> QED
    BY <1>1, <1>6, <2>2, <2>3 DEF CleanupFails
<1> QED
  BY <1>4, <1>5, <1>6

LEMMA HonestAnswerStop == ASSUME TypeOK, HonestInv, NEW o \in Op, AnswerStop(o) PROVE HonestInv'
<1> DEFINE d == DeployOf[o]
<1>1. StageOf(o) /\ job[o] # NoJob /\ job[o].now = {} /\ job[o].todo = {} /\ d \in Deploy
  BY DeployAssumption DEF AnswerStop, HonestInv, StageInv
<1>2. KindOf[o] \notin Dispatching /\ reply[o] = "none" /\ o \notin cmds /\ runner[o] = "none" /\ o \notin won
  BY <1>1 DEF StageOf
<1>3. /\ job'[o] = NoJob /\ reply'[o] = (IF job[o].failed THEN "error" ELSE "ok")
      /\ \A p \in Op \ {o} : job'[p] = job[p] /\ reply'[p] = reply[p]
  BY DEF AnswerStop, TypeOK
<1>4. UNCHANGED <<wire, reader, row, pc, trouble, cmds, runner, won, container>>
  BY DEF AnswerStop, dbVars, netVars
<1>6. /\ OneActs(o) /\ SameNews(o)
      /\ \A g \in Links : \A m \in NewsOf(g)' : m \in NewsOf(g)
      /\ NewsInOrder(o) => NewsInOrder(o)'
  BY <1>3, <1>4, AgentActs DEF SameContainer
<1>7. Onward(o)
  BY <1>4 DEF Onward
<1>8. Sole(o)
  BY <1>1, <1>4, SoleWorker DEF Working, HonestInv
<1>9. StageOf(o)'
  BY <1>1, <1>2, <1>3, <1>4 DEF StageOf, Untold
<1>10. ASSUME d \notin trouble' PROVE OrderOf(o)' /\ Honours(o)
  <2>1. /\ OrderOf(o)
        /\ Alone(d) => Held(o) /\ (Working(o) /\ ~Deploying(o) /\ ~Removed(o) => Settled(d))
    BY <1>4, <1>10, HeldNow
  <2>2. pc[o] = "wait"
    BY <1>1, <2>1 DEF OrderOf
  <2>3. OrderOf(o)'
    BY <1>2, <1>3, <1>4, <1>6, <2>1, <2>2 DEF OrderOf
  <2>4. ASSUME Alone(d) PROVE Honours(o)
    <3>1. ~Deploying(o) /\ ~Deploying(o)' /\ Working(o)
      BY <1>1, <1>2 DEF Deploying, Working
    <3>2. Removed(o) <=> Removed(o)'
      BY <1>1, <1>2, <1>3, <1>4, <2>2 DEF Removed
    <3>3. Held(o)'
      BY <1>2, <1>3, <1>4, <2>1, <2>2, <2>4, <3>1, <3>2 DEF Held
    <3>4. SameRest(d) /\ SameRefused(d)
      BY <1>4 DEF SameRest, SameRefused
    <3>5. ~Removed(o)' => Settled(d)'
      BY <1>1, <2>1, <2>4, <3>1, <3>2, <3>4, SettledStays
    <3> QED
      BY <3>3, <3>5 DEF Honours
  <2> QED
    BY <2>3, <2>4 DEF Honours
<1> QED
  BY <1>6, <1>7, <1>8, <1>9, <1>10, OneStep

-----------------------------------------------------------------------------
(* The row and docker: the steps of the read loops *)

LEMMA IsHandling == ASSUME NEW m, NEW l PROVE [msg |-> m, log |-> l] # Idle
<1>1. "log" \notin DOMAIN Idle
  BY DEF Idle
<1>2. "log" \in DOMAIN [msg |-> m, log |-> l]
  OBVIOUS
<1> QED
  BY <1>1, <1>2

\* A message under way is of a dispatched run at work, which holds its deploy.
LEMMA MessageOf ==
    ASSUME TypeOK, HonestInv, NEW g \in Links, NEW m \in NewsOf(g)
    PROVE  /\ m.run \in Op /\ TrueTo(m) /\ Pending(g, m.run)
           /\ KindOf[m.run] \in Dispatching /\ runner[m.run] # "none" /\ job[m.run] = NoJob
           /\ Running(m.run) /\ Working(m.run) /\ Deploying(m.run)
<1>1. m.run \in Op /\ TrueTo(m) /\ Pending(g, m.run)
  BY NewsType DEF HonestInv, MessageInv, Pending
<1>2. StageOf(m.run) /\ runner[m.run] # "none"
  BY <1>1 DEF HonestInv, StageInv, TrueTo
<1>3. Running(m.run)
  BY <1>1 DEF Running
<1> QED
  BY <1>1, <1>2, <1>3 DEF StageOf, Working, Deploying

LEMMA HonestReads == ASSUME TypeOK, HonestInv, NEW g \in Links, ReadLog(g) \/ ReadResult(g) PROVE HonestInv'
<1>1. PICK m : m = Head(wire[g])
  OBVIOUS
<1>2. PICK l : l = row[DeployOf[m.run]].log
  OBVIOUS
<1> DEFINE o == m.run
           d == DeployOf[o]
<1>3. /\ reader[g] = Idle /\ wire[g] # <<>> /\ wire' = [wire EXCEPT ![g] = Tail(@)]
      /\ reader' = IF Present(d) THEN [reader EXCEPT ![g] = [msg |-> m, log |-> l]] ELSE reader
      /\ UNCHANGED <<row, pc, reply, cmds, runner, won, job, container, trouble>>
  BY <1>1, <1>2 DEF ReadLog, ReadResult, opVars, agentVars, dbVars
<1>4. /\ m \in NewsOf(g) /\ m \in Message
      /\ \A h \in Links : NewsOf(h)' \subseteq NewsOf(h)
      /\ \A p \in Op \ {o} : SameNews(p)
      /\ \A h \in Links : Pending(h, o)' /\ Closing(h, o) => Closing(h, o)'
      /\ reader' # reader => SameNews(o)
  <2>1. \E k : reader' \in {reader, [reader EXCEPT ![g] = [msg |-> m, log |-> k]]}
    BY <1>3
  <2>2. reader[g] = Idle /\ wire[g] # <<>> /\ wire' = [wire EXCEPT ![g] = Tail(@)]
    BY <1>3
  <2> HIDE DEF o, d
  <2>3. /\ m \in NewsOf(g) /\ m \in Message
        /\ \A h \in Links : NewsOf(h)' \subseteq NewsOf(h)
        /\ \A p \in Op \ {m.run} : SameNews(p)
        /\ \A h \in Links : Pending(h, m.run)' /\ Closing(h, m.run) => Closing(h, m.run)'
        /\ reader' # reader => SameNews(m.run)
    BY <1>1, <2>1, <2>2, ReadNews
  <2> QED
    BY <2>3 DEF o
<1>5. /\ o \in Op /\ Pending(g, o) /\ KindOf[o] \in Dispatching /\ runner[o] # "none" /\ job[o] = NoJob
      /\ Running(o) /\ Working(o) /\ Deploying(o)
  BY <1>4, MessageOf
<1>6. OneActs(o) /\ Onward(o) /\ Sole(o)
  BY <1>3, <1>4, <1>5, SoleWorker DEF OneActs, SameOp, SameRest, Onward, HonestInv
<1>7. StageOf(o)'
  <2>1. StageOf(o)
    BY <1>5 DEF HonestInv, StageInv
  <2> QED
    BY <1>3, <2>1 DEF StageOf, Untold
<1>8. ASSUME d \notin trouble' PROVE OrderOf(o)' /\ Honours(o)
  <2>1. OrderOf(o) /\ (Alone(d) => Held(o))
    BY <1>3, <1>5, <1>8, HeldNow
  <2>2. \A h \in Links : Pending(h, o)' => Pending(h, o)
    BY <1>4 DEF Pending
  <2>3. NewsInOrder(o)'
    BY <1>3, <1>4, <2>1, <2>2 DEF OrderOf, NewsInOrder
  <2>4. OrderOf(o)'
    BY <1>3, <2>1, <2>3 DEF OrderOf, Untold
  <2>5. ASSUME Alone(d) PROVE Held(o)' /\ Deploying(o)'
    <3>1. Present(d)
      BY <1>5, <2>1, <2>5 DEF Held
    <3>2. reader' # reader
      BY <1>3, <3>1, IsHandling DEF TypeOK
    <3>3. Running(o)'
      BY <1>3, <1>4, <1>5, <3>2 DEF Running, SameNews
    <3>4. Deploying(o)' /\ ~Removed(o)'
      BY <1>5, <3>3 DEF Deploying, Removed
    <3> QED
      BY <1>3, <1>5, <2>1, <2>5, <3>1, <3>4 DEF Held, Present
  <2> QED
    BY <2>4, <2>5 DEF Honours
<1> QED
  BY <1>4, <1>5, <1>6, <1>7, <1>8, OneStep

\* The row of a run goes on being its own until its completion, which says what docker has.
LEMMA HonestApplies ==
    ASSUME TypeOK, HonestInv, NEW g \in Links, reader[g] # Idle, NEW m, m = reader[g].msg,
           reader' = [reader EXCEPT ![g] = Idle],
           UNCHANGED <<wire, pc, reply, cmds, runner, won, job, container, trouble>>,
           NEW new, Updates(DeployOf[m.run], new), new.status \in {"building", "running", "failed"},
           m.kind = "complete" => /\ new.status # "building"
                                  /\ new.status = "running" => m.ok /\ new.shown = m.run
    PROVE  HonestInv'
<1> DEFINE o == m.run
           d == DeployOf[o]
<1>4. /\ m \in NewsOf(g) /\ m \in Message
      /\ \A h \in Links : NewsOf(h)' \subseteq NewsOf(h)
      /\ \A p \in Op \ {o} : SameNews(p)
      /\ \A h \in Links : Pending(h, o)' /\ Closing(h, o) => Closing(h, o)'
      /\ Closing(g, o) /\ ~Pending(g, o)' => Completes(m, o)
  BY AppliedNews
<1>5. /\ o \in Op /\ TrueTo(m) /\ Pending(g, o) /\ KindOf[o] \in Dispatching /\ runner[o] # "none"
      /\ job[o] = NoJob /\ Running(o) /\ Working(o) /\ Deploying(o)
  BY <1>4, MessageOf
<1>6. d \in Deploy
  BY <1>5, DeployAssumption
<1>7. /\ Present(d) => row'[d] = new
      /\ \A e \in Deploy \ {d} : row'[e] = row[e]
  BY <1>6, UpdatedRest
<1>8. OneActs(o) /\ Onward(o) /\ Sole(o)
  BY <1>4, <1>5, <1>7, SoleWorker DEF OneActs, SameOp, SameRest, Onward, HonestInv
<1>9. StageOf(o)'
  <2>1. StageOf(o)
    BY <1>5 DEF HonestInv, StageInv
  <2> QED
    BY <2>1 DEF StageOf, Untold
<1>10. ASSUME d \notin trouble' PROVE OrderOf(o)' /\ Honours(o)
  <2>1. OrderOf(o) /\ (Alone(d) => Held(o))
    BY <1>5, <1>10, HeldNow
  <2>2. \A h \in Links : Pending(h, o)' => Pending(h, o)
    BY <1>4 DEF Pending
  <2>3. NewsInOrder(o)'
    BY <1>4, <2>1, <2>2 DEF OrderOf, NewsInOrder
  <2>4. OrderOf(o)' /\ pc[o] \in {"wait", "done"}
    BY <1>5, <2>1, <2>3 DEF OrderOf, Untold
  <2>5. ASSUME Alone(d) PROVE Honours(o)
    <3>1. Present(d) /\ row'[d] = new
      BY <1>5, <1>7, <2>1, <2>5 DEF Held
    <3>2. o \in won => container[d] # NoContainer /\ container[d].by = o
      BY <1>5, <2>1, <2>5 DEF Held
    <3>3. ~Removed(o)'
      BY <1>5 DEF Removed
    <3>4. Held(o)'
      BY <1>5, <2>4, <3>1, <3>2, <3>3 DEF Held, Present
    <3>5. ASSUME ~Deploying(o)' PROVE Settled(d)'
      <4>1. runner[o] = "ended" /\ ~Pending(g, o)'
        BY <1>5, <3>5 DEF Deploying, Running
      <4>2. Closing(g, o)
        BY <1>5, <2>1, <4>1 DEF OrderOf, NewsInOrder
      <4>3. m.kind = "complete"
        BY <1>4, <4>1, <4>2 DEF Completes
      <4>4. m.ok => o \in won
        BY <1>5, <4>3 DEF TrueTo
      <4> QED
        BY <3>1, <3>2, <4>3, <4>4 DEF Settled
    <3> QED
      BY <3>4, <3>5 DEF Honours
  <2> QED
    BY <2>4, <2>5 DEF Honours
<1> QED
  BY <1>4, <1>5, <1>8, <1>9, <1>10, OneStep

LEMMA HonestApplied == ASSUME TypeOK, HonestInv, NEW g \in Links, ApplyLog(g) \/ ApplyResult(g) PROVE HonestInv'
<1>1. PICK m : m = reader[g].msg
  OBVIOUS
<1>2. /\ reader[g] # Idle /\ reader' = [reader EXCEPT ![g] = Idle]
      /\ UNCHANGED <<wire, pc, reply, cmds, runner, won, job, container, trouble>>
  BY DEF ApplyLog, ApplyResult, opVars, agentVars
<1>3. m \in Message /\ DeployOf[m.run] \in Deploy
  BY <1>1, <1>2, ReaderType, DeployAssumption DEF Handling, Message
<1>4. CASE ApplyLog(g)
  <2> DEFINE new == [row[DeployOf[m.run]] EXCEPT !.status = "building", !.log = reader[g].log \cup {m.run}]
  <2>1. Updates(DeployOf[m.run], new) /\ m.kind = "log"
    BY <1>1, <1>4 DEF ApplyLog
  <2>2. new.status = "building"
    BY <1>3 DEF TypeOK, Row
  <2> HIDE DEF new
  <2> QED
    BY <1>1, <1>2, <2>1, <2>2, HonestApplies
<1>5. CASE ApplyResult(g)
  <2> DEFINE new == [status |-> IF m.ok THEN "running" ELSE "failed",
                     log |-> FinalLog(m, reader[g].log),
                     shown |-> IF m.ok THEN m.run ELSE NoRun]
  <2>1. Updates(DeployOf[m.run], new)
    BY <1>1, <1>5 DEF ApplyResult
  <2>2. new.status \in {"running", "failed"} /\ (new.status = "running" => m.ok /\ new.shown = m.run)
    OBVIOUS
  <2> HIDE DEF new
  <2> QED
    BY <1>1, <1>2, <2>1, <2>2, HonestApplies
<1> QED
  BY <1>4, <1>5

-----------------------------------------------------------------------------
(* The row and docker: the connection, the processes, and the theorem *)

LEMMA NobodyActs ==
    ASSUME TypeOK, HonestInv, UNCHANGED <<wire, reader, row, pc, trouble, reply, cmds, runner, job, won>>,
           \A d \in Deploy : SameContainer(d)
    PROVE  HonestInv'
<1>1. (\A p \in Op : SameOp(p) /\ SameNews(p)) /\ \A g \in Links : NewsOf(g)' = NewsOf(g)
  BY QuietNews DEF SameOp
<1>2. StageInv' /\ OrderInv'
  BY <1>1, SameWork DEF HonestInv, StageInv, OrderInv
<1>3. MessageInv'
  BY <1>1 DEF HonestInv, MessageInv, TrueTo
<1>4. OneInv'
  BY <1>1, SameWork DEF HonestInv, OneInv
<1>5. \A d \in Deploy : SameRest(d)
  BY DEF SameRest, SameContainer
<1>6. RestInv'
  BY <1>1, <1>5, RestStays DEF HonestInv, RestInv, Alone
<1> QED
  BY <1>2, <1>3, <1>4, <1>6 DEF HonestInv

\* Of a run without trouble a connection that ends loses nothing that matters.
LEMMA HonestLoseLink == ASSUME TypeOK, HonestInv, LoseLink PROVE HonestInv'
<1>1. PICK at \in Links : at = link.at
  BY DEF TypeOK
<1>2. PICK kept \in 0..Len(wire[at]) : CutOff(kept) /\ trouble' = trouble \cup LostTo(kept)
  BY <1>1 DEF LoseLink
<1>3. /\ UNCHANGED <<row, pc, reply, runner, job, won, container, reader>>
      /\ cmds' \subseteq cmds /\ trouble \subseteq trouble'
  BY <1>2 DEF LoseLink, dbVars, agentVars
<1>4. wire[at] \in Seq(Message) /\ wire'[at] = SubSeq(wire[at], 1, kept)
  BY <1>1, <1>2 DEF CutOff, TypeOK
<1>5. \A g \in Links \ {at} : wire'[g] = wire[g]
  BY <1>1, <1>2 DEF CutOff, TypeOK
<1>6. Queue(SubSeq(wire[at], 1, kept)) \subseteq Queue(wire[at])
  BY <1>4, QueueCut
<1>7. \A g \in Links : NewsOf(g)' \subseteq NewsOf(g)
  BY <1>3, <1>4, <1>5, <1>6 DEF NewsOf
<1>8. \A p \in Op : \A g \in Links : Pending(g, p)' => Pending(g, p)
  BY <1>7 DEF Pending
<1>9. ASSUME NEW p \in Op, DeployOf[p] \notin trouble', NEW g \in Links, Closing(g, p)
      PROVE  Closing(g, p)'
  <2>1. CASE g # at
    BY <1>3, <1>5, <1>9, <2>1 DEF Closing
  <2>2. CASE g = at
    <3>1. CASE EndsIn(wire[at], p)
      <4>1. \A i \in (kept + 1)..Len(wire[at]) : ~Completes(wire[at][i], p)
        <5> SUFFICES ASSUME NEW i \in (kept + 1)..Len(wire[at]), Completes(wire[at][i], p)
                     PROVE  DeployOf[p] \in LostTo(kept)
          BY <1>2, <1>9
        <5>1. i \in 1..Len(wire[at])
          BY <1>4
        <5>2. wire[at][i] \in Message
          BY <1>4, <5>1
        <5>3. wire[at][i] \in Completions /\ wire[at][i].run = p
          BY <5>2 DEF Completions, Completes
        <5> QED
          BY <1>1, <5>3 DEF LostTo
      <4>2. EndsIn(SubSeq(wire[at], 1, kept), p)
        BY <1>4, <3>1, <4>1, EndsCut
      <4> QED
        BY <1>4, <2>2, <4>2 DEF Closing
    <3>2. CASE reader[at] # Idle /\ Completes(reader[at].msg, p) /\ \A m \in Queue(wire[at]) : m.run # p
      BY <1>3, <1>4, <1>6, <2>2, <3>2 DEF Closing
    <3> QED
      BY <1>9, <2>2, <3>1, <3>2 DEF Closing
  <2> QED
    BY <2>1, <2>2
<1>10. ASSUME NEW p \in Op, DeployOf[p] \notin trouble' PROVE Running(p)' <=> Running(p)
  <2>1. Running(p)' => Running(p)
    BY <1>3, <1>8 DEF Running
  <2>2. ASSUME NEW g \in Links, Pending(g, p), runner[p] \in {"none", "ended"} PROVE Pending(g, p)'
    <3>1. runner[p] = "ended" /\ OrderOf(p)
      BY <1>3, <1>10, <2>2 DEF Pending, HonestInv, MessageInv, OrderInv, TrueTo
    <3>2. Closing(g, p)'
      BY <1>9, <1>10, <2>2, <3>1 DEF OrderOf, NewsInOrder
    <3>3. EndsIn(wire'[g], p) => \E m \in Queue(wire'[g]) : Completes(m, p)
      BY EndsQueue
    <3> QED
      BY <3>2, <3>3 DEF Closing, Pending, NewsOf, Completes
  <2> QED
    BY <1>3, <2>1, <2>2 DEF Running
<1>11. StageInv'
  BY <1>3 DEF HonestInv, StageInv, StageOf, Untold
<1>12. MessageInv'
  BY <1>3, <1>7 DEF HonestInv, MessageInv, TrueTo
<1>13. \A p \in Op : Working(p)' => Working(p)
  BY <1>3, <1>8 DEF Working, Running
<1>14. OneInv'
  BY <1>3, <1>13 DEF HonestInv, OneInv
<1>15. ASSUME NEW p \in Op, DeployOf[p] \notin trouble' PROVE OrderOf(p)'
  <2>1. OrderOf(p)
    BY <1>3, <1>15 DEF HonestInv, OrderInv
  <2>2. NewsInOrder(p)'
    BY <1>3, <1>8, <1>9, <1>15, <2>1 DEF OrderOf, NewsInOrder
  <2> QED
    BY <1>3, <2>1, <2>2 DEF OrderOf, Untold
<1>16. ASSUME NEW d \in Deploy, d \notin trouble', Alone(d) PROVE RestOf(d)'
  <2>1. RestOf(d)
    BY <1>3, <1>16 DEF HonestInv, RestInv
  <2>2. ASSUME NEW p \in Op, DeployOf[p] = d
        PROVE  /\ Deploying(p)' <=> Deploying(p)
               /\ Removed(p)' <=> Removed(p)
               /\ Held(p)'
    <3>1. Running(p)' <=> Running(p)
      BY <1>10, <1>16, <2>2
    <3>2. (Deploying(p)' <=> Deploying(p)) /\ (Removed(p)' <=> Removed(p))
      BY <1>3, <3>1 DEF Deploying, Removed
    <3>3. Held(p)
      BY <2>1, <2>2 DEF RestOf
    <3> QED
      BY <1>3, <3>1, <3>2, <3>3 DEF Held, Present
  <2>3. SameRest(d) /\ SameRefused(d)
    BY <1>3 DEF SameRest, SameRefused
  <2> QED
    BY <2>1, <2>2, <2>3, SettledStays DEF RestOf
<1> QED
  BY <1>11, <1>12, <1>14, <1>15, <1>16 DEF HonestInv, OrderInv, RestInv, Alone

\* A process that ends leaves nothing under way on a deploy that it does not trouble.
LEMMA ProcessEnds ==
    ASSUME TypeOK, HonestInv, trouble' = trouble \cup {d \in Deploy : Busy(d)},
           UNCHANGED <<row, container>>, StageInv', MessageInv',
           \A p \in Op : ~Working(p) =>
               /\ ~Working(p)' /\ pc'[p] = pc[p] /\ (runner'[p] # "none" => runner[p] # "none")
    PROVE  HonestInv'
<1>1. ASSUME NEW d \in Deploy, d \notin trouble'
      PROVE  d \notin trouble /\ \A p \in Op : DeployOf[p] = d => ~Working(p) /\ ~Working(p)'
  BY <1>1, BusyWorking
<1>2. OneInv'
  BY <1>1, DeployAssumption DEF OneInv
<1>3. ASSUME NEW p \in Op, DeployOf[p] \notin trouble' PROVE OrderOf(p)'
  <2>1. ~Working(p) /\ ~Working(p)' /\ OrderOf(p)
    BY <1>1, <1>3, DeployAssumption DEF HonestInv, OrderInv
  <2>2. NewsInOrder(p)'
    BY <2>1 DEF Working, Running, NewsInOrder
  <2> QED
    BY <2>1, <2>2 DEF OrderOf, Working
<1>4. ASSUME NEW d \in Deploy, d \notin trouble', Alone(d) PROVE RestOf(d)'
  <2>1. Settled(d)
    BY <1>1, <1>4, IdleHolds DEF HonestInv, RestInv, RestOf
  <2>2. SameRest(d) /\ SameRefused(d)
    BY <1>1, <1>4 DEF SameRest, SameRefused
  <2>3. Settled(d)'
    BY <2>1, <2>2, SettledStays
  <2>4. \A p \in Op : DeployOf[p] = d => Held(p)'
    BY <1>1, <1>4, IdleHoldsNext
  <2> QED
    BY <2>3, <2>4 DEF RestOf
<1> QED
  BY <1>2, <1>3, <1>4 DEF HonestInv, OrderInv, RestInv, Alone

LEMMA HonestAgentCrash == ASSUME TypeOK, HonestInv, AgentCrash PROVE HonestInv'
<1>1. PICK at \in Links : at = link.at
  BY DEF TypeOK
<1>2. PICK kept \in 0..Len(wire[at]) : CutOff(kept)
  BY <1>1 DEF AgentCrash
<1>3. /\ UNCHANGED <<row, pc, reply, won, container, reader>> /\ cmds' = {}
      /\ trouble' = trouble \cup {d \in Deploy : Busy(d)}
      /\ \A p \in Op : job'[p] = NoJob /\ runner'[p] = (IF runner[p] = "none" THEN "none" ELSE "ended")
  BY DEF AgentCrash, dbVars
<1>4. wire[at] \in Seq(Message) /\ wire'[at] = SubSeq(wire[at], 1, kept)
  BY <1>1, <1>2 DEF CutOff, TypeOK
<1>5. \A g \in Links \ {at} : wire'[g] = wire[g]
  BY <1>1, <1>2 DEF CutOff, TypeOK
<1>6. Queue(SubSeq(wire[at], 1, kept)) \subseteq Queue(wire[at])
  BY <1>4, QueueCut
<1>7. \A g \in Links : NewsOf(g)' \subseteq NewsOf(g)
  BY <1>3, <1>4, <1>5, <1>6 DEF NewsOf
<1>8. StageInv'
  BY <1>3 DEF HonestInv, StageInv, StageOf, Untold
<1>9. \A p \in Op : Onward(p)
  BY <1>3 DEF Onward
<1>10. MessageInv'
  BY <1>7, <1>9, MessagesStay DEF HonestInv, MessageInv
<1>11. ASSUME NEW p \in Op, ~Working(p) PROVE ~Working(p)'
  <2>1. ~Running(p)'
    BY <1>3, <1>7, <1>11 DEF Working, Running, Pending
  <2> QED
    BY <1>3, <1>11, <2>1 DEF Working
<1> QED
  BY <1>3, <1>8, <1>10, <1>11, ProcessEnds

LEMMA HonestBackendCrash == ASSUME TypeOK, HonestInv, BackendCrash PROVE HonestInv'
<1>1. /\ UNCHANGED <<row, reply, cmds, runner, won, job, container>>
      /\ trouble' = trouble \cup {d \in Deploy : Busy(d)}
      /\ \A p \in Op : pc'[p] = (IF pc[p] \in {"idle", "done"} THEN pc[p] ELSE "refused")
      /\ \A g \in Links : wire'[g] = <<>> /\ reader'[g] = Idle
  BY DEF BackendCrash, dbVars, opVars, agentVars
<1>2. \A g \in Links : NewsOf(g)' = {}
  BY <1>1 DEF NewsOf, Queue
<1>3. StageInv'
  BY <1>1 DEF HonestInv, StageInv, StageOf, Untold
<1>4. MessageInv'
  BY <1>2 DEF MessageInv
<1>5. ASSUME NEW p \in Op, ~Working(p) PROVE ~Working(p)' /\ pc'[p] = pc[p]
  <2>1. ~Running(p)'
    BY <1>1, <1>2, <1>5 DEF Working, Running, Pending
  <2> QED
    BY <1>1, <1>5, <2>1 DEF Working
<1> QED
  BY <1>1, <1>3, <1>4, <1>5, ProcessEnds

LEMMA InitHonestInv == Init => HonestInv
<1> SUFFICES ASSUME Init PROVE HonestInv
  OBVIOUS
<1>1. \A g \in Links : NewsOf(g) = {}
  BY DEF Init, NewsOf, Queue
<1>2. \A p \in Op : pc[p] = "idle" /\ Untold(p) /\ p \notin won
  BY DEF Init, Untold
<1>3. \A p \in Op : ~Running(p) /\ ~Working(p)
  BY <1>1, <1>2 DEF Untold, Running, Working, Pending
<1>4. StageInv /\ MessageInv /\ OneInv
  BY <1>1, <1>2, <1>3 DEF StageInv, StageOf, Untold, MessageInv, OneInv
<1>5. OrderInv
  BY <1>1, <1>2, <1>3 DEF OrderInv, OrderOf, NewsInOrder, Untold, Pending
<1>6. \A d \in Deploy : Settled(d)
  BY DEF Init, Settled
<1>7. RestInv
  BY <1>3, <1>6, IdleHolds DEF RestInv, RestOf
<1> QED
  BY <1>4, <1>5, <1>7 DEF HonestInv

LEMMA NextHonestInv == TypeOK /\ HonestInv /\ [Next]_vars => HonestInv'
<1> SUFFICES ASSUME TypeOK, HonestInv, [Next]_vars PROVE HonestInv'
  OBVIOUS
<1>1. CASE \E o \in Op : CreateDeploy(o) \/ LoadDeploy(o) \/ SecretUnresolved(o) \/ Request(o)
  BY <1>1, HonestCreate, HonestLoad, HonestSecret, HonestReset, HonestSend, HonestAnswered, HonestFails,
     HonestMarkFailed, HonestMarkStopped DEF Request
<1>2. CASE \E o \in Op : StartRun(o) \/ LogLine(o) \/ Runner(o) \/ StartStop(o) \/ Stopper(o)
  BY <1>2, HonestStartRun, HonestSends, HonestRunner, HonestStartStop, HonestStopper, HonestAnswerStop
  DEF Runner, Stopper
<1>3. CASE \E d \in Deploy : ContainerExits(d)
  <2>1. \A d \in Deploy : SameContainer(d)
    BY <1>3, StoppedContainer DEF ContainerExits
  <2> QED
    BY <1>3, <2>1, NobodyActs DEF ContainerExits, dbVars, opVars, netVars
<1>4. CASE \E g \in Links : Reader(g)
  BY <1>4, HonestReads, HonestApplied DEF Reader
<1>5. CASE Reconnect
  BY <1>5, NobodyActs DEF Reconnect, SameContainer, dbVars, opVars, agentVars
<1>6. CASE UNCHANGED vars
  BY <1>6, NobodyActs DEF vars, SameContainer
<1> QED
  BY <1>1, <1>2, <1>3, <1>4, <1>5, <1>6, HonestLoseLink, HonestAgentCrash, HonestBackendCrash DEF Next

\* Used one operation at a time, with no message or command lost, and under a name that no
\* other deploy's name contains, the row of a deploy says what docker has.
THEOREM HonestAtRestCorrect == Spec => []HonestAtRest
<1>1. Init => TypeOK /\ HonestInv
  BY InitTypeOK, InitHonestInv
<1>2. TypeOK /\ HonestInv /\ [Next]_vars => (TypeOK /\ HonestInv)'
  BY NextTypeOK, NextHonestInv
<1>3. TypeOK /\ HonestInv => HonestAtRest
  <2> SUFFICES ASSUME TypeOK, HonestInv, NEW d \in Deploy, d \notin trouble, Alone(d), ~Busy(d)
               PROVE  Settled(d)
    BY DEF HonestAtRest
  <2>1. \A o \in Op : DeployOf[o] = d => ~Working(o)
    BY BusyWorking
  <2> QED
    BY <2>1, IdleHolds DEF HonestInv, RestInv, RestOf
<1> QED
  BY <1>1, <1>2, <1>3, PTL DEF Spec
=============================================================================
