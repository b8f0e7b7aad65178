------------------------------ MODULE Deploys ------------------------------
(***************************************************************************)
(* The life of the deploys of one server: the HTTP handlers of the backend *)
(* (deploy_handlers.go, handleServerDeploy in server_handlers.go), the row *)
(* of the deploy and its log lines in the database, the read loop that     *)
(* applies what the agent reports (handleAgentMessage, applyDeployResult), *)
(* and on the agent runDeploy, stopDeploy and the docker container.        *)
(*                                                                         *)
(* RequestAgent is used through its contract (AgentCall): it returns what  *)
(* the agent answered, or an error at any time, which says nothing.  A     *)
(* step writes the database once or runs one docker command.               *)
(***************************************************************************)
EXTENDS Naturals, Sequences, FiniteSets

CONSTANTS
    Deploy,     \* ids of the deploys of the server
    Op,         \* requests to the API; one that dispatches a deploy is also the name of its run
    KindOf,     \* KindOf[o]: what o asks for
    DeployOf,   \* DeployOf[o]: the deploy o is about
    Lookalike,  \* Lookalike[d]: deploys whose container name contains the one of d
    NoRun,
    MaxLogs,    \* bound on the lines a run logs
    MaxLinks,   \* bound on the connections of the agent
    MaxCrashes  \* bound on the ends of the agent process or of the backend process

Kinds == {"create", "legacy", "redeploy", "stop", "delete"}
Creating == {"create", "legacy"}
Dispatching == Creating \cup {"redeploy"}

ASSUME KindAssumption == KindOf \in [Op -> Kinds]
ASSUME DeployAssumption == DeployOf \in [Op -> Deploy]
ASSUME CreateAssumption ==
    \A o, p \in Op : {KindOf[o], KindOf[p]} \subseteq Creating /\ DeployOf[o] = DeployOf[p] => o = p
ASSUME LookalikeAssumption == Lookalike \in [Deploy -> SUBSET Deploy]
ASSUME RunAssumption == NoRun \notin Op
ASSUME BoundAssumption == MaxLogs \in Nat /\ MaxLinks \in Nat \ {0} /\ MaxCrashes \in Nat

VARIABLES
    row,        \* deploys table: status, whose lines deploy_log holds, whose result is shown
    lines,      \* deploy_logs table: the runs that have lines under a deploy id
    pc,         \* where the HTTP handler of an operation is
    reply,      \* what the agent answered to the command of an operation
    cmds,       \* commands on their way to the agent
    runner,     \* where runDeploy of a run is
    logged,     \* number of lines a run has logged
    won,        \* runs whose docker run succeeded
    job,        \* what stopDeploy of an operation still has to do
    container,  \* the container named deploy_<id>
    link,       \* number of the agent's connection, and whether it is up
    wire,       \* messages of the agent that the backend has not read, by connection
    reader,     \* the message a read loop is handling, with the log it read from the row
    crashes,
    trouble     \* history: deploys that were hit by a lost completion, an unanswered command,
                \* a crash, two operations at once, or messages over two connections at once

dbVars == <<row, lines>>
opVars == <<pc, reply, cmds>>
agentVars == <<runner, logged, won, job, container>>
netVars == <<link, wire, reader>>
vars == <<row, lines, pc, reply, cmds, runner, logged, won, job, container,
          link, wire, reader, crashes, trouble>>

-----------------------------------------------------------------------------
(* Values *)

Status == {"absent", "pending", "building", "running", "failed", "stopped", "deleted"}
Row == [status : Status, log : SUBSET Op, shown : Op \cup {NoRun}]
Present(d) == row[d].status \notin {"absent", "deleted"}

Pc == {"idle", "reset", "send", "wait", "fail", "mark", "erase", "done", "refused"}
RunnerPc == {"none", "build", "stop", "rm", "run", "result", "complete", "ended"}
Message == [kind : {"log", "result", "complete"}, run : Op, ok : BOOLEAN]
Handling == [msg : Message, log : SUBSET Op]
Idle == [msg |-> "none"]
Job == [todo : SUBSET Deploy, now : SUBSET Deploy, failed : BOOLEAN]
NoJob == [todo |-> {}]
Container == [state : {"none", "running", "exited"}, by : Op \cup {NoRun}]
NoContainer == [state |-> "none", by |-> NoRun]
Links == 1..MaxLinks

TypeOK ==
    /\ row \in [Deploy -> Row]
    /\ lines \in [Deploy -> SUBSET Op]
    /\ pc \in [Op -> Pc]
    /\ reply \in [Op -> {"none", "ok", "error"}]
    /\ cmds \in SUBSET Op
    /\ runner \in [Op -> RunnerPc]
    /\ logged \in [Op -> 0..MaxLogs]
    /\ won \in SUBSET Op
    /\ job \in [Op -> Job \cup {NoJob}]
    /\ container \in [Deploy -> Container]
    /\ link \in [at : Links, up : BOOLEAN]
    /\ wire \in [Links -> Seq(Message)]
    /\ reader \in [Links -> Handling \cup {Idle}]
    /\ crashes \in 0..MaxCrashes
    /\ trouble \in SUBSET Deploy

\* Somebody is still working on deploy d, or news of it is still under way.
About(m, d) == DeployOf[m.run] = d
Unapplied(g, d) ==
    \/ \E i \in 1..Len(wire[g]) : About(wire[g][i], d)
    \/ reader[g] # Idle /\ About(reader[g].msg, d)
Busy(d) ==
    \/ \E o \in Op : DeployOf[o] = d /\ \/ pc[o] \notin {"idle", "done", "refused"}
                                        \/ o \in cmds
                                        \/ runner[o] \notin {"none", "ended"}
                                        \/ job[o] # NoJob
    \/ \E g \in Links : Unapplied(g, d)

Init ==
    /\ row = [d \in Deploy |-> [status |-> "absent", log |-> {}, shown |-> NoRun]]
    /\ lines = [d \in Deploy |-> {}]
    /\ pc = [o \in Op |-> "idle"]
    /\ reply = [o \in Op |-> "none"]
    /\ cmds = {}
    /\ runner = [o \in Op |-> "none"]
    /\ logged = [o \in Op |-> 0]
    /\ won = {}
    /\ job = [o \in Op |-> NoJob]
    /\ container = [d \in Deploy |-> NoContainer]
    /\ link = [at |-> 1, up |-> TRUE]
    /\ wire = [g \in Links |-> <<>>]
    /\ reader = [g \in Links |-> Idle]
    /\ crashes = 0
    /\ trouble = {}

-----------------------------------------------------------------------------
(* The HTTP handlers *)

\* A wrong variant: Save inserts the row that it does not find.
UpdatesOrInserts(d, new) == row' = [row EXCEPT ![d] = new]

\* UPDATE deploys ... WHERE id = d: nothing happens to a row that is gone.
Updates(d, new) == row' = IF Present(d) THEN [row EXCEPT ![d] = new] ELSE row

\* An operation starts; two at once on a deploy are trouble.
Begin(o, next) ==
    /\ pc[o] = "idle"
    /\ pc' = [pc EXCEPT ![o] = next]
    /\ trouble' = IF Busy(DeployOf[o]) THEN trouble \cup {DeployOf[o]} ELSE trouble

Goto(o, next) == pc' = [pc EXCEPT ![o] = next]

\* The row of handleServerDeploy says "running" from the start.
FirstStatus(o) == IF KindOf[o] = "legacy" THEN "running" ELSE "pending"

\* handleCreateDeploy and handleServerDeploy.
CreateDeploy(o) ==
    /\ KindOf[o] \in Creating
    /\ Begin(o, "send")
    /\ row' = [row EXCEPT ![DeployOf[o]].status = FirstStatus(o)]
    /\ UNCHANGED <<lines, reply, cmds, agentVars, netVars, crashes>>

\* handleRedeploy, handleStopDeploy and handleDeleteDeploy load the row, whatever its status.
LoadDeploy(o) ==
    /\ KindOf[o] \notin Creating
    /\ Present(DeployOf[o])
    /\ Begin(o, IF KindOf[o] = "redeploy" THEN "reset" ELSE "send")
    /\ UNCHANGED <<dbVars, reply, cmds, agentVars, netVars, crashes>>

\* A wrong variant: a status that no reader of the row knows.
ResetDeployToQueued(o) ==
    LET d == DeployOf[o] IN
    /\ pc[o] = "reset"
    /\ Updates(d, [row[d] EXCEPT !.status = "queued", !.log = {}])
    /\ Goto(o, "send")
    /\ UNCHANGED <<lines, reply, cmds, agentVars, netVars, crashes, trouble>>

\* Reset state for a new run (keep id).
ResetDeploy(o) ==
    LET d == DeployOf[o] IN
    /\ pc[o] = "reset"
    /\ Updates(d, [row[d] EXCEPT !.status = "pending", !.log = {}])
    /\ Goto(o, "send")
    /\ UNCHANGED <<lines, reply, cmds, agentVars, netVars, crashes, trouble>>

\* A secret of the environment cannot be resolved: an error, and the row stays as it is.
SecretUnresolved(o) ==
    /\ KindOf[o] \in {"create", "redeploy"}
    /\ pc[o] = "send"
    /\ Goto(o, "refused")
    /\ UNCHANGED <<dbVars, reply, cmds, agentVars, netVars, crashes, trouble>>

\* RequestAgent: the command goes out over the connection, or nowhere.
Send(o) ==
    /\ pc[o] = "send"
    /\ Goto(o, "wait")
    /\ cmds' = IF link.up THEN cmds \cup {o} ELSE cmds
    /\ UNCHANGED <<dbVars, reply, agentVars, netVars, crashes, trouble>>

\* A wrong variant: an agent that cannot be reached does not keep a deploy from being deleted.
OnErrorDeletes(o) ==
    Goto(o, CASE KindOf[o] \in Dispatching -> "fail"
              [] KindOf[o] = "delete" -> "erase"
              [] OTHER -> "refused")

\* What a handler does with an error of RequestAgent: a dispatch marks the row, the others return.
OnError(o) == Goto(o, IF KindOf[o] \in Dispatching THEN "fail" ELSE "refused")

RequestAnswered(o) ==
    /\ pc[o] = "wait"
    /\ \/ /\ reply[o] = "ok"
          /\ Goto(o, CASE KindOf[o] = "stop" -> "mark"
                       [] KindOf[o] = "delete" -> "erase"
                       [] OTHER -> "done")
       \/ /\ reply[o] = "error"
          /\ OnError(o)
    /\ UNCHANGED <<dbVars, reply, cmds, agentVars, netVars, crashes, trouble>>

\* The agent is offline, the connection ends, or ten seconds pass; the agent may have the command.
Delivered(o) == o \in cmds \/ reply[o] # "none" \/ job[o] # NoJob
RequestFails(o) ==
    /\ pc[o] = "wait"
    /\ OnError(o)
    /\ trouble' = IF Delivered(o) THEN trouble \cup {DeployOf[o]} ELSE trouble
    /\ UNCHANGED <<dbVars, reply, cmds, agentVars, netVars, crashes>>

\* The log is replaced by the error, except by the legacy handler.
MarkFailed(o) ==
    LET d == DeployOf[o] IN
    /\ pc[o] = "fail"
    /\ Updates(d, [row[d] EXCEPT !.status = "failed",
                                 !.log = IF KindOf[o] = "legacy" THEN @ ELSE {}])
    /\ Goto(o, "refused")
    /\ UNCHANGED <<lines, reply, cmds, agentVars, netVars, crashes, trouble>>

MarkStopped(o) ==
    LET d == DeployOf[o] IN
    /\ pc[o] = "mark"
    /\ Updates(d, [row[d] EXCEPT !.status = "stopped"])
    /\ Goto(o, "done")
    /\ UNCHANGED <<lines, reply, cmds, agentVars, netVars, crashes, trouble>>

\* The transaction of handleDeleteDeploy: the log lines, then the deploy.
EraseDeploy(o) ==
    LET d == DeployOf[o] IN
    /\ pc[o] = "erase"
    /\ row' = [row EXCEPT ![d] = [status |-> "deleted", log |-> {}, shown |-> NoRun]]
    /\ lines' = [lines EXCEPT ![d] = {}]
    /\ Goto(o, "done")
    /\ UNCHANGED <<reply, cmds, agentVars, netVars, crashes, trouble>>

-----------------------------------------------------------------------------
(* The agent: runDeploy *)

\* sendJSON of the agent: a message that finds no connection is lost, and nobody is told;
\* one that follows others over a new connection may be applied before them.
Report(o, kind) ==
    /\ wire' = IF link.up
                 THEN [wire EXCEPT ![link.at] = Append(@, [kind |-> kind, run |-> o, ok |-> o \in won])]
                 ELSE wire
    /\ trouble' = IF \/ ~link.up /\ kind = "complete"
                     \/ link.up /\ \E g \in Links \ {link.at} : Unapplied(g, DeployOf[o])
                    THEN trouble \cup {DeployOf[o]} ELSE trouble

RunnerTo(o, next) == runner' = [runner EXCEPT ![o] = next]

\* go runDeploy, then the answer.
StartRun(o) ==
    /\ o \in cmds
    /\ KindOf[o] \in Dispatching
    /\ cmds' = cmds \ {o}
    /\ reply' = [reply EXCEPT ![o] = "ok"]
    /\ RunnerTo(o, "build")
    /\ UNCHANGED <<dbVars, pc, logged, won, job, container, netVars, crashes, trouble>>

\* A wrong variant: output of the build may still be sent after the result.
LogLineAnyTime(o) ==
    /\ runner[o] # "none"
    /\ logged[o] < MaxLogs
    /\ logged' = [logged EXCEPT ![o] = @ + 1]
    /\ Report(o, "log")
    /\ UNCHANGED <<dbVars, opVars, runner, won, job, container, link, reader, crashes>>

LogLine(o) ==
    /\ runner[o] \in {"build", "stop", "rm", "run", "result"}
    /\ logged[o] < MaxLogs
    /\ logged' = [logged EXCEPT ![o] = @ + 1]
    /\ Report(o, "log")
    /\ UNCHANGED <<dbVars, opVars, runner, won, job, container, link, reader, crashes>>

BuildDone(o) ==
    /\ runner[o] = "build"
    /\ RunnerTo(o, "stop")
    /\ UNCHANGED <<dbVars, opVars, logged, won, job, container, netVars, crashes, trouble>>

\* A command of the run fails or times out; docker run may leave a container all the same.
RunFails(o) ==
    LET d == DeployOf[o] IN
    /\ runner[o] \in {"build", "stop", "rm", "run"}
    /\ RunnerTo(o, "result")
    /\ \/ UNCHANGED container
       \/ /\ runner[o] = "run"
          /\ container[d] = NoContainer
          /\ \E left \in {"exited", "running"} :
                container' = [container EXCEPT ![d] = [state |-> left, by |-> o]]
    /\ UNCHANGED <<dbVars, opVars, logged, won, job, netVars, crashes, trouble>>

\* docker stop and docker rm, which refuses to remove a container that runs.
DockerStop(d) ==
    container' = IF container[d].state = "running"
                   THEN [container EXCEPT ![d].state = "exited"] ELSE container
DockerRm(d) ==
    /\ container[d].state # "running"
    /\ container' = [container EXCEPT ![d] = NoContainer]

StopOld(o) ==
    /\ runner[o] = "stop"
    /\ DockerStop(DeployOf[o])
    /\ RunnerTo(o, "rm")
    /\ UNCHANGED <<dbVars, opVars, logged, won, job, netVars, crashes, trouble>>

RemoveOld(o) ==
    /\ runner[o] = "rm"
    /\ \/ /\ DockerRm(DeployOf[o])
          /\ RunnerTo(o, "run")
       \/ /\ container[DeployOf[o]].state = "running"
          /\ RunnerTo(o, "result")
          /\ UNCHANGED container
    /\ UNCHANGED <<dbVars, opVars, logged, won, job, netVars, crashes, trouble>>

\* docker run --name: refused while the name is taken.
RunContainer(o) ==
    LET d == DeployOf[o] IN
    /\ runner[o] = "run"
    /\ RunnerTo(o, "result")
    /\ IF container[d] = NoContainer
         THEN /\ container' = [container EXCEPT ![d] = [state |-> "running", by |-> o]]
              /\ won' = won \cup {o}
         ELSE UNCHANGED <<container, won>>
    /\ UNCHANGED <<dbVars, opVars, logged, job, netVars, crashes, trouble>>

\* finish: two messages that say the same.
SendResult(o) ==
    /\ runner[o] = "result"
    /\ Report(o, "result")
    /\ RunnerTo(o, "complete")
    /\ UNCHANGED <<dbVars, opVars, logged, won, job, container, link, reader, crashes>>

\* A wrong variant: the completion of a run is a success.
SendCompleteAsSuccess(o) ==
    /\ runner[o] = "complete"
    /\ link.up
    /\ wire' = [wire EXCEPT ![link.at] = Append(@, [kind |-> "complete", run |-> o, ok |-> TRUE])]
    /\ RunnerTo(o, "ended")
    /\ UNCHANGED <<dbVars, opVars, logged, won, job, container, link, reader, crashes, trouble>>

SendComplete(o) ==
    /\ runner[o] = "complete"
    /\ Report(o, "complete")
    /\ RunnerTo(o, "ended")
    /\ UNCHANGED <<dbVars, opVars, logged, won, job, container, link, reader, crashes>>

\* The application ends by itself; nobody watches it.
ContainerExits(d) ==
    /\ container[d].state = "running"
    /\ DockerStop(d)
    /\ UNCHANGED <<dbVars, opVars, runner, logged, won, job, netVars, crashes, trouble>>

-----------------------------------------------------------------------------
(* The agent: stopDeploy, which knows nothing of a run that has no container yet *)

\* docker ps --filter name=deploy_<id> also lists names that merely contain deploy_<id>.
Listed(d) == {e \in Lookalike[d] : container[e] # NoContainer}

\* When docker ps fails only the deploy's own name is left.
StartStop(o) ==
    LET d == DeployOf[o] IN
    /\ o \in cmds
    /\ KindOf[o] \notin Dispatching
    /\ cmds' = cmds \ {o}
    /\ \E found \in {{}, Listed(d)} :
           job' = [job EXCEPT ![o] = [todo |-> {d} \cup found, now |-> {}, failed |-> FALSE]]
    /\ UNCHANGED <<dbVars, pc, reply, runner, logged, won, container, netVars, crashes, trouble>>

StopContainer(o) ==
    /\ job[o] # NoJob
    /\ job[o].now = {}
    /\ \E e \in job[o].todo :
        /\ DockerStop(e)
        /\ job' = [job EXCEPT ![o].todo = @ \ {e}, ![o].now = {e}]
    /\ UNCHANGED <<dbVars, opVars, runner, logged, won, netVars, crashes, trouble>>

RemoveContainer(o) ==
    /\ job[o] # NoJob
    /\ \E e \in job[o].now :
        \/ /\ DockerRm(e)
           /\ job' = [job EXCEPT ![o].now = {}]
        \/ /\ container[e].state = "running"
           /\ job' = [job EXCEPT ![o].now = {}, ![o].failed = TRUE]
           /\ UNCHANGED container
    /\ UNCHANGED <<dbVars, opVars, runner, logged, won, netVars, crashes, trouble>>

\* Docker refuses: the next name is tried and the first error is the answer.
CleanupFails(o) ==
    /\ job[o] # NoJob
    /\ \/ /\ job[o].now # {}
          /\ job' = [job EXCEPT ![o].now = {}, ![o].failed = TRUE]
       \/ /\ job[o].now = {}
          /\ \E e \in job[o].todo : job' = [job EXCEPT ![o].todo = @ \ {e}, ![o].failed = TRUE]
    /\ UNCHANGED <<dbVars, opVars, runner, logged, won, container, netVars, crashes, trouble>>

AnswerStop(o) ==
    /\ job[o] # NoJob
    /\ job[o].now = {} /\ job[o].todo = {}
    /\ reply' = [reply EXCEPT ![o] = IF job[o].failed THEN "error" ELSE "ok"]
    /\ job' = [job EXCEPT ![o] = NoJob]
    /\ UNCHANGED <<dbVars, pc, cmds, runner, logged, won, container, netVars, crashes, trouble>>

-----------------------------------------------------------------------------
(* The read loop of a connection: handleAgentMessage *)

\* case "deploy_log": the line is stored, then the row is read.
ReadLog(g) ==
    LET m == Head(wire[g])  d == DeployOf[m.run] IN
    /\ reader[g] = Idle
    /\ wire[g] # <<>>
    /\ m.kind = "log"
    /\ wire' = [wire EXCEPT ![g] = Tail(@)]
    /\ lines' = [lines EXCEPT ![d] = @ \cup {m.run}]
    /\ reader' = IF Present(d) THEN [reader EXCEPT ![g] = [msg |-> m, log |-> row[d].log]] ELSE reader
    /\ UNCHANGED <<row, opVars, agentVars, link, crashes, trouble>>

\* The row is written back with the line added, and is "building" whatever it was.
ApplyLog(g) ==
    LET m == reader[g].msg  d == DeployOf[m.run] IN
    /\ reader[g] # Idle
    /\ m.kind = "log"
    /\ Updates(d, [row[d] EXCEPT !.status = "building", !.log = reader[g].log \cup {m.run}])
    /\ reader' = [reader EXCEPT ![g] = Idle]
    /\ UNCHANGED <<lines, opVars, agentVars, link, wire, crashes, trouble>>

\* applyDeployResult, for deploy_result and for deploy_complete: read, then write.
ReadResult(g) ==
    LET m == Head(wire[g])  d == DeployOf[m.run] IN
    /\ reader[g] = Idle
    /\ wire[g] # <<>>
    /\ m.kind \in {"result", "complete"}
    /\ wire' = [wire EXCEPT ![g] = Tail(@)]
    /\ reader' = IF Present(d) THEN [reader EXCEPT ![g] = [msg |-> m, log |-> row[d].log]] ELSE reader
    /\ UNCHANGED <<dbVars, opVars, agentVars, link, crashes, trouble>>

\* deploy_result carries the log of the run, deploy_complete does not; an error adds its text.
FinalLog(m, read) ==
    (IF m.kind = "result" /\ logged[m.run] > 0 THEN {m.run} ELSE read)
        \cup (IF m.ok THEN {} ELSE {m.run})

\* A wrong variant: only a deploy that is being built can end.
ApplyResultIfBuilding(g) ==
    LET m == reader[g].msg  d == DeployOf[m.run] IN
    /\ reader[g] # Idle
    /\ m.kind \in {"result", "complete"}
    /\ IF row[d].status = "building"
         THEN Updates(d, [status |-> IF m.ok THEN "running" ELSE "failed",
                          log |-> FinalLog(m, reader[g].log),
                          shown |-> IF m.ok THEN m.run ELSE NoRun])
         ELSE UNCHANGED row
    /\ reader' = [reader EXCEPT ![g] = Idle]
    /\ UNCHANGED <<lines, opVars, agentVars, link, wire, crashes, trouble>>

ApplyResult(g) ==
    LET m == reader[g].msg  d == DeployOf[m.run] IN
    /\ reader[g] # Idle
    /\ m.kind \in {"result", "complete"}
    /\ Updates(d, [status |-> IF m.ok THEN "running" ELSE "failed",
                   log |-> FinalLog(m, reader[g].log),
                   shown |-> IF m.ok THEN m.run ELSE NoRun])
    /\ reader' = [reader EXCEPT ![g] = Idle]
    /\ UNCHANGED <<lines, opVars, agentVars, link, wire, crashes, trouble>>

-----------------------------------------------------------------------------
(* The connection and the processes *)

\* The connection ends; of what was sent, a prefix is still read.
Completions == {m \in Message : m.kind = "complete"}
CutOff(kept) ==
    /\ link' = [link EXCEPT !.up = FALSE]
    /\ wire' = [wire EXCEPT ![link.at] = SubSeq(@, 1, kept)]

LostTo(kept) ==
    {DeployOf[m.run] : m \in {wire[link.at][i] : i \in (kept + 1)..Len(wire[link.at])} \cap Completions}

LoseLink ==
    /\ link.up
    /\ \E kept \in 0..Len(wire[link.at]) :
        /\ CutOff(kept)
        /\ trouble' = trouble \cup LostTo(kept)
    /\ cmds' \in SUBSET cmds
    /\ UNCHANGED <<dbVars, pc, reply, agentVars, reader, crashes>>

Reconnect ==
    /\ ~link.up
    /\ link.at < MaxLinks
    /\ link' = [at |-> link.at + 1, up |-> TRUE]
    /\ UNCHANGED <<dbVars, opVars, agentVars, wire, reader, crashes, trouble>>

\* runDeploy and stopDeploy die with the agent; the containers stay.
AgentCrash ==
    /\ crashes < MaxCrashes
    /\ crashes' = crashes + 1
    /\ runner' = [o \in Op |-> IF runner[o] = "none" THEN "none" ELSE "ended"]
    /\ job' = [o \in Op |-> NoJob]
    /\ cmds' = {}
    /\ \E kept \in 0..Len(wire[link.at]) : CutOff(kept)
    /\ trouble' = trouble \cup {d \in Deploy : Busy(d)}
    /\ UNCHANGED <<dbVars, pc, reply, logged, won, container, reader>>

\* The handlers and the read loops die with the backend; nothing resumes them.
BackendCrash ==
    /\ crashes < MaxCrashes
    /\ crashes' = crashes + 1
    /\ pc' = [o \in Op |-> IF pc[o] \in {"idle", "done"} THEN pc[o] ELSE "refused"]
    /\ reader' = [g \in Links |-> Idle]
    /\ wire' = [g \in Links |-> <<>>]
    /\ link' = [link EXCEPT !.up = FALSE]
    /\ trouble' = trouble \cup {d \in Deploy : Busy(d)}
    /\ UNCHANGED <<dbVars, reply, cmds, agentVars>>

-----------------------------------------------------------------------------
Request(o) ==
    \/ ResetDeploy(o) \/ Send(o) \/ RequestAnswered(o) \/ RequestFails(o)
    \/ MarkFailed(o) \/ MarkStopped(o) \/ EraseDeploy(o)

Runner(o) ==
    \/ BuildDone(o) \/ RunFails(o) \/ StopOld(o) \/ RemoveOld(o) \/ RunContainer(o)
    \/ SendResult(o) \/ SendComplete(o)

Stopper(o) == StopContainer(o) \/ RemoveContainer(o) \/ CleanupFails(o) \/ AnswerStop(o)

Reader(g) == ReadLog(g) \/ ApplyLog(g) \/ ReadResult(g) \/ ApplyResult(g)

Next ==
    \/ \E o \in Op : CreateDeploy(o) \/ LoadDeploy(o) \/ SecretUnresolved(o) \/ Request(o)
    \/ \E o \in Op : StartRun(o) \/ LogLine(o) \/ Runner(o) \/ StartStop(o) \/ Stopper(o)
    \/ \E d \in Deploy : ContainerExits(d)
    \/ \E g \in Links : Reader(g)
    \/ LoseLink \/ Reconnect \/ AgentCrash \/ BackendCrash

\* The goroutines of both processes run, and every command and request of theirs has a
\* timeout. Nothing is assumed of the connection.
Fairness ==
    /\ \A o \in Op : WF_vars(Request(o)) /\ WF_vars(Runner(o)) /\ WF_vars(Stopper(o))
    /\ \A o \in Op : WF_vars(StartRun(o)) /\ WF_vars(StartStop(o))
    /\ \A g \in Links : WF_vars(Reader(g))

Spec == Init /\ [][Next]_vars
FairSpec == Spec /\ Fairness

-----------------------------------------------------------------------------
(* Properties *)

\* Stopping d looks at no other container than its own, and stopping another never looks at it.
Alone(d) == \A e \in Deploy \ {d} : d \notin Lookalike[e] /\ e \notin Lookalike[d]

\* "running" is the container of the run whose address is shown, "stopped" and deleted leave
\* none, and only a refused dispatch leaves a row pending.
Settled(d) ==
    LET r == row[d] IN
    /\ r.status = "running" => container[d] # NoContainer /\ container[d].by = r.shown
    /\ r.status \in {"stopped", "deleted"} => container[d] = NoContainer
    /\ r.status = "pending" => \E o \in Op : DeployOf[o] = d /\ pc[o] = "refused"
    /\ r.status # "building"

\* Used one operation at a time, with no message or command lost, and under a name that no
\* other deploy's name contains, what the row of a deploy says is what docker has.
HonestAtRest == \A d \in Deploy : d \notin trouble /\ Alone(d) /\ ~Busy(d) => Settled(d)

\* The address in a row is that of a run whose docker run succeeded, whatever was lost,
\* doubled, crashed or interleaved (deploy_result and deploy_complete are both applied).
ShownRunStarted == \A d \in Deploy : row[d].shown # NoRun => row[d].shown \in won

\* Late logs and results never bring a deleted deploy back (ws_handlers.go:235, 358).
DeletedForever ==
    [][\A d \in Deploy : row[d].status = "deleted" => row'[d] = row[d]]_vars

\* What a run that was accepted ends as is in the row at last, unless trouble hit the deploy.
RunReported ==
    \A o \in Op : LET d == DeployOf[o] IN
        runner[o] = "build" ~>
            \/ d \in trouble
            \/ runner[o] = "ended" /\ row[d].status \notin {"pending", "building"}

\* Stop and delete deploy: once the delete has succeeded nothing of the deploy runs.
DeletedIsGone ==
    \A o \in Op : KindOf[o] = "delete" /\ pc[o] = "done" => container[DeployOf[o]].state # "running"

\* Stopping a deploy leaves the containers of the others alone.
StopSparesOthers ==
    \A d \in Deploy : row[d].status = "running" /\ row[d].shown # NoRun
                      /\ (\A o \in Op : DeployOf[o] = d => KindOf[o] \in Creating)
                      => container[d] # NoContainer
=============================================================================
