------------------------------ MODULE Runbooks ------------------------------
(***************************************************************************)
(* Executions of a runbook, from the request to the page that watches.     *)
(*                                                                         *)
(* An execution is a row, a command to the agent that must be acknowledged *)
(* in twelve seconds, a goroutine of the agent that runs the steps, and    *)
(* the messages it sends: lines and one result.  The backend handles the   *)
(* messages of one agent connection one after the other; the request that  *)
(* waits for the acknowledgement goes on beside that, and writes the same  *)
(* rows.  The executions are topics of the site hub.                       *)
(***************************************************************************)
EXTENDS RunbookVersions, SiteHub

CONSTANTS
    MaxLines,     \* bound on the lines a run sends
    MaxLinks,     \* bound on the connections the agent makes
    MaxCrashes    \* bound on the processes, of either kind, that end

Execution == Topic

ASSUME BoundAssumption == MaxLines \in Nat /\ MaxLinks \in Nat /\ MaxCrashes \in Nat

VARIABLES
    lastRun,     \* last_run_status of the runbook
    status,      \* the status of an execution's row, or "none"
    kind,        \* what its request asks for: a run, a dry run, the rollback of another one
    call,        \* where the request is
    via,         \* the agent connection its command was sent over
    run,         \* the goroutine of the agent for an execution
    lines,       \* lines it has sent
    acked,       \* has the agent acknowledged the command?
    outcome,     \* history: what the agent made of the execution
    link, wire,  \* the newest agent connection, and whether it still carries messages
    inbox,       \* messages sent over a connection and not yet read by its handler
    handler,     \* the message a handler is at, and how far it got
    told,        \* what a page was told last of an execution
    lost,        \* history: executions whose result did not get to the backend
    early,       \* history: executions whose result was there before their request was done
    crossed,     \* history: executions that sent messages over two connections
    crashes

agentVars == <<run, lines, acked, outcome>>
netVars   == <<link, wire, inbox>>
pageVars  == <<siteVars, told>>
pastVars  == <<lost, early, crossed, crashes>>
vars == <<versionVars, siteVars, lastRun, status, kind, call, via, run, lines, acked, outcome,
          link, wire, inbox, handler, told, lost, early, crossed, crashes>>

-----------------------------------------------------------------------------
(* Values *)

Final   == {"success", "failed", "rolled_back"}
Message == [kind : {"ack", "line"} \cup Final, of : Execution]

\* What a handler does with a message it has read: write last_run_status, copy the
\* subscribers, send to them.
Idle    == [stage |-> "idle"]
Handled == [stage : {"last_run", "copy", "send"}, msg : Message, to : SUBSET Site] \cup {Idle}

TypeOK ==
    /\ VersionsTypeOK
    /\ SiteTypeOK
    /\ lastRun \in {"", "pending"} \cup Final
    /\ status \in [Execution -> {"none", "pending"} \cup Final]
    /\ kind \in [Execution -> {"none", "run", "dry", "rollback"}]
    /\ call \in [Execution ->
          {"idle", "loaded", "inserted", "waiting", "accepted", "refused", "done", "died"}]
    /\ via \in [Execution -> 0..MaxLinks]
    /\ run \in [Execution -> {"none", "sent", "running", "hung", "told", "killed"}]
    /\ lines \in [Execution -> 0..MaxLines]
    /\ acked \in [Execution -> BOOLEAN]
    /\ outcome \in [Execution -> {"none"} \cup Final]
    /\ link \in 0..MaxLinks
    /\ wire \in BOOLEAN
    /\ inbox \in [1..MaxLinks -> Seq(Message)]
    /\ handler \in [1..MaxLinks -> Handled]
    /\ told \in [Site -> [Execution -> {"nothing", "line", "result", "late line"}]]
    /\ lost \in SUBSET Execution
    /\ early \in SUBSET Execution
    /\ crossed \in SUBSET Execution
    /\ crashes \in 0..MaxCrashes

Init ==
    /\ VersionsInit
    /\ SiteInit
    /\ lastRun = ""
    /\ status = [x \in Execution |-> "none"]
    /\ kind = [x \in Execution |-> "none"]
    /\ call = [x \in Execution |-> "idle"]
    /\ via = [x \in Execution |-> 0]
    /\ run = [x \in Execution |-> "none"]
    /\ lines = [x \in Execution |-> 0]
    /\ acked = [x \in Execution |-> FALSE]
    /\ outcome = [x \in Execution |-> "none"]
    /\ link = 0 /\ wire = FALSE
    /\ inbox = [l \in 1..MaxLinks |-> <<>>]
    /\ handler = [l \in 1..MaxLinks |-> Idle]
    /\ told = [i \in Site |-> [x \in Execution |-> "nothing"]]
    /\ lost = {} /\ early = {} /\ crossed = {} /\ crashes = 0

-----------------------------------------------------------------------------
(* Requests *)

\* A row is changed only while it is there.
Written(x, value) == IF status[x] = "none" THEN status ELSE [status EXCEPT ![x] = value]
LastRunIs(value)  == IF runbook = "live" THEN value ELSE lastRun

\* The runbook and its version are found, or the execution that is to be rolled back and its
\* runbook. A rollback does not ask whether that execution has ended.
LoadExecution(x) ==
    /\ call[x] = "idle"
    /\ runbook = "live"
    /\ \/ kind' = [kind EXCEPT ![x] = "rollback"] /\ \E y \in Execution : status[y] # "none"
       \/ latest \in Stored /\ \E k \in {"run", "dry"} : kind' = [kind EXCEPT ![x] = k]
    /\ call' = [call EXCEPT ![x] = "loaded"]
    /\ UNCHANGED <<versionVars, lastRun, status, via, agentVars, netVars, handler, pageVars,
                   pastVars>>

\* The row of a dry run is inserted as that of any run is ...
InsertDryRun(x) ==
    /\ call[x] = "loaded" /\ kind[x] = "dry"
    /\ status' = [status EXCEPT ![x] = "pending"]
    /\ call' = [call EXCEPT ![x] = "inserted"]
    /\ UNCHANGED <<kind, versionVars, lastRun, via, agentVars, netVars, handler, pageVars,
                   pastVars>>

\* ... and set to success by the backend itself.
FinishDryRun(x) ==
    /\ call[x] = "inserted"
    /\ status' = Written(x, "success")
    /\ call' = [call EXCEPT ![x] = "accepted"]
    /\ UNCHANGED <<kind, versionVars, lastRun, via, agentVars, netVars, handler, pageVars,
                   pastVars>>

\* The row is inserted, and RequestAgent writes the command, or finds no client or a
\* connection it cannot write to.
Dispatch(x) ==
    /\ call[x] = "loaded" /\ kind[x] # "dry"
    /\ status' = [status EXCEPT ![x] = "pending"]
    /\ \/ /\ link > 0
          /\ call' = [call EXCEPT ![x] = "waiting"]
          /\ via' = [via EXCEPT ![x] = link]
          /\ run' = [run EXCEPT ![x] = IF wire THEN "sent" ELSE "none"]
       \/ /\ ~wire
          /\ call' = [call EXCEPT ![x] = "refused"]
          /\ UNCHANGED <<via, run>>
    /\ UNCHANGED <<kind, versionVars, lastRun, lines, acked, outcome, netVars, handler,
                   pageVars, pastVars>>

\* Twelve seconds pass, the connection ends, or the agent answers with an error.
RequestFails(x) ==
    /\ call[x] = "waiting"
    /\ call' = [call EXCEPT ![x] = "refused"]
    /\ UNCHANGED <<kind, versionVars, lastRun, status, via, agentVars, netVars, handler,
                   pageVars, pastVars>>

\* A wrong variant: the error of any request is ignored, as that of a rollback is.
IgnoreRefusal(x) ==
    /\ call[x] = "refused"
    /\ call' = [call EXCEPT ![x] = "done"]
    /\ UNCHANGED <<kind, versionVars, lastRun, status, via, agentVars, netVars, handler,
                   pageVars, pastVars>>

\* A run that was refused is failed, whatever its row says by now; a rollback is left as it is.
Refused(x) ==
    /\ call[x] = "refused"
    /\ status' = IF kind[x] = "run" THEN Written(x, "failed") ELSE status
    /\ call' = [call EXCEPT ![x] = "done"]
    /\ UNCHANGED <<kind, versionVars, lastRun, via, agentVars, netVars, handler, pageVars,
                   pastVars>>

\* last_run_status becomes pending once the command is acknowledged, or the dry run is over.
\* A rollback writes nothing.
Accepted(x) ==
    /\ call[x] = "accepted"
    /\ lastRun' = IF kind[x] = "rollback" THEN lastRun ELSE LastRunIs("pending")
    /\ call' = [call EXCEPT ![x] = "done"]
    /\ UNCHANGED <<kind, versionVars, status, via, agentVars, netVars, handler, pageVars,
                   pastVars>>

Request(x) ==
    \/ LoadExecution(x) \/ InsertDryRun(x) \/ FinishDryRun(x) \/ Dispatch(x)
    \/ RequestFails(x) \/ Refused(x) \/ Accepted(x)

\* The steps of RunbookVersions, of which one deletes the executions.
VersionStep ==
    /\ \/ CreateRunbook \/ InsertFirst
       \/ \E d \in Edit : LoadRunbook(d) \/ InsertVersion(d) \/ InsertFails(d) \/ SetLatest(d)
       \/ DeleteVersions \/ DeleteExecutions \/ DeleteRunbook
    /\ status' = IF remover' = "executions" /\ remover # "executions"
                 THEN [x \in Execution |-> "none"] ELSE status
    /\ UNCHANGED <<kind, lastRun, call, via, agentVars, netVars, handler, pageVars, lost, early,
                   crossed, crashes>>

-----------------------------------------------------------------------------
(* The agent *)

\* sendJSON over the connection the agent has: nothing is kept of what cannot be sent.
Sends(x, k) ==
    /\ inbox' = IF wire THEN [inbox EXCEPT ![link] = Append(@, [kind |-> k, of |-> x])]
                        ELSE inbox
    /\ crossed' = IF wire /\ link # via[x] THEN crossed \cup {x} ELSE crossed

\* The goroutine of the command, which may be late, starts that of the run before it
\* acknowledges.
StartRun(x) ==
    /\ run[x] = "sent"
    /\ run' = [run EXCEPT ![x] = "running"]
    /\ UNCHANGED <<kind, versionVars, lastRun, status, call, via, lines, acked, outcome,
                   netVars, handler, pageVars, pastVars>>

\* An acknowledgement over a later connection finds nobody waiting.
Acknowledge(x) ==
    /\ run[x] \in {"running", "hung", "told"} /\ ~acked[x]
    /\ acked' = [acked EXCEPT ![x] = TRUE]
    /\ IF link = via[x] THEN Sends(x, "ack") ELSE UNCHANGED <<inbox, crossed>>
    /\ UNCHANGED <<kind, versionVars, lastRun, status, call, via, run, lines, outcome, link,
                   wire, handler, pageVars, lost, early, crashes>>

\* runbook_step_status and runbook_log: what is to be started, and what a step has written.
SendLine(x) ==
    /\ run[x] = "running" /\ kind[x] = "run"
    /\ lines[x] < MaxLines
    /\ lines' = [lines EXCEPT ![x] = @ + 1]
    /\ Sends(x, "line")
    /\ UNCHANGED <<kind, versionVars, lastRun, status, call, via, run, acked, outcome, link,
                   wire, handler, pageVars, lost, early, crashes>>

\* A step waits for everything that holds its output: after sixty seconds bash is killed, but
\* not what it has started, and that may go on for as long as it likes.
Hang(x) ==
    /\ run[x] = "running" /\ kind[x] = "run"
    /\ run' = [run EXCEPT ![x] = "hung"]
    /\ UNCHANGED <<kind, versionVars, lastRun, status, call, via, lines, acked, outcome,
                   netVars, handler, pageVars, pastVars>>

\* A wrong variant: a step that fails ends the run without a word.
SendSuccess(x) ==
    /\ run[x] \in {"running", "hung"}
    /\ run' = [run EXCEPT ![x] = "told"]
    /\ \E result \in IF kind[x] = "rollback" THEN {"rolled_back"} ELSE {"success", "failed"} :
          /\ outcome' = [outcome EXCEPT ![x] = result]
          /\ IF result = "failed" THEN UNCHANGED <<inbox, crossed>> ELSE Sends(x, result)
    /\ lost' = IF wire THEN lost ELSE lost \cup {x}
    /\ UNCHANGED <<kind, versionVars, lastRun, status, call, via, lines, acked, link, wire,
                   handler, pageVars, early, crashes>>

\* One result, when a step fails or all are done. A rollback does nothing and says so.
SendResult(x) ==
    /\ run[x] \in {"running", "hung"}
    /\ run' = [run EXCEPT ![x] = "told"]
    /\ \E result \in IF kind[x] = "rollback" THEN {"rolled_back"} ELSE {"success", "failed"} :
          /\ outcome' = [outcome EXCEPT ![x] = result]
          /\ Sends(x, result)
    /\ lost' = IF wire THEN lost ELSE lost \cup {x}
    /\ UNCHANGED <<kind, versionVars, lastRun, status, call, via, lines, acked, link, wire,
                   handler, pageVars, early, crashes>>

Agent(x) == StartRun(x) \/ Acknowledge(x) \/ SendLine(x) \/ Hang(x) \/ SendResult(x)

-----------------------------------------------------------------------------
(* The handler of an agent connection *)

\* A wrong variant: the status of a step is taken for that of the execution.
BeginAnyStatus(l, m) ==
    /\ call' = IF m.kind = "ack" /\ call[m.of] = "waiting"
               THEN [call EXCEPT ![m.of] = "accepted"] ELSE call
    /\ status' = IF m.kind # "ack" THEN Written(m.of, m.kind) ELSE status
    /\ handler' = [handler EXCEPT ![l] =
          IF m.kind = "ack" THEN Idle ELSE [stage |-> "copy", msg |-> m, to |-> {}]]

\* A wrong variant: the row that is written is that of every execution of the runbook.
BeginAll(l, m) ==
    /\ call' = IF m.kind = "ack" /\ call[m.of] = "waiting"
               THEN [call EXCEPT ![m.of] = "accepted"] ELSE call
    /\ status' = IF m.kind \in Final
                 THEN [x \in Execution |-> IF status[x] = "none" THEN "none" ELSE m.kind]
                 ELSE status
    /\ handler' = [handler EXCEPT ![l] =
          IF m.kind = "ack" THEN Idle
          ELSE [stage |-> IF m.kind \in Final /\ status[m.of] # "none" THEN "last_run" ELSE "copy",
                msg |-> m, to |-> {}]]

\* What a handler begins with a message m of connection l: an acknowledgement wakes the
\* request, a line is stored, a result is written to the row of the execution.
Begin(l, m) ==
    /\ call' = IF m.kind = "ack" /\ call[m.of] = "waiting"
               THEN [call EXCEPT ![m.of] = "accepted"] ELSE call
    /\ status' = IF m.kind \in Final THEN Written(m.of, m.kind) ELSE status
    /\ handler' = [handler EXCEPT ![l] =
          IF m.kind = "ack" THEN Idle
          ELSE [stage |-> IF m.kind \in Final /\ status[m.of] # "none" THEN "last_run" ELSE "copy",
                msg |-> m, to |-> {}]]

\* A wrong variant: messages are handed to goroutines, and any may be first.
ReadAny(l) ==
    /\ handler[l] = Idle
    /\ \E n \in 1..Len(inbox[l]) :
          /\ inbox' = [inbox EXCEPT ![l] = SubSeq(@, 1, n - 1) \o SubSeq(@, n + 1, Len(@))]
          /\ Begin(l, inbox[l][n])
    /\ UNCHANGED <<kind, versionVars, lastRun, via, agentVars, link, wire, pageVars, pastVars>>

ReadMessage(l) ==
    /\ handler[l] = Idle
    /\ inbox[l] # <<>>
    /\ inbox' = [inbox EXCEPT ![l] = Tail(@)]
    /\ Begin(l, Head(inbox[l]))
    /\ UNCHANGED <<kind, versionVars, lastRun, via, agentVars, link, wire, pageVars, pastVars>>

\* A wrong variant: the runbook is not told how its run ended.
SkipLastRun(l) ==
    LET x == handler[l].msg.of IN
    /\ handler[l].stage = "last_run"
    /\ handler' = [handler EXCEPT ![l].stage = "copy"]
    /\ UNCHANGED <<kind, versionVars, lastRun, status, call, via, agentVars, netVars, pageVars,
                   pastVars>>

\* The second statement of applyRunbookResult.
WriteLastRun(l) ==
    LET x == handler[l].msg.of IN
    /\ handler[l].stage = "last_run"
    /\ lastRun' = LastRunIs(handler[l].msg.kind)
    /\ early' = IF call[x] \in {"waiting", "accepted"} THEN early \cup {x} ELSE early
    /\ handler' = [handler EXCEPT ![l].stage = "copy"]
    /\ UNCHANGED <<kind, versionVars, status, call, via, agentVars, netVars, pageVars, lost,
                   crossed, crashes>>

\* BroadcastRunbookExecutionLog copies the subscribers under the read lock ...
CopySubscribers(l) ==
    LET now == subs[handler[l].msg.of] IN
    /\ handler[l].stage = "copy"
    /\ handler' = [handler EXCEPT ![l] =
          IF now = {} THEN Idle ELSE [@ EXCEPT !.stage = "send", !.to = now]]
    /\ UNCHANGED <<kind, versionVars, lastRun, status, call, via, agentVars, netVars, pageVars,
                   pastVars>>

\* What a page shows when it gets a message of kind k after having been told old.
Shown(old, k) ==
    IF k \in Final THEN "result"
    ELSE IF old \in {"result", "late line"} THEN "late line" ELSE "line"

\* ... and sends to each of them after it, also to one that has unsubscribed by now.
SendToPage(l) ==
    /\ handler[l].stage = "send"
    /\ \E i \in handler[l].to :
          /\ told' = IF site[i] = Gone THEN told
                     ELSE [told EXCEPT ![i][handler[l].msg.of] = Shown(@, handler[l].msg.kind)]
          /\ handler' = IF handler[l].to = {i} THEN [handler EXCEPT ![l] = Idle]
                                              ELSE [handler EXCEPT ![l].to = @ \ {i}]
    /\ UNCHANGED <<kind, versionVars, siteVars, lastRun, status, call, via, agentVars, netVars,
                   pastVars>>

Handler(l) == ReadMessage(l) \/ WriteLastRun(l) \/ CopySubscribers(l) \/ SendToPage(l)

-----------------------------------------------------------------------------
(* Pages, connections and crashes *)

\* A page that subscribes is told what it has to know from the rows, not from the past.
PageStep ==
    /\ \E i \in Site :
         \/ \E x \in Execution :
              \/ CheckTopic(i, x) /\ status[x] # "none" /\ runbook = "live"
              \/ Subscribe(i, x) \/ Unsubscribe(i, x)
         \/ RemoveSite(i)
    /\ UNCHANGED <<kind, versionVars, lastRun, status, call, via, agentVars, netVars, handler,
                   told, pastVars>>

Connect ==
    /\ ~wire /\ link < MaxLinks
    /\ link' = link + 1 /\ wire' = TRUE
    /\ UNCHANGED <<kind, versionVars, lastRun, status, call, via, agentVars, inbox, handler,
                   pageVars, pastVars>>

\* The results among the messages of a sequence.
ResultsIn(q) == {m.of : m \in {q[n] : n \in {k \in 1..Len(q) : q[k].kind \in Final}}}

\* Commands the agent has not read are lost with their connection.
CommandsLost ==
    \E unread \in SUBSET {x \in Execution : run[x] = "sent"} :
        run' = [x \in Execution |-> IF x \in unread THEN "none" ELSE run[x]]

\* So is what it has sent, from some message on.
ConnectionLost ==
    /\ wire
    /\ wire' = FALSE
    /\ \E kept \in 0..Len(inbox[link]) :
          /\ inbox' = [inbox EXCEPT ![link] = SubSeq(@, 1, kept)]
          /\ lost' = lost \cup ResultsIn(SubSeq(inbox[link], kept + 1, Len(inbox[link])))
    /\ CommandsLost
    /\ UNCHANGED <<kind, versionVars, lastRun, status, call, via, lines, acked, outcome, link,
                   handler, pageVars, early, crossed, crashes>>

BackendDies ==
    /\ crashes < MaxCrashes /\ crashes' = crashes + 1
    /\ RequestsDie
    /\ SitesDie
    /\ call' = [x \in Execution |->
          IF call[x] \in {"idle", "done"} THEN call[x] ELSE "died"]
    /\ wire' = FALSE
    /\ inbox' = [l \in 1..MaxLinks |-> <<>>]
    /\ lost' = lost \cup (UNION {ResultsIn(inbox[l]) : l \in 1..MaxLinks})
          \cup {handler[l].msg.of : l \in {k \in 1..MaxLinks : handler[k].stage = "last_run"}}
    /\ handler' = [l \in 1..MaxLinks |-> Idle]
    /\ CommandsLost
    /\ UNCHANGED <<kind, lastRun, status, via, lines, acked, outcome, link, told, early, crossed>>

AgentDies ==
    /\ crashes < MaxCrashes /\ crashes' = crashes + 1
    /\ wire' = FALSE
    /\ run' = [x \in Execution |->
          CASE run[x] = "sent" -> "none"
            [] run[x] \in {"running", "hung"} -> "killed"
            [] OTHER -> run[x]]
    /\ acked' = [x \in Execution |-> TRUE]
    /\ UNCHANGED <<kind, versionVars, lastRun, status, call, via, lines, outcome, link, inbox,
                   handler, pageVars, lost, early, crossed>>

-----------------------------------------------------------------------------
Next ==
    \/ \E x \in Execution : Request(x) \/ Agent(x)
    \/ \E l \in 1..MaxLinks : Handler(l)
    \/ VersionStep \/ PageStep \/ Connect \/ ConnectionLost \/ BackendDies \/ AgentDies

\* Requests under way go on (their wait is bounded by a timer), the agent's goroutines run, and
\* handlers read on. A step comes to an end unless it hangs; nothing is assumed of one that does.
Fairness ==
    /\ \A x \in Execution :
          /\ WF_vars(call[x] # "idle" /\ Request(x))
          /\ WF_vars(StartRun(x)) /\ WF_vars(Acknowledge(x)) /\ WF_vars(run[x] = "running" /\ SendResult(x))
    /\ \A l \in 1..MaxLinks : WF_vars(Handler(l))

Spec == Init /\ [][Next]_vars
FairSpec == Spec /\ Fairness

-----------------------------------------------------------------------------
(* Properties *)

\* What a row says of an execution is what happened: a success is a dry run's or was reported
\* by the agent for this execution, a rollback too, and a failure was reported or is that of
\* the request itself (runbook_handlers.go:455, 462, 684).
HonestStatus ==
    \A x \in Execution :
        /\ status[x] = "success" => kind[x] = "dry" \/ outcome[x] = "success"
        /\ status[x] = "rolled_back" => outcome[x] = "rolled_back"
        /\ status[x] = "failed" =>
              outcome[x] = "failed" \/ (kind[x] = "run" /\ call[x] = "done")

\* The result of x is on its way: the agent will say it, if no step hangs, or has said it.
ResultComes(x) ==
    \/ run[x] \in {"sent", "running", "hung"}
    \/ \E l \in 1..MaxLinks : x \in ResultsIn(inbox[l])

\* An execution that stays pending after its request is over is owed a result that is still
\* to come. The exceptions are a result that was lost with its connection, a process that
\* died, and a rollback whose refusal is ignored (runbook_handlers.go:510).
PendingIsOwed ==
    \A x \in Execution : status[x] = "pending" /\ call[x] = "done" =>
        \/ ResultComes(x)
        \/ x \in lost \/ run[x] = "killed"
        \/ kind[x] = "rollback"

\* Nothing is under way, and nobody began to delete the runbook.
Quiet ==
    /\ remover = "idle"
    /\ \A x \in Execution :
          call[x] \in {"idle", "done", "died"} /\ run[x] \notin {"sent", "running", "hung"}
    /\ \A l \in 1..MaxLinks : inbox[l] = <<>> /\ handler[l] = Idle

\* When nothing is under way, the runbook shows the result of one of its runs. It says
\* pending for ever only when a dry run was the last, or a result was faster than the request
\* that started its run, or never came (runbook_handlers.go:471, 689).
LastRunExplained ==
    Quiet =>
        /\ lastRun \in Final => \E x \in Execution : outcome[x] = lastRun /\ call[x] # "idle"
        /\ lastRun = "pending" =>
              \E x \in Execution :
                  /\ call[x] = "done"
                  /\ \/ kind[x] = "dry" \/ x \in early \/ x \in lost \/ run[x] = "killed"

\* A page that was told the result of an execution gets no line of it any more, unless the
\* agent changed its connection in the middle of the run: then two handlers broadcast side by
\* side (ws_handlers.go:282-343).
NothingAfterResult ==
    \A i \in Site : \A x \in Execution : told[i][x] = "late line" => x \in crossed

\* A result the agent has reported and the backend has stored stays: no other writer of the
\* row changes it, short of deleting the execution. It is said to be the terminal status
\* (ws-protocol.md:657-659).
ResultIsTerminal ==
    [][\A x \in Execution :
        status[x] = outcome[x] /\ outcome[x] # "none" => status'[x] \in {outcome[x], "none"}]_vars

\* A run that was accepted gets its result, through lost connections and restarts of what its
\* messages go through, unless the result was lost, a process ended, or a step hangs: nothing
\* in the panel or in the agent ends that run (main.go:1373, 1425), and its row says pending.
RunEnds ==
    \A x \in Execution :
        call[x] = "accepted" ~>
            \/ status[x] # "pending"
            \/ x \in lost \/ run[x] \in {"killed", "hung"} \/ call[x] = "died"

=============================================================================
