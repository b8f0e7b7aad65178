----------------------------- MODULE AgentCall ------------------------------
(***************************************************************************)
(* What RequestAgent promises to its callers, with no hub, no connections  *)
(* and no timers in sight: a command is started on the agent at most once, *)
(* the caller is told exactly one outcome, and the outcome is honest: an   *)
(* answer is that of a command that was started, a command said not to     *)
(* have been sent is never started, and a caller who was told that nothing *)
(* is known must expect the command to start after the call returned.      *)
(***************************************************************************)
CONSTANT Request

VARIABLES
    phase,     \* "idle", "open" (the caller waits) or "done"
    ran,       \* the commands that an agent has started
    outcome    \* what the caller was told

vars == <<phase, ran, outcome>>

\* The agent answered: it must have had the command.
Answered == {"ok", "refused"}
\* The command never left the backend.
NeverSent == {"offline", "sendError"}
\* Nothing is known of the command: the connection or the patience of the caller ended, and
\* the command may be on its way.
Unknown == {"dropped", "timeout", "crashed"}

Init ==
    /\ phase = [r \in Request |-> "idle"]
    /\ ran = {}
    /\ outcome = [r \in Request |-> "none"]

Begin(r) ==
    /\ phase[r] = "idle"
    /\ phase' = [phase EXCEPT ![r] = "open"]
    /\ UNCHANGED <<ran, outcome>>

\* The agent starts the command, while the caller waits or after it has given up.
Run(r) ==
    /\ phase[r] = "open" \/ outcome[r] \in Unknown
    /\ r \notin ran
    /\ ran' = ran \cup {r}
    /\ UNCHANGED <<phase, outcome>>

Return(r, o) ==
    /\ phase[r] \in {"idle", "open"}
    /\ o \in Answered => r \in ran
    /\ o \in NeverSent => r \notin ran
    /\ phase' = [phase EXCEPT ![r] = "done"]
    /\ outcome' = [outcome EXCEPT ![r] = o]
    /\ UNCHANGED ran

\* The process that serves the callers dies with all of them.
Abandon ==
    /\ phase' = [r \in Request |-> IF phase[r] = "idle" THEN "idle" ELSE "done"]
    /\ outcome' = [r \in Request |-> IF phase[r] = "open" THEN "crashed" ELSE outcome[r]]
    /\ UNCHANGED ran

Next ==
    \/ \E r \in Request : Begin(r) \/ Run(r)
    \/ \E r \in Request, o \in Answered \cup NeverSent \cup Unknown : Return(r, o)
    \/ Abandon

Spec == Init /\ [][Next]_vars
=============================================================================
