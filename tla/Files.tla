------------------------------- MODULE Files -------------------------------
(***************************************************************************)
(* One file of a server that is edited in the panel: a lock in the memory  *)
(* of the backend, requests to apply a content or to go back to a version, *)
(* and the agent's goroutines that carry them out.  The lock is looked at  *)
(* before the agent is asked and not held while it works, so that commands *)
(* may meet at the file.                                                   *)
(*                                                                         *)
(* A request brings a content of its own.  A file is written by opening    *)
(* it, which empties it, and putting the content into it; who has opened a *)
(* file keeps writing into it when it is renamed.                          *)
(***************************************************************************)
EXTENDS Naturals, FiniteSets

CONSTANTS
    Save,       \* requests that change the file
    MaxJobs     \* bound on the commands at one time

ASSUME FilesAssumption == MaxJobs \in Nat

VARIABLES
    lock,         \* has a page the token of a lock that is still good?
    save,         \* where a request is, and the content its page has read
    fileVersions, \* the contents of the version rows
    disk,         \* what is in the file and in the two temporary files
    job,          \* the goroutine of the agent for a request
    good,         \* history: the content of the newest command that succeeded
    excuse        \* history: what may have spoiled the file

fileVars == <<lock, save, fileVersions, disk, job, good, excuse>>

-----------------------------------------------------------------------------
(* Values *)

Content == Save \cup {"original"}
Name    == {"file", "apply.tmp", "rollback.tmp"}

\* The stages of a command: "opened" and "restoring" have a file open, whose name is "to".
Stage   == {"none", "sent", "read", "valid", "opened", "written", "renamed", "restoring", "answered"}
NoJob   == [at |-> "none", op |-> "none", content |-> "original", old |-> "original",
            to |-> "none", answer |-> "none"]
Working == {q \in Save : job[q].at \notin {"none", "sent", "answered"}}

FilesTypeOK ==
    /\ lock \in BOOLEAN
    /\ save \in [Save -> [at : {"idle", "waiting", "over"}, view : Content \cup {"none", "torn"}]]
    /\ fileVersions \in SUBSET Save
    /\ disk \in [Name -> Content \cup {"none", "empty", "torn"}]
    /\ job \in [Save -> [at : Stage, op : {"none", "apply", "rollback"}, content : Content,
                         old : Content \cup {"empty", "torn"}, to : Name \cup {"none", "gone"},
                         answer : {"none", "ok", "invalid", "error"}]]
    /\ good \in Content
    /\ excuse \in SUBSET {"met", "met its like", "cut", "cut restore"}

FilesInit ==
    /\ lock = FALSE
    /\ save = [q \in Save |-> [at |-> "idle", view |-> "none"]]
    /\ fileVersions = {}
    /\ disk = [n \in Name |-> IF n = "file" THEN "original" ELSE "none"]
    /\ job = [q \in Save |-> NoJob]
    /\ good = "original"
    /\ excuse = {}

-----------------------------------------------------------------------------
(* The backend *)

\* A user may lock again what the user has locked; the new token takes the place of the old.
FileLock ==
    /\ lock' = TRUE
    /\ UNCHANGED <<save, fileVersions, disk, job, good, excuse>>

\* The lock is given up by its token, or ten minutes pass.
FileUnlock ==
    /\ lock
    /\ lock' = FALSE
    /\ UNCHANGED <<save, fileVersions, disk, job, good, excuse>>

\* A page reads the content and its hash; a file that is empty for now is a content like others.
ReadContent(q) ==
    /\ save[q] = [at |-> "idle", view |-> "none"]
    /\ save' = [save EXCEPT ![q].view = IF disk["file"] \in Content THEN disk["file"] ELSE "torn"]
    /\ UNCHANGED <<lock, fileVersions, disk, job, good, excuse>>

Command(q, op, view, content) ==
    /\ save[q].at = "idle"
    /\ Cardinality({r \in Save : job[r].at # "none"}) < MaxJobs
    /\ save' = [save EXCEPT ![q] = [at |-> "waiting", view |-> view]]
    /\ job' = [job EXCEPT ![q] = [NoJob EXCEPT !.at = "sent", !.op = op, !.content = content]]
    /\ UNCHANGED <<lock, fileVersions, disk, good, excuse>>

\* The token of the request is that of the lock now; the lock may change before the agent acts.
\* A page that has read the file sends the hash of what it has read.
Apply(q) == lock /\ Command(q, "apply", save[q].view, q)

\* Without a lock and without a hash, to any version there is.
Rollback(q) == \E content \in fileVersions : Command(q, "rollback", "none", content)

\* A version is recorded when an apply is answered, a content the agent found invalid too.
AnswerRead(q) ==
    /\ save[q].at = "waiting" /\ job[q].at = "answered"
    /\ fileVersions' = IF job[q].op = "apply" /\ job[q].answer \in {"ok", "invalid"}
                       THEN fileVersions \cup {q} ELSE fileVersions
    /\ save' = [save EXCEPT ![q] = [at |-> "over", view |-> "none"]]
    /\ job' = [job EXCEPT ![q] = NoJob]
    /\ UNCHANGED <<lock, disk, good, excuse>>

\* Forty-five seconds pass, or the connection ends; the command goes on, unless it was not read.
TimesOut(q) ==
    /\ save[q].at = "waiting"
    /\ save' = [save EXCEPT ![q].at = "over"]
    /\ \/ job[q].at # "answered" /\ UNCHANGED job
       \/ job[q].at \in {"sent", "answered"} /\ job' = [job EXCEPT ![q] = NoJob]
    /\ UNCHANGED <<lock, fileVersions, disk, good, excuse>>

\* The locks are in memory only.
FilesBackendDies ==
    /\ lock' = FALSE
    /\ save' = [q \in Save |-> IF save[q].at = "waiting" THEN [save[q] EXCEPT !.at = "over"]
                                                         ELSE save[q]]
    /\ job' = [q \in Save |-> IF job[q].at = "answered" THEN NoJob ELSE job[q]]
    /\ UNCHANGED <<fileVersions, disk, good, excuse>>

-----------------------------------------------------------------------------
(* The agent *)

\* What a goroutine has to be excused for when it sets to work beside others.
Meeting(q) ==
    (IF Working # {} THEN {"met"} ELSE {})
    \cup (IF \E r \in Working : job[r].op = job[q].op THEN {"met its like"} ELSE {})

\* The answer finds nobody if the request has given up.
Answered(q, answer) ==
    IF save[q].at = "waiting"
    THEN [NoJob EXCEPT !.at = "answered", !.op = job[q].op, !.answer = answer]
    ELSE NoJob

Reply(q, answer) == [job EXCEPT ![q] = Answered(q, answer)]

\* A wrong variant: the hash is not compared.
Agrees(q, content) == TRUE

\* The file is what the page has read, if it has read it.
SameHash(q, content) == save[q].view \in {"none", content}

\* The file is read, and its hash compared with the one of the request.
ReadFile(q) ==
    /\ job[q].at = "sent" /\ job[q].op = "apply"
    /\ excuse' = excuse \cup Meeting(q)
    /\ job' = IF SameHash(q, disk["file"])
              THEN [job EXCEPT ![q].at = "read", ![q].old = disk["file"]]
              ELSE Reply(q, "error")
    /\ UNCHANGED <<lock, save, fileVersions, disk, good>>

StartRollback(q) ==
    /\ job[q].at = "sent" /\ job[q].op = "rollback"
    /\ excuse' = excuse \cup Meeting(q)
    /\ job' = [job EXCEPT ![q].at = "valid"]
    /\ UNCHANGED <<lock, save, fileVersions, disk, good>>

\* What the validator of the provider says of a content; it runs on a copy of its own.
Verdicts == {"valid", "invalid"}

\* The content is validated, and the backup written.
Validate(q) ==
    /\ job[q].at = "read"
    /\ \E verdict \in Verdicts :
          job' = IF verdict = "valid" THEN [job EXCEPT ![q].at = "valid"] ELSE Reply(q, verdict)
    /\ UNCHANGED <<lock, save, fileVersions, disk, good, excuse>>

\* Any error before the content is in place ends the command with nothing done to the file.
Fails(q) ==
    /\ job[q].at \in {"read", "valid", "opened"}
    /\ job' = Reply(q, "error")
    /\ UNCHANGED <<lock, save, fileVersions, disk, good, excuse>>

Opens(q, name, stage) ==
    /\ disk' = [disk EXCEPT ![name] = "empty"]
    /\ job' = [job EXCEPT ![q].at = stage, ![q].to = name]

\* What is in a file after content was put into it: whoever has put something longer into it
\* since it was opened keeps the end of it.
Put(name, content) ==
    \E now \in {content} \cup (IF disk[name] = "empty" THEN {} ELSE {"torn"}) :
        disk' = [disk EXCEPT ![name] = now]

\* The temporary file has the same name in all commands of a kind.
Tmp(q) == IF job[q].op = "apply" THEN "apply.tmp" ELSE "rollback.tmp"

\* A wrong variant: the content is written into the file itself.
OpenFile(q) ==
    /\ job[q].at = "valid"
    /\ Opens(q, IF job[q].op = "apply" THEN "file" ELSE "rollback.tmp", "opened")
    /\ UNCHANGED <<lock, save, fileVersions, good, excuse>>

OpenTmp(q) ==
    /\ job[q].at = "valid"
    /\ Opens(q, Tmp(q), "opened")
    /\ UNCHANGED <<lock, save, fileVersions, good, excuse>>

WriteTmp(q) ==
    /\ job[q].at = "opened"
    /\ IF job[q].to = "gone" THEN UNCHANGED disk ELSE Put(job[q].to, job[q].content)
    /\ job' = [job EXCEPT ![q].at = "written", ![q].to = "none"]
    /\ UNCHANGED <<lock, save, fileVersions, good, excuse>>

\* A file loses its name, to another one or for good; whoever has it open keeps it open.
Moved(from, to) ==
    [r \in Save |-> CASE job[r].to = from -> [job[r] EXCEPT !.to = to]
                      [] job[r].to = to   -> [job[r] EXCEPT !.to = "gone"]
                      [] OTHER            -> job[r]]

\* A rollback is done with that.
RenameTmp(q) ==
    /\ job[q].at = "written" /\ disk[Tmp(q)] # "none"
    /\ disk' = [disk EXCEPT !["file"] = disk[Tmp(q)], ![Tmp(q)] = "none"]
    /\ job' = [Moved(Tmp(q), "file") EXCEPT ![q] =
          IF job[q].op = "apply" THEN [@ EXCEPT !.at = "renamed"] ELSE Answered(q, "ok")]
    /\ good' = IF job[q].op = "rollback" THEN job[q].content ELSE good
    /\ UNCHANGED <<lock, save, fileVersions, excuse>>

\* The temporary file cannot be renamed, or is not there any more; what is there is removed.
RenameFails(q) ==
    /\ job[q].at = "written"
    /\ disk' = [disk EXCEPT ![Tmp(q)] = "none"]
    /\ job' = [Moved(Tmp(q), "gone") EXCEPT ![q] = Answered(q, "error")]
    /\ UNCHANGED <<lock, save, fileVersions, good, excuse>>

\* The service takes the file, and is well.
Healthy(q) ==
    /\ job[q].at = "renamed"
    /\ job' = Reply(q, "ok")
    /\ good' = job[q].content
    /\ UNCHANGED <<lock, save, fileVersions, disk, excuse>>

\* A wrong variant: the service is not well, and the new content stays.
UnhealthyKept(q) ==
    /\ job[q].at = "renamed"
    /\ job' = Reply(q, "error")
    /\ UNCHANGED <<lock, save, fileVersions, disk, good, excuse>>

\* It does not, or is not: what was read at the beginning is written into the file itself.
Unhealthy(q) ==
    /\ job[q].at = "renamed"
    /\ Opens(q, "file", "restoring")
    /\ UNCHANGED <<lock, save, fileVersions, good, excuse>>

Restore(q) ==
    /\ job[q].at = "restoring"
    /\ IF job[q].to = "gone" THEN UNCHANGED disk ELSE Put("file", job[q].old)
    /\ job' = Reply(q, "error")
    /\ UNCHANGED <<lock, save, fileVersions, good, excuse>>

\* Nobody looks whether that could be done.
RestoreFails(q) ==
    /\ job[q].at = "restoring"
    /\ job' = Reply(q, "error")
    /\ excuse' = excuse \cup {"cut", "cut restore"}
    /\ UNCHANGED <<lock, save, fileVersions, disk, good>>

\* The agent's process ends, and every command with it.
FilesAgentDies ==
    /\ excuse' = excuse \cup (IF Working # {} THEN {"cut"} ELSE {})
          \cup (IF \E q \in Working : job[q].at = "restoring" THEN {"cut restore"} ELSE {})
    /\ job' = [q \in Save |-> NoJob]
    /\ UNCHANGED <<lock, save, fileVersions, disk, good>>

FilesNext ==
    \/ FileLock \/ FileUnlock
    \/ \E q \in Save :
        \/ ReadContent(q) \/ Apply(q) \/ Rollback(q) \/ AnswerRead(q) \/ TimesOut(q)
        \/ ReadFile(q) \/ StartRollback(q) \/ Validate(q) \/ Fails(q)
        \/ OpenTmp(q) \/ WriteTmp(q) \/ RenameTmp(q) \/ RenameFails(q)
        \/ Healthy(q) \/ Unhealthy(q) \/ Restore(q) \/ RestoreFails(q)
    \/ FilesBackendDies \/ FilesAgentDies

FilesSpec == FilesInit /\ [][FilesNext]_fileVars

-----------------------------------------------------------------------------
(* Properties *)

\* At every moment the service that reads the file finds a whole content, also when an apply
\* and a rollback meet, or a process ends between two steps. It does not while an apply writes
\* back what it has found, for ever if the agent ends or fails in that, and when two
\* commands of one kind have met at their temporary file (main.go:1136-1155, 1175-1180).
WholeFile ==
    \/ disk["file"] \in Content
    \/ excuse \cap {"met its like", "cut restore"} # {}
    \/ \E q \in Save : job[q].at = "restoring"

\* When the agent is at no command, the file is what the newest successful one has made it: an
\* apply that failed, early or at the health check, has left no trace, unless commands met or
\* the agent ended at one (main.go:1102-1155).
FileIsLastGood ==
    Working = {} /\ excuse = {} => disk["file"] = good

\* An apply that knows what its page has read does not undo a change the page has not seen,
\* unless another command is at the file at the same time: the lock does not keep it away
\* (file_ops_handlers.go:227-234, main.go:1109-1112).
NoLostUpdate ==
    [][\A q \in Save :
          job[q].op = "apply" /\ job[q].at = "written" /\ job'[q].at = "renamed"
             /\ save[q].view # "none" /\ excuse = {} => disk["file"] = save[q].view]_fileVars

=============================================================================
