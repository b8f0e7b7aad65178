-------------------------- MODULE RunbookVersions --------------------------
(***************************************************************************)
(* The versions of one runbook.  Creating it takes two statements, the row *)
(* of the runbook, which says that version 1 is the latest, and the row of *)
(* that version.  Saving a definition and going back to an older one are   *)
(* three: the row of the runbook is read, a version row with the next      *)
(* number is inserted, and latest_version is set.  Deleting takes three    *)
(* too.  No transaction holds the statements of a request together, errors *)
(* of the database are ignored where the comments say so, nothing holds    *)
(* two requests apart, and no index keeps numbers unique.                  *)
(***************************************************************************)
EXTENDS Naturals, Sequences

CONSTANT Edit    \* requests that save a version or go back to one

VARIABLES
    runbook,     \* the row of the runbook: not yet there, there, or deleted
    latest,      \* its latest_version
    versions,    \* the numbers of its version rows, in the order of their ids
    creator,     \* where the request that creates the runbook is
    edit,        \* where the request of an edit is
    number,      \* the version number it computed
    remover,     \* where the request that deletes the runbook is
    owed,        \* history: numbers latest_version was given before, or without, their row
    raced        \* history: have two edits overlapped, or has one not set latest_version?

versionVars == <<runbook, latest, versions, creator, edit, number, remover, owed, raced>>

VersionsTypeOK ==
    /\ runbook \in {"none", "live", "deleted"}
    /\ latest \in Nat
    /\ versions \in Seq(Nat)
    /\ creator \in {"idle", "runbook", "done"}
    /\ edit \in [Edit -> {"idle", "saving", "returning", "inserted", "done"}]
    /\ number \in [Edit -> Nat]
    /\ remover \in {"idle", "versions", "executions", "done"}
    /\ owed \subseteq Nat
    /\ raced \in BOOLEAN

VersionsInit ==
    /\ runbook = "none" /\ latest = 0 /\ versions = <<>>
    /\ creator = "idle"
    /\ edit = [d \in Edit |-> "idle"]
    /\ number = [d \in Edit |-> 0]
    /\ remover = "idle"
    /\ owed = {}
    /\ raced = FALSE

-----------------------------------------------------------------------------
Stored == {versions[n] : n \in 1..Len(versions)}
UnderWay == {d \in Edit : edit[d] \in {"saving", "returning", "inserted"}}

\* Create(&runbook) with LatestVersion 1 ...
CreateRunbook ==
    /\ creator = "idle"
    /\ creator' = "runbook"
    /\ runbook' = "live" /\ latest' = 1
    /\ owed' = {1}
    /\ UNCHANGED <<versions, edit, number, remover, raced>>

\* ... and Create(&version), whose error is ignored.
InsertFirst ==
    /\ creator = "runbook"
    /\ creator' = "done"
    /\ \/ versions' = Append(versions, 1) /\ owed' = owed \ {1}
       \/ UNCHANGED <<versions, owed>>
    /\ UNCHANGED <<runbook, latest, edit, number, remover, raced>>

\* A wrong variant: going back to a version counts on from that version.
LoadFromOld(d) ==
    /\ edit[d] = "idle" /\ runbook = "live"
    /\ edit' = [edit EXCEPT ![d] = "returning"]
    /\ \E n \in Stored : number' = [number EXCEPT ![d] = n + 1]
    /\ raced' = (raced \/ UnderWay # {})
    /\ UNCHANGED <<runbook, latest, versions, creator, remover, owed>>

\* loadRunbookForUser; a request to go back also finds the version it goes back to.
LoadRunbook(d) ==
    /\ edit[d] = "idle" /\ runbook = "live"
    /\ \/ edit' = [edit EXCEPT ![d] = "saving"]
       \/ Stored # {} /\ edit' = [edit EXCEPT ![d] = "returning"]
    /\ number' = [number EXCEPT ![d] = latest + 1]
    /\ raced' = (raced \/ UnderWay # {})
    /\ UNCHANGED <<runbook, latest, versions, creator, remover, owed>>

InsertVersion(d) ==
    /\ edit[d] \in {"saving", "returning"}
    /\ versions' = Append(versions, number[d])
    /\ edit' = [edit EXCEPT ![d] = "inserted"]
    /\ UNCHANGED <<runbook, latest, creator, number, remover, owed, raced>>

\* The version cannot be inserted: a request to save ends with an error, one to go back
\* ignores that and goes on to the number it did not store.
InsertFails(d) ==
    /\ \/ edit[d] = "saving" /\ edit' = [edit EXCEPT ![d] = "done"] /\ UNCHANGED owed
       \/ /\ edit[d] = "returning"
          /\ edit' = [edit EXCEPT ![d] = "inserted"] /\ owed' = owed \cup {number[d]}
    /\ UNCHANGED <<runbook, latest, versions, creator, number, remover, raced>>

\* Update("latest_version", nextVersion), which finds no row if the runbook is deleted, and
\* whose error is ignored.
SetLatest(d) ==
    /\ edit[d] = "inserted"
    /\ \/ latest' = (IF runbook = "live" THEN number[d] ELSE latest) /\ UNCHANGED raced
       \/ raced' = TRUE /\ UNCHANGED latest
    /\ edit' = [edit EXCEPT ![d] = "done"]
    /\ UNCHANGED <<runbook, versions, creator, number, remover, owed>>

\* handleDeleteRunbook: the versions, the executions, the runbook.
DeleteVersions ==
    /\ remover = "idle" /\ runbook = "live"
    /\ remover' = "versions"
    /\ versions' = <<>>
    /\ UNCHANGED <<runbook, latest, creator, edit, number, owed, raced>>

DeleteExecutions ==
    /\ remover = "versions"
    /\ remover' = "executions"
    /\ UNCHANGED <<runbook, latest, versions, creator, edit, number, owed, raced>>

DeleteRunbook ==
    /\ remover = "executions"
    /\ remover' = "done"
    /\ runbook' = "deleted"
    /\ UNCHANGED <<latest, versions, creator, edit, number, owed, raced>>

\* The backend process ends: every request under way is cut short.
RequestsDie ==
    /\ creator' = IF creator = "runbook" THEN "done" ELSE creator
    /\ edit' = [d \in Edit |-> IF d \in UnderWay THEN "done" ELSE edit[d]]
    /\ remover' = IF remover = "idle" THEN "idle" ELSE "done"
    /\ raced' = (raced \/ UnderWay # {})
    /\ UNCHANGED <<runbook, latest, versions, number, owed>>

VersionsNext ==
    \/ CreateRunbook \/ InsertFirst
    \/ \E d \in Edit : LoadRunbook(d) \/ InsertVersion(d) \/ InsertFails(d) \/ SetLatest(d)
    \/ DeleteVersions \/ DeleteExecutions \/ DeleteRunbook
    \/ RequestsDie

VersionsSpec == VersionsInit /\ [][VersionsNext]_versionVars

-----------------------------------------------------------------------------
(* Properties *)

\* While nobody has begun to delete the runbook its latest version is a row, and so is every
\* number below it, each of which the page offers to compare and to go back to
\* (runbook_handlers.go:293-297). Missing is only what a request has skipped: version 1 while
\* the creation is between its two statements, or if the second never came (81-92), and the
\* number of a request to go back whose insert failed (333). Edits that overlap, or are cut
\* short, leave no number out.
LatestIsStored ==
    remover = "idle" => \A n \in 1..latest : n \in Stored \/ n \in owed

\* No number is given twice, also not by a creation that stores version 1 after edits have
\* passed it, unless two edits overlapped or one did not get to set latest_version: First
\* finds the definition that was saved under the number, and not an older one that has it too
\* (runbook_handlers.go:281, 322, 423).
SavedIsFound ==
    ~raced => \A m, n \in 1..Len(versions) : versions[m] = versions[n] => m = n

\* What creating, saving and going back promise together: the latest version is there with all
\* before it, but for the gaps the code leaves, and a number names one definition.
VersionsSound == LatestIsStored /\ SavedIsFound

=============================================================================
