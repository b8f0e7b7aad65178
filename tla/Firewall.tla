------------------------------ MODULE Firewall ------------------------------
(***************************************************************************)
(* Firewall rules of one server: the rows of the panel and the rules of    *)
(* the host, which are changed one after the other by requests that know   *)
(* nothing of each other.  What a rule says is its key (direction,         *)
(* protocol, port, source, destination): here, what ufw makes of these,    *)
(* so that one key is one rule of the host.  The panel compares them as    *)
(* they are written, and an address can be written in more ways than one   *)
(* (10.0.0.5/8 and 10.0.0.0/8): it refuses a second row of a key only if   *)
(* that key can be written in one way.  Actions are not compared, and left *)
(* out.  The host is ufw's: adding what is there and deleting what is not  *)
(* change nothing.                                                         *)
(*                                                                         *)
(* The commands of the agent run each in a goroutine of its own, and go on *)
(* when the request that waits for them has given up.                      *)
(***************************************************************************)
EXTENDS Naturals, SequencesExt

CONSTANTS
    Rule,      \* the keys of rules, as ufw has them
    Manifold,  \* those that can be written in more ways than one
    Legible,   \* those parseUfwRules reads back as they are
    Change,    \* requests that change something: create, quick or expose, update, delete, rollback
    MaxAtOnce  \* bound on the requests at one time

ASSUME FirewallAssumption ==
    Manifold \subseteq Rule /\ Legible \subseteq Rule /\ "none" \notin Rule /\ MaxAtOnce \in Nat

VARIABLES
    rows,      \* the rows: [id, key, on]
    nextRow,   \* the id of the next row
    host,      \* the keys of the rules of the host
    active,    \* is the host's firewall enabled?
    audit,     \* the snapshot of the newest audit entry of a success, if there is one
    fw,        \* where a request is, and what it has read
    cmd,       \* the command of a request, on its way to the host and back
    past,      \* history: the rules of the host before the newest change that succeeded
    met,       \* history: what other requests touched while a request was under way
    blame      \* history: keys that may differ in the rows and on the host

fwVars == <<rows, nextRow, host, active, audit, fw, cmd, past, met, blame>>

-----------------------------------------------------------------------------
(* Values *)

Row      == [id : Nat, key : Rule, on : BOOLEAN]
\* What was listed, and the rows. The last two are history: the rules the host had, and those
\* others touched.
Snapshot == [host : SUBSET Rule, active : BOOLEAN, rows : SUBSET Row,
             was : SUBSET Rule, met : SUBSET Rule]

\* A request: what it does, the row it has read or inserted, the key and the enabled it wants,
\* and the snapshot it has taken, or found in the audit.
NoRow    == [id |-> 0, key |-> "none", on |-> FALSE]
NotBegun == [at |-> "idle", op |-> "none", row |-> NoRow, key |-> "none", on |-> FALSE,
             snapshot |-> {}]
Requests == [at : {"idle", "checked", "asked", "snapped", "sent", "over"},
             op : {"none", "create", "update", "delete", "rollback"},
             row : Row \cup {NoRow}, key : Rule \cup {"none"}, on : BOOLEAN,
             snapshot : SUBSET Snapshot]
Request(op, row, key, on) ==
    [NotBegun EXCEPT !.at = "checked", !.op = op, !.row = row, !.key = key, !.on = on]

\* The keys a request may change.
Keys(request) ==
    CASE request.at \in {"idle", "over"} -> {}
      [] request.op = "rollback" -> Rule
      [] OTHER -> {request.row.key, request.key} \cap Rule

\* What a command takes away from the host, what it adds, and whether a rollback enables it.
Commands  == [state : {"none", "sent", "ok", "error"},
              op : {"none", "add", "delete", "update", "rollback"},
              minus : SUBSET Rule, plus : SUBSET Rule, enable : BOOLEAN]
NoCommand == [state |-> "none", op |-> "none", minus |-> {}, plus |-> {}, enable |-> FALSE]

RowsOf(k) == {w \in rows : w.key = k}
Others(c) == UNION {Keys(fw[d]) : d \in Change \ {c}}
Taken(c)  == CHOOSE snapshot \in fw[c].snapshot : TRUE

FirewallTypeOK ==
    /\ rows \in SUBSET Row
    /\ nextRow \in Nat
    /\ host \in SUBSET Rule /\ active \in BOOLEAN
    /\ audit \in SUBSET Snapshot
    /\ fw \in [Change -> Requests]
    /\ cmd \in [Change -> Commands]
    /\ past \in SUBSET Rule
    /\ met \in [Change -> SUBSET Rule]
    /\ blame \in SUBSET Rule

\* Nothing has been changed yet. ufw may be installed and not enabled.
FirewallInit ==
    /\ rows = {} /\ nextRow = 1
    /\ host = {} /\ active \in BOOLEAN
    /\ audit = {}
    /\ fw = [c \in Change |-> NotBegun]
    /\ cmd = [c \in Change |-> NoCommand]
    /\ past = {}
    /\ met = [c \in Change |-> {}]
    /\ blame = {}

-----------------------------------------------------------------------------
(* The beginning of a request: what it reads, and the snapshot it takes *)

\* Two requests that are about one rule, or one row.
Collide(request, other) ==
    Keys(request) \cap Keys(other) # {} \/ (request.row.id # 0 /\ request.row.id = other.row.id)

\* An update that takes the key of another row, which is written otherwise.
Shared(request) ==
    {k \in {request.key} : request.op = "update" /\ ~(RowsOf(k) \subseteq {request.row})}

BeginChange(c, request) ==
    /\ fw[c] = NotBegun
    /\ Cardinality({d \in Change : Keys(fw[d]) # {}}) < MaxAtOnce
    /\ fw' = [fw EXCEPT ![c] = request]
    /\ met' = [d \in Change |-> CASE d = c -> Others(c)
                                  [] Keys(fw[d]) # {} -> met[d] \cup Keys(request)
                                  [] OTHER -> met[d]]
    /\ blame' = blame \cup Shared(request)
                      \cup UNION {Keys(request) \cup Keys(fw[d]) :
                                  d \in {e \in Change : Collide(request, fw[e])}}
    /\ UNCHANGED <<rows, nextRow, host, active, audit, cmd, past>>

\* A key the panel has is refused, if it is written in the same way.
BeginCreate(c) ==
    \E k \in Rule, enabled \in BOOLEAN :
        /\ RowsOf(k) = {} \/ k \in Manifold
        /\ BeginChange(c, Request("create", NoRow, k, enabled))

\* A quick rule and the rule of an application that is exposed are always enabled, and their keys
\* are not looked up. They go on as "create" does; which of the three handlers a request is in
\* shows only when its command fails, and is left open until then.
BeginQuick(c) ==
    \E k \in Rule : BeginChange(c, Request("create", NoRow, k, TRUE))

\* The row that is, and what it shall be; a key another row has is refused, if it is written in
\* the same way.
BeginUpdate(c) ==
    \E w \in rows, k \in Rule, enabled \in BOOLEAN :
        /\ RowsOf(k) \subseteq {w} \/ k \in Manifold
        /\ BeginChange(c, Request("update", w, k, enabled))

BeginDelete(c) ==
    \E w \in rows : BeginChange(c, Request("delete", w, "none", FALSE))

BeginRollback(c) ==
    /\ audit # {}
    /\ BeginChange(c, [Request("rollback", NoRow, "none", FALSE) EXCEPT !.at = "snapped",
                                                                       !.snapshot = audit])

\* ufwRules reads the rules from ufw status, which shows none while it is not enabled.
Listed == IF active THEN host ELSE {}

\* buildFirewallSnapshot asks the agent for the rules first. The agent asks ufw twice, whether it
\* is enabled and for its rules, and looks at no exit code: when one of the two fails, the answer
\* is that ufw is not enabled, or has no rules.
SnapshotHost(c) ==
    /\ fw[c].at = "checked"
    /\ \E enabled \in {active, FALSE}, listed \in {Listed, {}} :
          fw' = [fw EXCEPT ![c].at = "asked",
                           ![c].snapshot = {[host |-> listed, active |-> enabled, rows |-> {},
                                             was |-> host, met |-> {}]}]
    /\ UNCHANGED <<rows, nextRow, host, active, audit, cmd, past, met, blame>>

\* The rows are read after that.
SnapshotRows(c) ==
    /\ fw[c].at = "asked"
    /\ fw' = [fw EXCEPT ![c].at = "snapped",
                        ![c].snapshot = {[snapshot EXCEPT !.rows = rows] : snapshot \in @}]
    /\ UNCHANGED <<rows, nextRow, host, active, audit, cmd, past, met, blame>>

\* The request has answered; what it knew is gone.
Over(c) ==
    /\ fw' = [fw EXCEPT ![c] = [NotBegun EXCEPT !.at = "over"]]
    /\ met' = [met EXCEPT ![c] = {}]

\* The agent does not answer, and the request ends.
SnapshotFails(c) ==
    /\ fw[c].at = "checked"
    /\ Over(c)
    /\ UNCHANGED <<rows, nextRow, host, active, audit, cmd, past, blame>>

-----------------------------------------------------------------------------
(* The change: a row inserted for a new rule, and the command to the agent *)

\* gorm writes the default of the column, true, for an enabled that is false, into the row and
\* into the struct it is given.
GormCreate(row) == [row EXCEPT !.on = TRUE]

Send(c, op, minus, plus) ==
    cmd' = [cmd EXCEPT ![c] = [state |-> "sent", op |-> op, minus |-> minus, plus |-> plus,
                               enable |-> op = "rollback" /\ Taken(c).active]]

\* Nothing is to be done on the host.
SendNothing(c) == cmd' = [cmd EXCEPT ![c].state = "ok"]

InsertAndAdd(c) ==
    LET row == GormCreate([id |-> nextRow, key |-> fw[c].key, on |-> fw[c].on]) IN
    /\ fw[c].at = "snapped" /\ fw[c].op = "create"
    /\ rows' = rows \cup {row}
    /\ nextRow' = nextRow + 1
    /\ blame' = IF RowsOf(row.key) # {} THEN blame \cup {row.key} ELSE blame
    /\ IF row.on THEN Send(c, "add", {}, {row.key}) ELSE SendNothing(c)
    /\ fw' = [fw EXCEPT ![c].at = "sent", ![c].row = row, ![c].on = row.on]
    /\ UNCHANGED <<host, active, audit, past, met>>

\* A wrong variant: a rule that is switched off is left on the host.
SendUpdateForgetful(c) ==
    LET row == fw[c].row IN
    /\ fw[c].at = "snapped" /\ fw[c].op = "update"
    /\ CASE row.on /\ fw[c].on  -> Send(c, "update", {row.key}, {fw[c].key})
         [] ~row.on /\ fw[c].on -> Send(c, "add", {}, {fw[c].key})
         [] ~fw[c].on           -> SendNothing(c)
    /\ fw' = [fw EXCEPT ![c].at = "sent"]
    /\ UNCHANGED <<rows, nextRow, host, active, audit, past, met, blame>>

\* By the row that was read, and the one it shall be.
SendUpdate(c) ==
    LET row == fw[c].row IN
    /\ fw[c].at = "snapped" /\ fw[c].op = "update"
    /\ CASE row.on /\ fw[c].on   -> Send(c, "update", {row.key}, {fw[c].key})
         [] row.on /\ ~fw[c].on  -> Send(c, "delete", {row.key}, {})
         [] ~row.on /\ fw[c].on  -> Send(c, "add", {}, {fw[c].key})
         [] ~row.on /\ ~fw[c].on -> SendNothing(c)
    /\ fw' = [fw EXCEPT ![c].at = "sent"]
    /\ UNCHANGED <<rows, nextRow, host, active, audit, past, met, blame>>

SendDelete(c) ==
    LET row == fw[c].row IN
    /\ fw[c].at = "snapped" /\ fw[c].op = "delete"
    /\ IF row.on THEN Send(c, "delete", {row.key}, {}) ELSE SendNothing(c)
    /\ fw' = [fw EXCEPT ![c].at = "sent"]
    /\ UNCHANGED <<rows, nextRow, host, active, audit, past, met, blame>>

\* A wrong variant: rules are put back, and those that came since are left.
SendRollbackOver(c) ==
    /\ fw[c].at = "snapped" /\ fw[c].op = "rollback"
    /\ Send(c, "rollback", {}, Taken(c).host)
    /\ fw' = [fw EXCEPT ![c].at = "sent"]
    /\ UNCHANGED <<rows, nextRow, host, active, audit, past, met, blame>>

\* ufw is reset, and has the rules of the snapshot put back.
SendRollback(c) ==
    /\ fw[c].at = "snapped" /\ fw[c].op = "rollback"
    /\ Send(c, "rollback", Rule, Taken(c).host)
    /\ fw' = [fw EXCEPT ![c].at = "sent"]
    /\ UNCHANGED <<rows, nextRow, host, active, audit, past, met, blame>>

-----------------------------------------------------------------------------
(* The agent *)

\* The answer finds nobody if the request has given up.
Answer(c, state) ==
    cmd' = IF fw[c].at = "sent" THEN [cmd EXCEPT ![c].state = state]
                                ELSE [cmd EXCEPT ![c] = NoCommand]

\* What is to go goes, and the rest is added. A rollback resets ufw, and enables it if the
\* snapshot says so, but does not look whether that failed; it stops at a rule that was not read
\* back as it is.
HostApplies(c) ==
    /\ cmd[c].state = "sent"
    /\ cmd[c].op = "rollback" => cmd[c].plus \subseteq Legible
    /\ host' = (host \ cmd[c].minus) \cup cmd[c].plus
    /\ active' \in IF cmd[c].op = "rollback" THEN {cmd[c].enable, FALSE} ELSE {active}
    /\ Answer(c, "ok")
    /\ UNCHANGED <<rows, nextRow, audit, fw, past, met, blame>>

\* Nobody looks whether the old rule of an update was deleted.
HostKeepsOld(c) ==
    /\ cmd[c].state = "sent" /\ cmd[c].op = "update"
    /\ host' = host \cup cmd[c].plus
    /\ blame' = blame \cup (cmd[c].minus \ cmd[c].plus)
    /\ Answer(c, "ok")
    /\ UNCHANGED <<rows, nextRow, active, audit, fw, past, met>>

\* The agent is not there, or the first command of the shell fails.
HostRefuses(c) ==
    /\ cmd[c].state = "sent"
    /\ Answer(c, "error")
    /\ UNCHANGED <<rows, nextRow, host, active, audit, fw, past, met, blame>>

\* A later one fails: an update has deleted its old rule ...
UpdateFails(c) ==
    /\ cmd[c].state = "sent" /\ cmd[c].op = "update"
    /\ host' = host \ cmd[c].minus
    /\ blame' = blame \cup cmd[c].minus
    /\ Answer(c, "error")
    /\ UNCHANGED <<rows, nextRow, active, audit, fw, past, met>>

\* ... and a rollback has reset ufw and put back some of its rules.
RollbackFails(c) ==
    /\ cmd[c].state = "sent" /\ cmd[c].op = "rollback"
    /\ host' \in SUBSET cmd[c].plus
    /\ active' = FALSE
    /\ blame' = Rule
    /\ Answer(c, "error")
    /\ UNCHANGED <<rows, nextRow, audit, fw, past, met>>

-----------------------------------------------------------------------------
(* The end of a request *)

\* logFirewallAudit; the entries of failures are not used for anything.
Audit(c) == audit' = {[Taken(c) EXCEPT !.met = @ \cup met[c]]}

\* The row that was inserted is deleted; the others were not changed.
Compensate(c) ==
    rows' = IF fw[c].op = "create" THEN {w \in rows : w.id # fw[c].row.id} ELSE rows

ChangeFails(c) ==
    /\ fw[c].at = "sent" /\ cmd[c].state = "error"
    /\ Compensate(c)
    /\ Over(c)
    /\ cmd' = [cmd EXCEPT ![c] = NoCommand]
    /\ UNCHANGED <<nextRow, host, active, audit, past, blame>>

\* Thirty seconds pass, or the connection ends: the command is lost, or was applied, or will be.
GivesUp(c) ==
    /\ fw[c].at = "sent" /\ cmd[c].op # "none"
    /\ \/ cmd' = [cmd EXCEPT ![c] = NoCommand]
       \/ cmd[c].state = "sent" /\ UNCHANGED cmd

ChangeTimesOut(c) ==
    /\ GivesUp(c)
    /\ Compensate(c)
    /\ Over(c)
    /\ blame' = blame \cup Keys(fw[c])
    /\ UNCHANGED <<nextRow, host, active, audit, past>>

\* handleExposeApp looks at no error: the row stays, and the audit has a success.
ExposeGoesOn(c) ==
    /\ fw[c].op = "create" /\ cmd[c].state # "ok" /\ GivesUp(c)
    /\ Audit(c)
    /\ past' = Taken(c).was
    /\ blame' = blame \cup Keys(fw[c])
    /\ Over(c)
    /\ UNCHANGED <<rows, nextRow, host, active>>

\* The rows of a snapshot come back under new ids, enabled, in one transaction.
Recreated(old) ==
    LET list == SetToSeq(old) IN
    {GormCreate([list[n] EXCEPT !.id = nextRow + n - 1]) : n \in 1..Len(list)}

RowsAfter(c) ==
    CASE fw[c].op = "create"   -> rows
      [] fw[c].op = "update"   -> {IF w.id = fw[c].row.id
                                   THEN [w EXCEPT !.key = fw[c].key, !.on = fw[c].on]
                                   ELSE w : w \in rows}
      [] fw[c].op = "delete"   -> {w \in rows : w.id # fw[c].row.id}
      [] fw[c].op = "rollback" -> Recreated(Taken(c).rows)

\* What a rollback may get wrong: rows that were disabled, rules the host had and did not list, as
\* ufw was not enabled or the listing failed, and what another request was at when the snapshot
\* was taken.
RollbackBlame(snapshot) ==
    snapshot.met \cup {w.key : w \in {x \in snapshot.rows : ~x.on}}
                 \cup (snapshot.was \ snapshot.host)

Succeeds(c) ==
    /\ fw[c].at = "sent" /\ cmd[c].state = "ok"
    /\ rows' = RowsAfter(c)
    /\ nextRow' = IF fw[c].op = "rollback" THEN nextRow + Cardinality(Taken(c).rows) ELSE nextRow
    /\ Audit(c)
    /\ past' = IF fw[c].op = "rollback" THEN past ELSE Taken(c).was
    /\ blame' = IF fw[c].op = "rollback" THEN blame \cup RollbackBlame(Taken(c)) ELSE blame
    /\ Over(c)
    /\ cmd' = [cmd EXCEPT ![c] = NoCommand]
    /\ UNCHANGED <<host, active>>

\* The backend process ends; the agent goes on with what it has been sent.
FirewallDies ==
    /\ blame' = blame \cup UNION {Keys(fw[c]) : c \in Change}
    /\ fw' = [c \in Change |-> IF Keys(fw[c]) # {} THEN [NotBegun EXCEPT !.at = "over"]
                                                  ELSE fw[c]]
    /\ met' = [c \in Change |-> {}]
    /\ cmd' = [c \in Change |-> IF cmd[c].state = "sent" THEN cmd[c] ELSE NoCommand]
    /\ UNCHANGED <<rows, nextRow, host, active, audit, past>>

FirewallNext ==
    \/ \E c \in Change :
        \/ BeginCreate(c) \/ BeginQuick(c) \/ BeginUpdate(c) \/ BeginDelete(c)
        \/ BeginRollback(c)
        \/ SnapshotHost(c) \/ SnapshotRows(c) \/ SnapshotFails(c)
        \/ InsertAndAdd(c) \/ SendUpdate(c) \/ SendDelete(c) \/ SendRollback(c)
        \/ HostApplies(c) \/ HostKeepsOld(c) \/ HostRefuses(c) \/ UpdateFails(c)
        \/ RollbackFails(c)
        \/ ChangeFails(c) \/ ChangeTimesOut(c) \/ ExposeGoesOn(c) \/ Succeeds(c)
    \/ FirewallDies

FirewallSpec == FirewallInit /\ [][FirewallNext]_fwVars

-----------------------------------------------------------------------------
(* Properties *)

\* When no request is at a key, the panel shows it enabled exactly if the host has it,
\* whatever was done to other keys at the same time. The exceptions are the keys in blame:
\* those of two requests at once, of a request that timed out or was cut short, of an update
\* whose old rule stayed, of an update or a rollback that failed in the middle, of an exposed
\* application whose rule the agent did not confirm, those that two rows have had, because a quick
\* rule doubled one or an address was written in two ways, so that the rule goes with the first row
\* that is deleted, and what RollbackBlame says (network_handlers.go:442-447, 556-574, 772-781,
\* domains_handlers.go:787, firewall_utils.go:125-140).
PanelMatchesHost ==
    \A k \in Rule \ blame :
        (\A c \in Change : k \notin Keys(fw[c])) => ((\E w \in RowsOf(k) : w.on) <=> k \in host)

\* A rollback that succeeds brings back the rules the host had before the newest change that
\* succeeded, and what failed after it is not taken for one, if no key is in blame: where a listing
\* failed, that blame is the rules it lost (network_handlers.go:745-746, firewall.go:210, 245).
RollbackUndoes ==
    [][\A c \in Change :
          fw[c].op = "rollback" /\ cmd[c].state = "ok" /\ fw'[c].at = "over" /\ blame' = {}
             => host' = past]_fwVars

=============================================================================
