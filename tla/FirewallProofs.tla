--------------------------- MODULE FirewallProofs ---------------------------
(***************************************************************************)
(* Proofs about Firewall, for any number of requests, rows and rules.      *)
(***************************************************************************)
EXTENDS Firewall, FiniteSetTheorems, FunctionTheorems, SequenceTheorems, TLAPS

-----------------------------------------------------------------------------
(* Types *)

Gone == [NotBegun EXCEPT !.at = "over"]

\* What the fields of a request have to do with each other, and with its command.
Formed(r, command) ==
    /\ r.at = "idle" => r = NotBegun
    /\ r.at = "over" => r = Gone
    /\ r.at \in {"idle", "checked", "asked", "snapped"} => command = NoCommand
    /\ r.at \in {"checked", "asked", "snapped", "sent"} => r.op # "none"
    /\ r.op = "create" => r.key \in Rule
    /\ r.op = "create" /\ r.at = "sent" => r.row \in Row /\ r.row.key = r.key
    /\ r.op = "create" /\ r.at # "sent" => r.row = NoRow
    /\ r.op \in {"update", "delete"} => r.row \in Row
    /\ r.op = "update" => r.key \in Rule
    /\ r.op = "delete" => r.key = "none"
    /\ r.op = "rollback" => r.at \in {"snapped", "sent"} /\ r.row = NoRow
    /\ r.at \in {"asked", "snapped", "sent"} => \E s \in r.snapshot : r.snapshot = {s}

FwTypeInv ==
    /\ FirewallTypeOK
    /\ nextRow # 0
    /\ \A s, t \in audit : s = t
    /\ IsFiniteSet(rows) /\ \A s \in audit : IsFiniteSet(s.rows)
    /\ \A c \in Change : Formed(fw[c], cmd[c]) /\ \A s \in fw[c].snapshot : IsFiniteSet(s.rows)

\* The values a request and a command can have.
LEMMA FwValues ==
    /\ NotBegun \in Requests /\ Gone \in Requests /\ NoCommand \in Commands
    /\ NotBegun.at = "idle" /\ NotBegun.op = "none" /\ NotBegun.row = NoRow
    /\ NotBegun.key = "none" /\ NotBegun.snapshot = {} /\ NotBegun.on = FALSE
    /\ Gone.at = "over" /\ Gone.op = "none" /\ Gone.row = NoRow
    /\ Gone.key = "none" /\ Gone.snapshot = {} /\ Gone.on = FALSE
    /\ NoRow.id = 0 /\ NoRow.key = "none" /\ NoRow \notin Row
    /\ NoCommand.state = "none" /\ NoCommand.minus = {} /\ NoCommand.plus = {}
    /\ NoCommand.op = "none"
  BY FirewallAssumption DEF NotBegun, Gone, Requests, NoRow, NoCommand, Commands, Row

\* What is known of a request.
LEMMA FwCurrent ==
    ASSUME FwTypeInv, NEW c \in Change
    PROVE  /\ fw[c] \in Requests /\ cmd[c] \in Commands /\ Formed(fw[c], cmd[c])
           /\ fw[c].row \in Row \cup {NoRow} /\ fw[c].key \in Rule \cup {"none"}
           /\ fw[c].on \in BOOLEAN /\ fw[c].snapshot \in SUBSET Snapshot
           /\ fw[c].at \in {"idle", "checked", "asked", "snapped", "sent", "over"}
           /\ fw[c].op \in {"none", "create", "update", "delete", "rollback"}
           /\ cmd[c].minus \in SUBSET Rule /\ cmd[c].plus \in SUBSET Rule
           /\ cmd[c].enable \in BOOLEAN /\ cmd[c].state \in {"none", "sent", "ok", "error"}
<1>1. fw[c] \in Requests /\ cmd[c] \in Commands /\ Formed(fw[c], cmd[c])
  BY DEF FwTypeInv, FirewallTypeOK
<1> QED
  BY <1>1 DEF Requests, Commands

\* The keys of a request of each kind.
LEMMA KeysOf ==
    ASSUME NEW r \in Requests, NEW command, Formed(r, command)
    PROVE  /\ Keys(r) \subseteq Rule
           /\ r.at \in {"idle", "over"} => Keys(r) = {} /\ r.row.id = 0
           /\ r.at \notin {"idle", "over"} =>
                 /\ r.op = "create" => Keys(r) = {r.key}
                 /\ r.op = "update" => Keys(r) = {r.row.key, r.key}
                 /\ r.op = "delete" => Keys(r) = {r.row.key}
                 /\ r.op = "rollback" => Keys(r) = Rule
                 /\ Keys(r) # {} \/ Rule = {}
<1>1. CASE r.at \in {"idle", "over"}
  BY <1>1, FwValues DEF Keys, Formed
<1>2. CASE r.at \notin {"idle", "over"}
  <2>1. r.at \in {"checked", "asked", "snapped", "sent"}
        /\ r.op \in {"create", "update", "delete", "rollback"}
    BY <1>2 DEF Requests, Formed
  <2>2. CASE r.op = "rollback"
    BY <2>1, <2>2 DEF Keys
  <2>3. CASE r.op # "rollback"
    <3>1. Keys(r) = {r.row.key, r.key} \cap Rule
      BY <2>1, <2>3 DEF Keys
    <3>2. r.row \in Row => r.row.key \in Rule
      BY DEF Row
    <3> QED
      BY <2>1, <2>3, <3>1, <3>2, FwValues, FirewallAssumption DEF Formed
  <2> QED
    BY <1>2, <2>2, <2>3
<1> QED
  BY <1>1, <1>2

\* The only snapshot of a request.
LEMMA TakenIs ==
    ASSUME FwTypeInv, NEW c \in Change, fw[c].at \in {"asked", "snapped", "sent"}
    PROVE  /\ Taken(c) \in Snapshot /\ fw[c].snapshot = {Taken(c)}
           /\ Taken(c).host \in SUBSET Rule /\ Taken(c).active \in BOOLEAN
           /\ Taken(c).was \in SUBSET Rule
           /\ Taken(c).rows \in SUBSET Row /\ Taken(c).met \in SUBSET Rule
<1>1. PICK s \in fw[c].snapshot : fw[c].snapshot = {s}
  BY FwCurrent DEF Formed
<1>2. s \in Snapshot
  BY <1>1, FwCurrent
<1>3. Taken(c) = s
  BY <1>1 DEF Taken
<1> QED
  BY <1>1, <1>2, <1>3 DEF Snapshot

LEMMA FwInitType == FirewallInit => FwTypeInv
  BY FwValues, FS_EmptySet DEF FirewallInit, FwTypeInv, FirewallTypeOK, Formed

\* A step of one request.
LEMMA FwStepType ==
    ASSUME FwTypeInv, NEW c \in Change, NEW r \in Requests, NEW a \in Commands,
           Formed(r, a), \A s \in r.snapshot : IsFiniteSet(s.rows),
           IsFiniteSet(rows'), \A s \in audit' : IsFiniteSet(s.rows),
           fw' = [fw EXCEPT ![c] = r], cmd' = [cmd EXCEPT ![c] = a],
           rows' \in SUBSET Row, nextRow' \in Nat, nextRow' # 0,
           host' \in SUBSET Rule, active' \in BOOLEAN,
           audit' \in SUBSET Snapshot, \A s, t \in audit' : s = t,
           past' \in SUBSET Rule, met' \in [Change -> SUBSET Rule], blame' \in SUBSET Rule
    PROVE  FwTypeInv'
  BY DEF FwTypeInv, FirewallTypeOK

\* A request that begins.
LEMMA BeginIs ==
    ASSUME FwTypeInv, NEW c \in Change, NEW op \in {"create", "update", "delete"},
           NEW row \in Row \cup {NoRow}, NEW key \in Rule \cup {"none"}, NEW on \in BOOLEAN,
           op = "create" => row = NoRow /\ key \in Rule,
           op = "update" => row \in Row /\ key \in Rule,
           op = "delete" => row \in Row /\ key = "none"
    PROVE  LET r == Request(op, row, key, on) IN
           /\ r \in Requests /\ Formed(r, NoCommand)
           /\ r.at = "checked" /\ r.op = op /\ r.row = row /\ r.key = key /\ r.on = on
           /\ r.snapshot = {}
<1> DEFINE r == Request(op, row, key, on)
<1>1. /\ r \in Requests /\ r.at = "checked" /\ r.op = op /\ r.row = row /\ r.key = key
      /\ r.on = on /\ r.snapshot = {}
  BY FwValues DEF Request, Requests
<1> HIDE DEF r
<1>2. Formed(r, NoCommand)
  BY <1>1 DEF Formed
<1> QED
  BY <1>1, <1>2 DEF r

\* What a request is when it begins.
Fresh(r) ==
    /\ r \in Requests /\ Formed(r, NoCommand)
    /\ r.op # "none"
    /\ r.op # "rollback" => r.at = "checked" /\ r.snapshot = {}
    /\ r.op = "rollback" => r.at = "snapped" /\ r.snapshot = audit
    /\ r.op \in {"update", "delete"} => r.row \in rows

LEMMA BeginFresh ==
    ASSUME FwTypeInv, NEW c \in Change,
           BeginCreate(c) \/ BeginQuick(c) \/ BeginUpdate(c) \/ BeginDelete(c) \/ BeginRollback(c)
    PROVE  \E r \in Requests : Fresh(r) /\ BeginChange(c, r)
<1>0. rows \in SUBSET Row /\ audit \in SUBSET Snapshot /\ \A s, t \in audit : s = t
  BY DEF FwTypeInv, FirewallTypeOK
<1>1. CASE BeginCreate(c) \/ BeginQuick(c)
  <2>1. PICK k \in Rule, enabled \in BOOLEAN : BeginChange(c, Request("create", NoRow, k, enabled))
    BY <1>1 DEF BeginCreate, BeginQuick
  <2> QED
    BY <2>1, BeginIs DEF Fresh
<1>2. CASE BeginUpdate(c)
  <2>1. PICK w \in rows, k \in Rule, enabled \in BOOLEAN :
            BeginChange(c, Request("update", w, k, enabled))
    BY <1>2 DEF BeginUpdate
  <2> DEFINE new == Request("update", w, k, enabled)
  <2>2. /\ new \in Requests /\ Formed(new, NoCommand) /\ new.at = "checked" /\ new.op = "update"
        /\ new.row = w /\ new.key = k /\ new.snapshot = {}
    BY <1>0, <2>1, BeginIs
  <2>3. BeginChange(c, new)
    BY <2>1
  <2> HIDE DEF new
  <2>4. Fresh(new)
    BY <2>2, <2>3 DEF Fresh
  <2> QED
    BY <2>2, <2>3, <2>4
<1>3. CASE BeginDelete(c)
  <2>1. PICK w \in rows : BeginChange(c, Request("delete", w, "none", FALSE))
    BY <1>3 DEF BeginDelete
  <2> DEFINE new == Request("delete", w, "none", FALSE)
  <2>2. /\ new \in Requests /\ Formed(new, NoCommand) /\ new.at = "checked" /\ new.op = "delete"
        /\ new.row = w /\ new.key = "none" /\ new.snapshot = {}
    <3>1. w \in Row \cup {NoRow} /\ w \in Row /\ "none" \in Rule \cup {"none"}
      BY <1>0
    <3>2. \A on \in BOOLEAN :
              /\ Request("delete", w, "none", on) \in Requests
              /\ Formed(Request("delete", w, "none", on), NoCommand)
              /\ Request("delete", w, "none", on).at = "checked"
              /\ Request("delete", w, "none", on).op = "delete"
              /\ Request("delete", w, "none", on).row = w
              /\ Request("delete", w, "none", on).key = "none"
              /\ Request("delete", w, "none", on).snapshot = {}
      BY <3>1, BeginIs
    <3> QED
      BY <3>2
  <2>3. BeginChange(c, new)
    BY <2>1
  <2> HIDE DEF new
  <2>4. Fresh(new)
    BY <2>2, <2>3 DEF Fresh
  <2> QED
    BY <2>2, <2>3, <2>4
<1>4. CASE BeginRollback(c)
  <2> DEFINE r == [Request("rollback", NoRow, "none", FALSE) EXCEPT !.at = "snapped",
                                                                  !.snapshot = audit]
  <2>1. /\ r \in Requests /\ r.at = "snapped" /\ r.op = "rollback" /\ r.row = NoRow
        /\ r.snapshot = audit
    BY <1>0, FwValues DEF Request, Requests
  <2>2. BeginChange(c, r) /\ audit # {}
    BY <1>4 DEF BeginRollback
  <2>3. \E s \in audit : audit = {s}
    BY <1>0, <2>2
  <2> HIDE DEF r
  <2>4. Fresh(r)
    BY <2>1, <2>3 DEF Fresh, Formed
  <2> QED
    BY <2>1, <2>2, <2>4
<1> QED
  BY <1>1, <1>2, <1>3, <1>4

LEMMA BeginFwType ==
    ASSUME FwTypeInv, NEW c \in Change, NEW r \in Requests, Fresh(r), BeginChange(c, r)
    PROVE  FwTypeInv'
<1>1. fw' = [fw EXCEPT ![c] = r] /\ cmd' = [cmd EXCEPT ![c] = NoCommand]
  BY FwCurrent, FwValues DEF BeginChange, Formed, FwTypeInv, FirewallTypeOK
<1>2. /\ \A s \in r.snapshot : IsFiniteSet(s.rows)
      /\ r.at \in {"checked", "snapped"}
  BY DEF Fresh, FwTypeInv, Requests
<1>4. Formed(r, NoCommand)
  BY DEF Fresh
<1>3. met' \in [Change -> SUBSET Rule] /\ blame' \in SUBSET Rule
  <2>1. Keys(r) \subseteq Rule /\ \A d \in Change : Keys(fw[d]) \subseteq Rule
    BY FwCurrent, KeysOf DEF Fresh
  <2>0. Shared(r) \subseteq Rule
    BY <1>4, FwValues DEF Shared, Formed, Fresh, Requests
  <2>2. Others(c) \subseteq Rule
    BY <2>1 DEF Others
  <2>3. met \in [Change -> SUBSET Rule] /\ blame \in SUBSET Rule
    BY DEF FwTypeInv, FirewallTypeOK
  <2>4. blame' \subseteq Rule
    BY <2>0, <2>1, <2>3 DEF BeginChange
  <2>5. \A d \in Change : met'[d] \in SUBSET Rule
    BY <2>1, <2>2, <2>3 DEF BeginChange
  <2>6. met' = [d \in Change |-> met'[d]]
    BY DEF BeginChange
  <2> QED
    BY <2>4, <2>5, <2>6
<1> QED
  BY <1>1, <1>2, <1>3, <1>4, FwValues, FwStepType DEF BeginChange, FwTypeInv, FirewallTypeOK

\* A request that is elsewhere.
LEMMA MovesTo ==
    ASSUME NEW q \in Requests, NEW at \in {"checked", "asked", "snapped", "sent", "over"}
    PROVE  LET r == [q EXCEPT !.at = at] IN
           /\ r \in Requests /\ r.at = at /\ r.op = q.op /\ r.row = q.row /\ r.key = q.key
           /\ r.on = q.on /\ r.snapshot = q.snapshot
  BY DEF Requests

\* The snapshot is taken in two steps.
LEMMA SnapshotHostIs ==
    ASSUME FwTypeInv, NEW c \in Change, SnapshotHost(c)
    PROVE  \E r \in Requests, s \in Snapshot :
              /\ fw' = [fw EXCEPT ![c] = r]
              /\ r.at = "asked" /\ r.op = fw[c].op /\ r.row = fw[c].row /\ r.key = fw[c].key
              /\ r.on = fw[c].on /\ r.snapshot = {s}
              /\ s.host \in {Listed, {}} /\ s.was = host /\ s.rows = {}
<1>0. PICK enabled \in {active, FALSE}, listed \in {Listed, {}} :
          fw' = [fw EXCEPT ![c].at = "asked",
                           ![c].snapshot = {[host |-> listed, active |-> enabled, rows |-> {},
                                             was |-> host, met |-> {}]}]
  BY DEF SnapshotHost
<1> DEFINE s == [host |-> listed, active |-> enabled, rows |-> {}, was |-> host, met |-> {}]
           r == [fw[c] EXCEPT !.at = "asked", !.snapshot = {s}]
<1>1. /\ s \in Snapshot /\ s.host \in {Listed, {}} /\ s.was = host /\ s.rows = {}
  BY DEF FwTypeInv, FirewallTypeOK, Snapshot, Listed
<1>2. fw' = [fw EXCEPT ![c] = r]
  BY <1>0
<1> HIDE DEF s
<1>3. /\ r \in Requests /\ r.at = "asked" /\ r.op = fw[c].op /\ r.row = fw[c].row
      /\ r.key = fw[c].key /\ r.on = fw[c].on /\ r.snapshot = {s}
  BY <1>1, FwCurrent DEF Requests
<1> QED
  BY <1>1, <1>2, <1>3

LEMMA SnapshotRowsIs ==
    ASSUME FwTypeInv, NEW c \in Change, SnapshotRows(c)
    PROVE  \E r \in Requests, s \in Snapshot :
              /\ fw' = [fw EXCEPT ![c] = r]
              /\ r.at = "snapped" /\ r.op = fw[c].op /\ r.row = fw[c].row /\ r.key = fw[c].key
              /\ r.on = fw[c].on /\ r.snapshot = {s}
              /\ s.host = Taken(c).host /\ s.was = Taken(c).was /\ s.rows = rows
<1>1. Taken(c) \in Snapshot /\ fw[c].snapshot = {Taken(c)}
  BY TakenIs DEF SnapshotRows
<1>2. fw' = [fw EXCEPT ![c] = [fw[c] EXCEPT !.at = "snapped",
                     !.snapshot = {[snapshot EXCEPT !.rows = rows] : snapshot \in fw[c].snapshot}]]
  BY DEF SnapshotRows
<1> DEFINE t == Taken(c)
           s == [t EXCEPT !.rows = rows]
           r == [fw[c] EXCEPT !.at = "snapped", !.snapshot = {s}]
<1>3. /\ s \in Snapshot /\ s.host = t.host /\ s.was = t.was /\ s.rows = rows
  <2> HIDE DEF t
  <2>1. t \in Snapshot /\ rows \in SUBSET Row
    BY <1>1 DEF t, FwTypeInv, FirewallTypeOK
  <2> QED
    BY <2>1 DEF Snapshot
<1>4. {[snapshot EXCEPT !.rows = rows] : snapshot \in fw[c].snapshot} = {s}
  BY <1>1
<1>5. fw' = [fw EXCEPT ![c] = r]
  BY <1>2, <1>4
<1> HIDE DEF s
<1>6. /\ r \in Requests /\ r.at = "snapped" /\ r.op = fw[c].op /\ r.row = fw[c].row
      /\ r.key = fw[c].key /\ r.on = fw[c].on /\ r.snapshot = {s}
  BY <1>3, FwCurrent DEF Requests
<1> QED
  BY <1>3, <1>5, <1>6

LEMMA SnapshotFwType ==
    ASSUME FwTypeInv, NEW c \in Change, SnapshotHost(c) \/ SnapshotRows(c)
    PROVE  FwTypeInv'
<1>0. /\ fw[c].at \in {"checked", "asked"} /\ Formed(fw[c], cmd[c]) /\ cmd[c] = NoCommand
      /\ cmd' = [cmd EXCEPT ![c] = NoCommand] /\ fw[c].op \notin {"none", "rollback"}
  BY FwCurrent DEF SnapshotHost, SnapshotRows, Formed, FwTypeInv, FirewallTypeOK
<1>1. PICK r \in Requests, s \in Snapshot :
          /\ fw' = [fw EXCEPT ![c] = r]
          /\ r.at \in {"asked", "snapped"} /\ r.op = fw[c].op /\ r.row = fw[c].row
          /\ r.key = fw[c].key /\ r.snapshot = {s} /\ s.rows \in {{}, rows}
  <2>1. CASE SnapshotHost(c)
    <3>1. PICK r \in Requests, s \in Snapshot :
              /\ fw' = [fw EXCEPT ![c] = r]
              /\ r.at = "asked" /\ r.op = fw[c].op /\ r.row = fw[c].row /\ r.key = fw[c].key
              /\ r.on = fw[c].on /\ r.snapshot = {s}
              /\ s.host \in {Listed, {}} /\ s.was = host /\ s.rows = {}
      BY <2>1, SnapshotHostIs
    <3>2. r.at \in {"asked", "snapped"} /\ s.rows \in {{}, rows}
      BY <3>1
    <3> QED
      BY <3>1, <3>2, Zenon
  <2>2. CASE SnapshotRows(c)
    <3>1. PICK r \in Requests, s \in Snapshot :
              /\ fw' = [fw EXCEPT ![c] = r]
              /\ r.at = "snapped" /\ r.op = fw[c].op /\ r.row = fw[c].row /\ r.key = fw[c].key
              /\ r.on = fw[c].on /\ r.snapshot = {s}
              /\ s.host = Taken(c).host /\ s.was = Taken(c).was /\ s.rows = rows
      BY <2>2, SnapshotRowsIs
    <3>2. r.at \in {"asked", "snapped"} /\ s.rows \in {{}, rows}
      BY <3>1
    <3> QED
      BY <3>1, <3>2, Zenon
  <2> QED
    BY <2>1, <2>2
<1>2. Formed(r, NoCommand)
  BY <1>0, <1>1 DEF Formed
<1>3. \A t \in r.snapshot : IsFiniteSet(t.rows)
  BY <1>1, FS_EmptySet DEF FwTypeInv
<1> QED
  BY <1>0, <1>1, <1>2, <1>3, FwValues, FwStepType
  DEF SnapshotHost, SnapshotRows, FwTypeInv, FirewallTypeOK

\* A step of one request: the others, and their commands, are as they were.
Goes(c) ==
    /\ fw' \in [Change -> Requests] /\ cmd' \in [Change -> Commands]
    /\ \A d \in Change \ {c} : fw'[d] = fw[d] /\ cmd'[d] = cmd[d]

\* A request that goes on knows what it knew.
GoesOn(c) ==
    /\ Goes(c)
    /\ fw'[c].op = fw[c].op /\ fw'[c].row = fw[c].row /\ fw'[c].key = fw[c].key
    /\ fw'[c].on = fw[c].on /\ fw'[c].snapshot = fw[c].snapshot

LEMMA GoesType ==
    ASSUME FwTypeInv, NEW c \in Change, Goes(c), Formed(fw'[c], cmd'[c]),
           \A s \in fw'[c].snapshot : IsFiniteSet(s.rows),
           IsFiniteSet(rows'), \A s \in audit' : IsFiniteSet(s.rows),
           rows' \in SUBSET Row, nextRow' \in Nat, nextRow' # 0,
           host' \in SUBSET Rule, active' \in BOOLEAN,
           audit' \in SUBSET Snapshot, \A s, t \in audit' : s = t,
           past' \in SUBSET Rule, met' \in [Change -> SUBSET Rule], blame' \in SUBSET Rule
    PROVE  FwTypeInv'
  BY DEF FwTypeInv, FirewallTypeOK, Goes

\* The commands to the agent, and its answers.
LEMMA SendIs ==
    ASSUME FwTypeInv, NEW c \in Change, fw[c].at = "snapped",
           NEW op \in {"add", "delete", "update", "rollback"},
           NEW minus \in SUBSET Rule, NEW plus \in SUBSET Rule, Send(c, op, minus, plus)
    PROVE  /\ cmd' \in [Change -> Commands] /\ \A d \in Change \ {c} : cmd'[d] = cmd[d]
           /\ cmd'[c].state = "sent" /\ cmd'[c].minus = minus /\ cmd'[c].plus = plus
<1> DEFINE a == [state |-> "sent", op |-> op, minus |-> minus, plus |-> plus,
                 enable |-> op = "rollback" /\ Taken(c).active]
<1>1. a \in Commands
  BY DEF Commands
<1>2. cmd' = [cmd EXCEPT ![c] = a] /\ cmd \in [Change -> Commands]
  BY DEF Send, FwTypeInv, FirewallTypeOK
<1>3. a.state = "sent" /\ a.minus = minus /\ a.plus = plus
  OBVIOUS
<1> HIDE DEF a
<1> QED
  BY <1>1, <1>2, <1>3

LEMMA SendNothingIs ==
    ASSUME FwTypeInv, NEW c \in Change, fw[c].at = "snapped", SendNothing(c)
    PROVE  /\ cmd' \in [Change -> Commands] /\ \A d \in Change \ {c} : cmd'[d] = cmd[d]
           /\ cmd'[c].state = "ok" /\ cmd'[c].minus = {} /\ cmd'[c].plus = {}
<1> DEFINE a == [NoCommand EXCEPT !.state = "ok"]
<1>1. a \in Commands /\ a.state = "ok" /\ a.minus = {} /\ a.plus = {}
  BY FwValues DEF Commands, NoCommand
<1>2. cmd' = [cmd EXCEPT ![c] = a] /\ cmd \in [Change -> Commands]
  BY FwCurrent DEF SendNothing, Formed, FwTypeInv, FirewallTypeOK
<1> HIDE DEF a
<1> QED
  BY <1>1, <1>2

LEMMA AnswerIs ==
    ASSUME FwTypeInv, NEW c \in Change, NEW state \in {"ok", "error"}, Answer(c, state)
    PROVE  /\ cmd' \in [Change -> Commands] /\ \A d \in Change \ {c} : cmd'[d] = cmd[d]
           /\ fw[c].at = "sent" => cmd'[c].state = state
           /\ fw[c].at # "sent" => cmd'[c] = NoCommand
<1> DEFINE a == IF fw[c].at = "sent" THEN [cmd[c] EXCEPT !.state = state] ELSE NoCommand
<1>1. a \in Commands
  BY FwCurrent, FwValues DEF Commands
<1>2. cmd' = [cmd EXCEPT ![c] = a] /\ cmd \in [Change -> Commands]
  BY DEF Answer, FwTypeInv, FirewallTypeOK
<1>3. fw[c].at = "sent" => a.state = state
  BY FwCurrent DEF Commands
<1> QED
  BY <1>1, <1>2, <1>3

\* The end of a request.
LEMMA OverIs ==
    ASSUME FwTypeInv, NEW c \in Change, Over(c)
    PROVE  /\ fw' \in [Change -> Requests] /\ fw'[c] = Gone
           /\ \A d \in Change \ {c} : fw'[d] = fw[d] /\ met'[d] = met[d]
           /\ met' \in [Change -> SUBSET Rule]
  BY FwValues DEF Over, Gone, FwTypeInv, FirewallTypeOK

\* A row is its three fields, and a row that is inserted is enabled.
LEMMA SameRow ==
    ASSUME NEW v \in Row, NEW w \in Row, v.id = w.id, v.key = w.key, v.on = w.on
    PROVE  v = w
  BY DEF Row

LEMMA GormIs ==
    ASSUME NEW w \in Row
    PROVE  /\ GormCreate(w) \in Row /\ GormCreate(w).id = w.id
           /\ GormCreate(w).key = w.key /\ GormCreate(w).on = TRUE
<1>1. \A b \in BOOLEAN : [w EXCEPT !.on = b] \in Row /\ [w EXCEPT !.on = b].on = b
  BY DEF Row
<1>2. GormCreate(w) \in Row /\ GormCreate(w).on = TRUE
  BY <1>1 DEF GormCreate
<1>3. GormCreate(w).id = w.id /\ GormCreate(w).key = w.key
  BY DEF GormCreate, Row
<1> QED
  BY <1>2, <1>3

\* A new rule.
LEMMA InsertIs ==
    ASSUME FwTypeInv, NEW c \in Change, InsertAndAdd(c)
    PROVE  LET new == [id |-> nextRow, key |-> fw[c].key, on |-> TRUE] IN
           /\ Goes(c) /\ fw[c].at = "snapped" /\ fw[c].op = "create" /\ fw[c].key \in Rule
           /\ new \in Row /\ new.id = nextRow /\ new.key = fw[c].key /\ new.on = TRUE
           /\ fw'[c].at = "sent" /\ fw'[c].op = "create" /\ fw'[c].row = new
           /\ fw'[c].key = fw[c].key /\ fw'[c].snapshot = fw[c].snapshot
           /\ cmd'[c].state = "sent" /\ cmd'[c].minus = {} /\ cmd'[c].plus = {fw[c].key}
           /\ rows' = rows \cup {new} /\ nextRow' = nextRow + 1
           /\ blame \subseteq blame' /\ blame' \subseteq blame \cup {fw[c].key}
           /\ RowsOf(fw[c].key) # {} => fw[c].key \in blame'
           /\ UNCHANGED <<host, active, audit, past, met>>
<1> DEFINE new == [id |-> nextRow, key |-> fw[c].key, on |-> TRUE]
           old == [id |-> nextRow, key |-> fw[c].key, on |-> fw[c].on]
           r   == [fw[c] EXCEPT !.at = "sent", !.row = new, !.on = TRUE]
<1>1. /\ fw[c].at = "snapped" /\ fw[c].op = "create" /\ fw[c].key \in Rule /\ fw[c] \in Requests
      /\ nextRow \in Nat /\ fw \in [Change -> Requests]
  BY FwCurrent DEF InsertAndAdd, Formed, FwTypeInv, FirewallTypeOK
<1>3. new \in Row /\ new.id = nextRow /\ new.key = fw[c].key /\ new.on = TRUE
  BY <1>1 DEF Row
<1>2. GormCreate(old) = new
  <2>1. old \in Row /\ old.id = nextRow /\ old.key = fw[c].key
    BY <1>1, FwCurrent DEF Row
  <2> HIDE DEF new, old
  <2> QED
    BY <1>3, <2>1, GormIs, SameRow
<1>4. /\ fw' = [fw EXCEPT ![c] = r] /\ rows' = rows \cup {new} /\ nextRow' = nextRow + 1
      /\ blame' = IF RowsOf(new.key) # {} THEN blame \cup {new.key} ELSE blame
      /\ Send(c, "add", {}, {new.key})
      /\ UNCHANGED <<host, active, audit, past, met>>
  BY <1>1, <1>2, <1>3 DEF InsertAndAdd
<1> HIDE DEF new, old
<1>5. /\ r \in Requests /\ r.at = "sent" /\ r.op = "create" /\ r.row = new /\ r.key = fw[c].key
      /\ r.snapshot = fw[c].snapshot
  BY <1>1, <1>3 DEF Requests
<1> HIDE DEF r
<1>6. /\ cmd' \in [Change -> Commands] /\ \A d \in Change \ {c} : cmd'[d] = cmd[d]
      /\ cmd'[c].state = "sent" /\ cmd'[c].minus = {} /\ cmd'[c].plus = {fw[c].key}
  <2>1. {} \in SUBSET Rule /\ {new.key} \in SUBSET Rule
    BY <1>1, <1>3
  <2> QED
    BY <1>1, <1>3, <1>4, <2>1, SendIs
<1>7. fw'[c] = r /\ fw' \in [Change -> Requests] /\ \A d \in Change \ {c} : fw'[d] = fw[d]
  BY <1>1, <1>4, <1>5
<1> QED
  BY <1>1, <1>3, <1>4, <1>5, <1>6, <1>7 DEF Goes, new

\* The other commands, by what the request wants and the row it has read.
CommandOf(q, taken, a) ==
    /\ a.state \in {"sent", "ok"} /\ a.minus \in SUBSET Rule /\ a.plus \in SUBSET Rule
    /\ a.state = "ok" <=> (q.op = "update" /\ ~q.row.on /\ ~q.on) \/ (q.op = "delete" /\ ~q.row.on)
    /\ q.op = "update" /\ a.state = "sent" =>
          /\ a.minus = IF q.row.on THEN {q.row.key} ELSE {}
          /\ a.plus = IF q.on THEN {q.key} ELSE {}
    /\ q.op = "delete" /\ a.state = "sent" => a.minus = {q.row.key} /\ a.plus = {}
    /\ q.op = "rollback" => a.minus = Rule /\ a.plus = taken.host

LEMMA CommandIs ==
    ASSUME FwTypeInv, NEW c \in Change, SendUpdate(c) \/ SendDelete(c) \/ SendRollback(c)
    PROVE  /\ GoesOn(c) /\ fw[c].at = "snapped" /\ fw'[c].at = "sent"
           /\ fw[c].op \in {"update", "delete", "rollback"}
           /\ CommandOf(fw[c], Taken(c), cmd'[c])
           /\ UNCHANGED <<rows, nextRow, host, active, audit, past, met, blame>>
<1>1. /\ fw[c] \in Requests /\ fw[c].at = "snapped" /\ fw[c].op \in {"update", "delete", "rollback"}
      /\ fw[c].op # "rollback" => fw[c].row \in Row
      /\ fw[c].op = "update" => fw[c].key \in Rule
      /\ fw' = [fw EXCEPT ![c] = [fw[c] EXCEPT !.at = "sent"]]
      /\ UNCHANGED <<rows, nextRow, host, active, audit, past, met, blame>>
      /\ fw \in [Change -> Requests]
  BY FwCurrent DEF SendUpdate, SendDelete, SendRollback, Formed, FwTypeInv, FirewallTypeOK
<1>2. fw' \in [Change -> Requests] /\ \A d \in Change \ {c} : fw'[d] = fw[d]
  BY <1>1, MovesTo
<1>3. /\ fw'[c].at = "sent" /\ fw'[c].op = fw[c].op /\ fw'[c].row = fw[c].row
      /\ fw'[c].key = fw[c].key /\ fw'[c].on = fw[c].on /\ fw'[c].snapshot = fw[c].snapshot
  BY <1>1, MovesTo
<1>4. fw[c].op # "rollback" =>
          fw[c].row.on \in BOOLEAN /\ fw[c].on \in BOOLEAN /\ fw[c].row.key \in Rule
  BY <1>1, FwCurrent DEF Row
<1> DEFINE Alike == cmd' \in [Change -> Commands] /\ \A d \in Change \ {c} : cmd'[d] = cmd[d]
<1>5. ASSUME SendUpdate(c) PROVE CommandOf(fw[c], Taken(c), cmd'[c]) /\ Alike
  <2>0. fw[c].op = "update"
    BY <1>1, <1>5 DEF SendUpdate
  <2>5. /\ fw[c].at = "snapped" /\ {} \in SUBSET Rule
        /\ {fw[c].row.key} \in SUBSET Rule /\ {fw[c].key} \in SUBSET Rule
    BY <1>1, <1>4, <2>0
  <2> DEFINE m == {fw[c].row.key}
             p == {fw[c].key}
  <2> HIDE DEF m, p
  <2>9. /\ fw[c].at = "snapped"
        /\ m \in SUBSET Rule /\ p \in SUBSET Rule /\ {} \in SUBSET Rule
    BY <2>5 DEF m, p
  <2>6. ASSUME Send(c, "update", m, p)
        PROVE  Alike /\ cmd'[c].state = "sent" /\ cmd'[c].minus = m /\ cmd'[c].plus = p
    BY <2>9, <2>6, SendIs
  <2>7. ASSUME Send(c, "delete", m, {})
        PROVE  Alike /\ cmd'[c].state = "sent" /\ cmd'[c].minus = m /\ cmd'[c].plus = {}
    BY <2>9, <2>7, SendIs
  <2>8. ASSUME Send(c, "add", {}, p)
        PROVE  Alike /\ cmd'[c].state = "sent" /\ cmd'[c].minus = {} /\ cmd'[c].plus = p
    <3> DEFINE none == {}
    <3>1. Send(c, "add", none, p) /\ none \in SUBSET Rule
      BY <2>8
    <3> HIDE DEF none
    <3>2. Alike /\ cmd'[c].state = "sent" /\ cmd'[c].minus = none /\ cmd'[c].plus = p
      BY <2>9, <3>1, SendIs
    <3> QED
      BY <3>2 DEF none
  <2>1. ASSUME fw[c].row.on, fw[c].on PROVE CommandOf(fw[c], Taken(c), cmd'[c]) /\ Alike
    <3>1. Send(c, "update", {fw[c].row.key}, {fw[c].key})
      BY <1>5, <2>1 DEF SendUpdate
    <3>2. Alike /\ cmd'[c].state = "sent" /\ cmd'[c].minus = {fw[c].row.key} /\ cmd'[c].plus = {fw[c].key}
      BY <2>6, <2>7, <2>8, <3>1 DEF m, p
    <3> QED
      BY <2>0, <2>5, <2>1, <3>2 DEF CommandOf
  <2>2. ASSUME fw[c].row.on, ~fw[c].on PROVE CommandOf(fw[c], Taken(c), cmd'[c]) /\ Alike
    <3>1. Send(c, "delete", {fw[c].row.key}, {})
      BY <1>5, <2>2 DEF SendUpdate
    <3>2. Alike /\ cmd'[c].state = "sent" /\ cmd'[c].minus = {fw[c].row.key} /\ cmd'[c].plus = {}
      BY <2>6, <2>7, <2>8, <3>1 DEF m, p
    <3> QED
      BY <2>0, <2>5, <2>2, <3>2 DEF CommandOf
  <2>3. ASSUME ~fw[c].row.on, fw[c].on PROVE CommandOf(fw[c], Taken(c), cmd'[c]) /\ Alike
    <3>1. Send(c, "add", {}, {fw[c].key})
      BY <1>5, <2>3 DEF SendUpdate
    <3>2. Alike /\ cmd'[c].state = "sent" /\ cmd'[c].minus = {} /\ cmd'[c].plus = {fw[c].key}
      BY <2>6, <2>7, <2>8, <3>1 DEF m, p
    <3> QED
      BY <2>0, <2>5, <2>3, <3>2 DEF CommandOf
  <2>4. ASSUME ~fw[c].row.on, ~fw[c].on PROVE CommandOf(fw[c], Taken(c), cmd'[c]) /\ Alike
    <3>1. SendNothing(c)
      BY <1>5, <2>4 DEF SendUpdate
    <3>2. Alike /\ cmd'[c].state = "ok" /\ cmd'[c].minus = {} /\ cmd'[c].plus = {}
      BY <2>5, <3>1, SendNothingIs
    <3> QED
      BY <2>0, <2>5, <2>4, <3>2 DEF CommandOf
  <2> QED
    BY <2>1, <2>2, <2>3, <2>4
<1>6. ASSUME SendDelete(c) PROVE CommandOf(fw[c], Taken(c), cmd'[c]) /\ Alike
  <2>0. fw[c].op = "delete"
    BY <1>1, <1>6 DEF SendDelete
  <2>5. /\ fw[c].at = "snapped" /\ {} \in SUBSET Rule
        /\ {fw[c].row.key} \in SUBSET Rule
    BY <1>1, <1>4, <2>0
  <2>1. ASSUME fw[c].row.on PROVE CommandOf(fw[c], Taken(c), cmd'[c]) /\ Alike
    <3>1. Send(c, "delete", {fw[c].row.key}, {})
      BY <1>6, <2>1 DEF SendDelete
    <3>2. Alike /\ cmd'[c].state = "sent" /\ cmd'[c].minus = {fw[c].row.key} /\ cmd'[c].plus = {}
      BY <2>5, <3>1, SendIs
    <3> QED
      BY <2>0, <2>5, <2>1, <3>2 DEF CommandOf
  <2>2. ASSUME ~fw[c].row.on PROVE CommandOf(fw[c], Taken(c), cmd'[c]) /\ Alike
    <3>1. SendNothing(c)
      BY <1>6, <2>2 DEF SendDelete
    <3>2. Alike /\ cmd'[c].state = "ok" /\ cmd'[c].minus = {} /\ cmd'[c].plus = {}
      BY <2>5, <3>1, SendNothingIs
    <3> QED
      BY <2>0, <2>5, <2>2, <3>2 DEF CommandOf
  <2> QED
    BY <2>1, <2>2
<1>7. ASSUME SendRollback(c) PROVE CommandOf(fw[c], Taken(c), cmd'[c]) /\ Alike
  <2>0. fw[c].op = "rollback" /\ Send(c, "rollback", Rule, Taken(c).host)
    BY <1>7 DEF SendRollback
  <2>1. Rule \in SUBSET Rule /\ Taken(c).host \in SUBSET Rule
    BY <1>1, TakenIs
  <2>2. Alike /\ cmd'[c].state = "sent" /\ cmd'[c].minus = Rule /\ cmd'[c].plus = Taken(c).host
    BY <1>1, <2>0, <2>1, SendIs
  <2> QED
    BY <2>0, <2>1, <2>2 DEF CommandOf
<1>8. CommandOf(fw[c], Taken(c), cmd'[c]) /\ Alike
  BY <1>5, <1>6, <1>7
<1>9. GoesOn(c)
  BY <1>2, <1>3, <1>8 DEF GoesOn, Goes
<1> QED
  BY <1>1, <1>3, <1>8, <1>9

\* The agent: a request gets its answer, and what it knows is as it was.
LEMMA AgentIs ==
    ASSUME FwTypeInv, NEW c \in Change,
           HostApplies(c) \/ HostKeepsOld(c) \/ HostRefuses(c) \/ UpdateFails(c) \/ RollbackFails(c)
    PROVE  /\ fw' = fw /\ Goes(c) /\ cmd[c].state = "sent"
           /\ fw[c].at \in {"sent", "over"}
           /\ fw[c].at = "sent" => cmd'[c].state \in {"ok", "error"}
           /\ fw[c].at = "over" => cmd'[c] = NoCommand
           /\ host' \in SUBSET Rule /\ active' \in BOOLEAN
           /\ blame \subseteq blame' /\ blame' \in SUBSET Rule
           /\ UNCHANGED <<rows, nextRow, audit, past, met>>
<1>1. /\ fw' = fw /\ cmd[c].state = "sent" /\ UNCHANGED <<rows, nextRow, audit, past, met>>
      /\ Answer(c, "ok") \/ Answer(c, "error")
      /\ fw \in [Change -> Requests]
  BY DEF HostApplies, HostKeepsOld, HostRefuses, UpdateFails, RollbackFails, FwTypeInv,
         FirewallTypeOK
<1>2. cmd' \in [Change -> Commands] /\ \A d \in Change \ {c} : cmd'[d] = cmd[d]
  BY <1>1, AnswerIs
<1>3. /\ fw[c].at = "sent" => cmd'[c].state \in {"ok", "error"}
      /\ fw[c].at # "sent" => cmd'[c] = NoCommand
  BY <1>1, AnswerIs
<1>4. fw[c].at \in {"sent", "over"}
  BY <1>1, FwCurrent, FwValues DEF Formed
<1>5. /\ cmd[c].minus \in SUBSET Rule /\ cmd[c].plus \in SUBSET Rule /\ cmd[c].enable \in BOOLEAN
      /\ host \in SUBSET Rule /\ active \in BOOLEAN /\ blame \in SUBSET Rule
  BY FwCurrent DEF FwTypeInv, FirewallTypeOK
<1>6. host' \in SUBSET Rule /\ active' \in BOOLEAN
  BY <1>5 DEF HostApplies, HostKeepsOld, HostRefuses, UpdateFails, RollbackFails
<1>7. blame \subseteq blame' /\ blame' \in SUBSET Rule
  BY <1>5 DEF HostApplies, HostKeepsOld, HostRefuses, UpdateFails, RollbackFails
<1> QED
  BY <1>1, <1>2, <1>3, <1>4, <1>6, <1>7 DEF Goes

\* The ways a request ends.
LEMMA FailIs ==
    ASSUME FwTypeInv, NEW c \in Change, SnapshotFails(c) \/ ChangeFails(c)
    PROVE  /\ Goes(c) /\ fw'[c] = Gone /\ cmd'[c] = NoCommand
           /\ met' \in [Change -> SUBSET Rule] /\ \A d \in Change \ {c} : met'[d] = met[d]
           /\ UNCHANGED <<nextRow, host, active, audit, past, blame>>
<1>1. cmd' = [cmd EXCEPT ![c] = NoCommand] /\ cmd \in [Change -> Commands]
  BY FwCurrent DEF SnapshotFails, ChangeFails, Formed, FwTypeInv, FirewallTypeOK
<1>2. Over(c) /\ UNCHANGED <<nextRow, host, active, audit, past, blame>>
  BY DEF SnapshotFails, ChangeFails
<1> QED
  BY <1>1, <1>2, OverIs, FwValues DEF Goes

LEMMA GivesUpIs ==
    ASSUME FwTypeInv, NEW c \in Change, ChangeTimesOut(c) \/ ExposeGoesOn(c)
    PROVE  /\ Goes(c) /\ fw[c].at = "sent" /\ fw'[c] = Gone
           /\ cmd'[c] = NoCommand \/ (cmd'[c] = cmd[c] /\ cmd[c].state = "sent")
           /\ met' \in [Change -> SUBSET Rule] /\ \A d \in Change \ {c} : met'[d] = met[d]
           /\ blame' = blame \cup Keys(fw[c])
           /\ UNCHANGED <<nextRow, host, active>>
<1>1. /\ Over(c) /\ GivesUp(c) /\ blame' = blame \cup Keys(fw[c])
      /\ UNCHANGED <<nextRow, host, active>> /\ fw[c].at = "sent"
  BY DEF ChangeTimesOut, ExposeGoesOn, GivesUp
<1>2. /\ cmd' \in [Change -> Commands] /\ \A d \in Change \ {c} : cmd'[d] = cmd[d]
      /\ cmd'[c] = NoCommand \/ (cmd'[c] = cmd[c] /\ cmd[c].state = "sent")
  BY <1>1, FwValues DEF GivesUp, FwTypeInv, FirewallTypeOK
<1> QED
  BY <1>1, <1>2, OverIs DEF Goes

LEMMA SuccessIs ==
    ASSUME FwTypeInv, NEW c \in Change, Succeeds(c)
    PROVE  /\ Goes(c) /\ fw[c].at = "sent" /\ cmd[c].state = "ok"
           /\ fw[c].op \in {"create", "update", "delete", "rollback"}
           /\ fw'[c] = Gone /\ cmd'[c] = NoCommand
           /\ met' \in [Change -> SUBSET Rule] /\ \A d \in Change \ {c} : met'[d] = met[d]
           /\ UNCHANGED <<host, active>>
<1>1. /\ cmd' = [cmd EXCEPT ![c] = NoCommand] /\ cmd \in [Change -> Commands] /\ Over(c)
      /\ fw[c].at = "sent" /\ cmd[c].state = "ok" /\ UNCHANGED <<host, active>>
  BY DEF Succeeds, FwTypeInv, FirewallTypeOK
<1>2. fw[c].op \in {"create", "update", "delete", "rollback"}
  BY <1>1, FwCurrent DEF Formed
<1> QED
  BY <1>1, <1>2, OverIs, FwValues DEF Goes

\* The new audit entry.
LEMMA AuditIs ==
    ASSUME FwTypeInv, NEW c \in Change, fw[c].at = "sent", Audit(c)
    PROVE  \E s \in Snapshot :
              /\ audit' = {s} /\ s.host = Taken(c).host /\ s.was = Taken(c).was
              /\ s.rows = Taken(c).rows /\ s.met = Taken(c).met \cup met[c]
              /\ IsFiniteSet(s.rows)
<1> DEFINE t == Taken(c)
           s == [t EXCEPT !.met = t.met \cup met[c]]
<1>1. t \in Snapshot /\ t \in fw[c].snapshot /\ met[c] \in SUBSET Rule
  BY TakenIs DEF FwTypeInv, FirewallTypeOK
<1>2. IsFiniteSet(t.rows)
  BY <1>1 DEF FwTypeInv
<1>3. audit' = {s}
  BY DEF Audit
<1> HIDE DEF t
<1>4. /\ s \in Snapshot /\ s.host = t.host /\ s.was = t.was /\ s.rows = t.rows
      /\ s.met = t.met \cup met[c]
  BY <1>1 DEF Snapshot
<1> QED
  BY <1>2, <1>3, <1>4 DEF t

\* The sequence a set is turned into.
LEMMA ListOf ==
    ASSUME NEW S, IsFiniteSet(S)
    PROVE  LET list == SetToSeq(S) IN
           /\ Cardinality(S) \in Nat /\ list \in [1..Cardinality(S) -> S]
           /\ Len(list) = Cardinality(S)
           /\ \A x \in S : \E n \in 1..Cardinality(S) : list[n] = x
           /\ \A m, n \in 1..Cardinality(S) : list[m] = list[n] => m = n
<1> DEFINE N == Cardinality(S)
           list == SetToSeq(S)
<1>1. N \in Nat /\ ExistsBijection(1..N, S)
  BY FS_CardinalityType
<1>2. \E f \in [1..N -> S] : IsInjective(f)
  BY <1>1 DEF ExistsBijection, Bijection, Injection
<1>3. list \in [1..N -> S] /\ IsInjective(list)
  BY <1>2 DEF SetToSeq
<1> HIDE DEF list
<1>4. list \in Surjection(1..N, S)
  <2>1. list \in Injection(1..N, S)
    BY <1>3 DEF Injection
  <2>2. Cardinality(1..N) = N
    BY <1>1, FS_Interval
  <2> QED
    BY <2>1, <2>2, FS_Injection
<1>5. list \in Seq(S) /\ Len(list) = N
  BY <1>1, <1>3
<1>6. \A x \in S : \E n \in 1..N : list[n] = x
  BY <1>4 DEF Surjection
<1>7. \A m, n \in 1..N : list[m] = list[n] => m = n
  BY <1>3 DEF IsInjective
<1> QED
  BY <1>1, <1>3, <1>5, <1>6, <1>7 DEF list

\* The rows a rollback puts back have the keys of the snapshot's rows, one for each, and ids
\* nothing has had.
LEMMA RecreatedIs ==
    ASSUME nextRow \in Nat, NEW old \in SUBSET Row, IsFiniteSet(old)
    PROVE  /\ Cardinality(old) \in Nat
           /\ Recreated(old) \in SUBSET Row /\ IsFiniteSet(Recreated(old))
           /\ \A w \in Recreated(old) :
                 /\ w.on = TRUE /\ w.id >= nextRow /\ w.id < nextRow + Cardinality(old)
                 /\ \E x \in old : x.key = w.key
           /\ \A x \in old : \E w \in Recreated(old) : w.key = x.key
           /\ \A v, w \in Recreated(old) : v.id = w.id => v = w
           /\ \A v, w \in Recreated(old) :
                 v # w => \E x, y \in old : x # y /\ x.key = v.key /\ y.key = w.key
<1> DEFINE list == SetToSeq(old)
           N    == Cardinality(old)
           row(n) == GormCreate([list[n] EXCEPT !.id = nextRow + n - 1])
<1>1. /\ N \in Nat /\ list \in [1..N -> old] /\ Len(list) = N
      /\ \A x \in old : \E n \in 1..N : list[n] = x
      /\ \A m, n \in 1..N : list[m] = list[n] => m = n
  BY ListOf
<1>2. Recreated(old) = {row(n) : n \in 1..N}
  BY <1>1 DEF Recreated
<1> HIDE DEF list, N
<1>3. \A n \in 1..N : /\ row(n) \in Row /\ row(n).id = nextRow + n - 1
                      /\ row(n).key = list[n].key /\ row(n).on = TRUE
  <2> SUFFICES ASSUME NEW n \in 1..N
               PROVE  /\ row(n) \in Row /\ row(n).id = nextRow + n - 1
                      /\ row(n).key = list[n].key /\ row(n).on = TRUE
    OBVIOUS
  <2> DEFINE x == list[n]
             id == nextRow + n - 1
             y == [x EXCEPT !.id = id]
  <2>1. x \in Row /\ id \in Nat
    BY <1>1
  <2> HIDE DEF x, id
  <2>2. y \in Row /\ y.id = id /\ y.key = x.key
    BY <2>1 DEF Row
  <2> HIDE DEF y
  <2>3. GormCreate(y) \in Row /\ GormCreate(y).id = id /\ GormCreate(y).key = x.key
        /\ GormCreate(y).on = TRUE
    BY <2>2, GormIs
  <2> QED
    BY <2>3 DEF x, y, id
<1> HIDE DEF row
<1>4. IsFiniteSet(Recreated(old))
  <2> DEFINE f == [n \in 1..N |-> row(n)]
  <2>1. f \in Surjection(1..N, Recreated(old))
    BY <1>2 DEF Surjection
  <2>2. IsFiniteSet(1..N)
    BY <1>1, FS_Interval
  <2> HIDE DEF f
  <2> QED
    BY <2>1, <2>2, FS_Surjection
<1>5. \A w \in Recreated(old) :
         /\ w.on = TRUE /\ w.id >= nextRow /\ w.id < nextRow + N
         /\ \E x \in old : x.key = w.key
  <2> SUFFICES ASSUME NEW n \in 1..N
               PROVE  /\ row(n).on = TRUE /\ row(n).id >= nextRow /\ row(n).id < nextRow + N
                      /\ \E x \in old : x.key = row(n).key
    BY <1>2
  <2>1. list[n] \in old
    BY <1>1
  <2> QED
    BY <1>1, <1>3, <2>1
<1>6. \A x \in old : \E w \in Recreated(old) : w.key = x.key
  <2> SUFFICES ASSUME NEW x \in old PROVE \E w \in Recreated(old) : w.key = x.key
    OBVIOUS
  <2>1. PICK n \in 1..N : list[n] = x
    BY <1>1
  <2>2. row(n) \in Recreated(old) /\ row(n).key = x.key
    BY <1>2, <1>3, <2>1
  <2> QED
    BY <2>2
<1>7. \A v, w \in Recreated(old) :
         /\ v.id = w.id => v = w
         /\ v # w => \E x, y \in old : x # y /\ x.key = v.key /\ y.key = w.key
  <2> SUFFICES ASSUME NEW m \in 1..N, NEW n \in 1..N
               PROVE  /\ row(m).id = row(n).id => row(m) = row(n)
                      /\ row(m) # row(n) =>
                            \E x, y \in old : x # y /\ x.key = row(m).key /\ y.key = row(n).key
    BY <1>2
  <2>1. row(m).id = row(n).id => m = n
    BY <1>1, <1>3
  <2>2. m # n => list[m] # list[n] /\ list[m] \in old /\ list[n] \in old
    BY <1>1
  <2>3. row(m).key = list[m].key /\ row(n).key = list[n].key
    BY <1>3
  <2> QED
    BY <2>1, <2>2, <2>3
<1>8. Recreated(old) \in SUBSET Row
  BY <1>2, <1>3
<1> QED
  BY <1>1, <1>4, <1>5, <1>6, <1>7, <1>8 DEF N

\* The rows after an update.
RowUpdated(c, w) ==
    IF w.id = fw[c].row.id THEN [w EXCEPT !.key = fw[c].key, !.on = fw[c].on] ELSE w

LEMMA UpdatedIs ==
    ASSUME FwTypeInv, NEW c \in Change, fw[c].op = "update", NEW w \in rows
    PROVE  /\ RowUpdated(c, w) \in Row /\ RowUpdated(c, w).id = w.id
           /\ w.id = fw[c].row.id => RowUpdated(c, w).key = fw[c].key /\ RowUpdated(c, w).on = fw[c].on
           /\ w.id # fw[c].row.id => RowUpdated(c, w) = w
<1>1. w \in Row /\ fw[c].key \in Rule /\ fw[c].on \in BOOLEAN
  BY FwCurrent DEF Formed, FwTypeInv, FirewallTypeOK
<1> QED
  BY <1>1 DEF RowUpdated, Row

LEMMA SuccessRows ==
    ASSUME FwTypeInv, NEW c \in Change, Succeeds(c)
    PROVE  /\ rows' \in SUBSET Row /\ IsFiniteSet(rows')
           /\ nextRow' \in Nat /\ nextRow' >= nextRow
           /\ fw[c].op = "create" => rows' = rows /\ nextRow' = nextRow
           /\ fw[c].op = "update" =>
                 rows' = {RowUpdated(c, w) : w \in rows} /\ nextRow' = nextRow
           /\ fw[c].op = "delete" =>
                 rows' = {w \in rows : w.id # fw[c].row.id} /\ nextRow' = nextRow
           /\ fw[c].op = "rollback" =>
                 /\ rows' = Recreated(Taken(c).rows)
                 /\ nextRow' = nextRow + Cardinality(Taken(c).rows)
<1>1. /\ fw[c].op \in {"create", "update", "delete", "rollback"} /\ fw[c].at = "sent"
      /\ rows' = RowsAfter(c) /\ nextRow \in Nat /\ rows \in SUBSET Row /\ IsFiniteSet(rows)
      /\ nextRow' = IF fw[c].op = "rollback" THEN nextRow + Cardinality(Taken(c).rows)
                                             ELSE nextRow
  BY SuccessIs DEF Succeeds, FwTypeInv, FirewallTypeOK
<1>2. CASE fw[c].op = "create"
  BY <1>1, <1>2 DEF RowsAfter
<1>3. CASE fw[c].op = "update"
  <2>1. rows' = {RowUpdated(c, w) : w \in rows}
    BY <1>1, <1>3 DEF RowsAfter, RowUpdated
  <2>2. rows' \in SUBSET Row
    BY <1>3, <2>1, UpdatedIs
  <2> DEFINE f == [w \in rows |-> RowUpdated(c, w)]
  <2>3. f \in Surjection(rows, rows')
    BY <2>1 DEF Surjection
  <2> HIDE DEF f
  <2>4. IsFiniteSet(rows')
    BY <1>1, <2>3, FS_Surjection
  <2> QED
    BY <1>1, <1>3, <2>1, <2>2, <2>4
<1>4. CASE fw[c].op = "delete"
  <2>1. rows' = {w \in rows : w.id # fw[c].row.id}
    BY <1>1, <1>4 DEF RowsAfter
  <2>2. rows' \in SUBSET rows
    BY <2>1
  <2>3. IsFiniteSet(rows')
    BY <1>1, <2>2, FS_Subset
  <2> QED
    BY <1>1, <1>4, <2>1, <2>2, <2>3
<1>5. CASE fw[c].op = "rollback"
  <2>1. rows' = Recreated(Taken(c).rows)
    BY <1>1, <1>5 DEF RowsAfter
  <2>2. Taken(c).rows \in SUBSET Row /\ IsFiniteSet(Taken(c).rows)
    BY <1>1, TakenIs DEF FwTypeInv
  <2> DEFINE old == Taken(c).rows
  <2> HIDE DEF old
  <2>4. /\ Recreated(old) \in SUBSET Row /\ IsFiniteSet(Recreated(old))
        /\ Cardinality(old) \in Nat
    <3>1. old \in SUBSET Row /\ IsFiniteSet(old) /\ nextRow \in Nat
      BY <1>1, <2>2 DEF old
    <3> QED
      BY <3>1, RecreatedIs
  <2>3. /\ rows' \in SUBSET Row /\ IsFiniteSet(rows') /\ Cardinality(Taken(c).rows) \in Nat
    BY <2>1, <2>4 DEF old
  <2> QED
    BY <1>1, <1>5, <2>1, <2>3
<1> QED
  BY <1>1, <1>2, <1>3, <1>4, <1>5

\* Every step keeps the types.
LEMMA InsertFwType ==
    ASSUME FwTypeInv, NEW c \in Change, InsertAndAdd(c)
    PROVE  FwTypeInv'
<1> DEFINE new == fw'[c].row
<1>1. /\ Goes(c) /\ new \in Row /\ new.key = fw[c].key /\ fw[c].key \in Rule
      /\ fw'[c].at = "sent" /\ fw'[c].op = "create" /\ fw'[c].key = fw[c].key
      /\ fw'[c].snapshot = fw[c].snapshot /\ fw[c].at = "snapped"
      /\ rows' = rows \cup {new} /\ nextRow' = nextRow + 1
      /\ blame' \subseteq blame \cup {fw[c].key}
      /\ UNCHANGED <<host, active, audit, past, met>>
  BY InsertIs
<1>2. Formed(fw'[c], cmd'[c])
  <2>1. Formed(fw[c], cmd[c])
    BY FwCurrent
  <2> QED
    BY <1>1, <2>1 DEF Formed
<1> HIDE DEF new
<1>3. rows' \in SUBSET Row /\ nextRow' \in Nat /\ nextRow' # 0 /\ blame' \in SUBSET Rule
  BY <1>1 DEF FwTypeInv, FirewallTypeOK
<1>4. IsFiniteSet(rows')
  BY <1>1, FS_AddElement DEF FwTypeInv
<1>5. \A s \in fw'[c].snapshot : IsFiniteSet(s.rows)
  BY <1>1 DEF FwTypeInv
<1> QED
  BY <1>1, <1>2, <1>3, <1>4, <1>5, GoesType DEF FwTypeInv, FirewallTypeOK

LEMMA CommandFwType ==
    ASSUME FwTypeInv, NEW c \in Change, SendUpdate(c) \/ SendDelete(c) \/ SendRollback(c)
    PROVE  FwTypeInv'
<1>1. Formed(fw'[c], cmd'[c])
  <2>1. Formed(fw[c], cmd[c])
    BY FwCurrent
  <2> QED
    BY <2>1, CommandIs DEF GoesOn, Formed
<1>2. \A s \in fw'[c].snapshot : IsFiniteSet(s.rows)
  BY CommandIs DEF GoesOn, FwTypeInv
<1> QED
  BY <1>1, <1>2, CommandIs, GoesType DEF GoesOn, FwTypeInv, FirewallTypeOK

LEMMA AgentFwType ==
    ASSUME FwTypeInv, NEW c \in Change,
           HostApplies(c) \/ HostKeepsOld(c) \/ HostRefuses(c) \/ UpdateFails(c) \/ RollbackFails(c)
    PROVE  FwTypeInv'
<1>1. Formed(fw'[c], cmd'[c])
  <2>1. Formed(fw[c], cmd[c]) /\ fw'[c] = fw[c] /\ fw[c].at \in {"sent", "over"}
    BY FwCurrent, AgentIs
  <2> QED
    BY <2>1 DEF Formed
<1>2. \A s \in fw'[c].snapshot : IsFiniteSet(s.rows)
  BY AgentIs DEF FwTypeInv
<1> QED
  BY <1>1, <1>2, AgentIs, GoesType DEF FwTypeInv, FirewallTypeOK

LEMMA GoneFormed ==
    ASSUME NEW a
    PROVE  Formed(Gone, a) /\ Gone.snapshot = {}
  BY FwValues DEF Formed

\* What a compensation leaves.
LEMMA CompensateIs ==
    ASSUME FwTypeInv, NEW c \in Change, Compensate(c)
    PROVE  rows' \in SUBSET rows /\ rows' \in SUBSET Row /\ IsFiniteSet(rows')
<1>1. rows' \in SUBSET rows
  BY DEF Compensate
<1> QED
  BY <1>1, FS_Subset DEF FwTypeInv, FirewallTypeOK

LEMMA EndFwType ==
    ASSUME FwTypeInv, NEW c \in Change,
           \/ SnapshotFails(c) \/ ChangeFails(c) \/ ChangeTimesOut(c) \/ ExposeGoesOn(c)
           \/ Succeeds(c)
    PROVE  FwTypeInv'
<1>1. /\ Goes(c) /\ fw'[c] = Gone
      /\ met' \in [Change -> SUBSET Rule] /\ UNCHANGED <<host, active>>
  BY FailIs, GivesUpIs, SuccessIs
<1>2. /\ rows' \in SUBSET Row /\ IsFiniteSet(rows') /\ nextRow' \in Nat /\ nextRow' # 0
  <2>1. CASE SnapshotFails(c) \/ ExposeGoesOn(c)
    BY <2>1 DEF SnapshotFails, ExposeGoesOn, FwTypeInv, FirewallTypeOK
  <2>2. CASE ChangeFails(c) \/ ChangeTimesOut(c)
    BY <2>2, CompensateIs DEF ChangeFails, ChangeTimesOut, FwTypeInv, FirewallTypeOK
  <2>3. CASE Succeeds(c)
    BY <2>3, SuccessRows DEF FwTypeInv, FirewallTypeOK
  <2> QED
    BY <2>1, <2>2, <2>3
<1>3. /\ audit' \in SUBSET Snapshot /\ \A s, t \in audit' : s = t
      /\ \A s \in audit' : IsFiniteSet(s.rows)
  <2>1. CASE SnapshotFails(c) \/ ChangeFails(c) \/ ChangeTimesOut(c)
    BY <2>1 DEF SnapshotFails, ChangeFails, ChangeTimesOut, FwTypeInv, FirewallTypeOK
  <2>2. CASE ExposeGoesOn(c) \/ Succeeds(c)
    <3>1. Audit(c) /\ fw[c].at = "sent"
      BY <2>2 DEF ExposeGoesOn, GivesUp, Succeeds
    <3> QED
      BY <3>1, AuditIs
  <2> QED
    BY <2>1, <2>2
<1>4. past' \in SUBSET Rule
  <2>1. fw[c].at = "sent" => Taken(c).was \in SUBSET Rule
    BY TakenIs
  <2>2. past \in SUBSET Rule
    BY DEF FwTypeInv, FirewallTypeOK
  <2> QED
    BY <2>1, <2>2 DEF SnapshotFails, ChangeFails, ChangeTimesOut, ExposeGoesOn, GivesUp, Succeeds
<1>5. blame' \in SUBSET Rule
  <2>1. blame \in SUBSET Rule /\ Keys(fw[c]) \in SUBSET Rule
    BY FwCurrent, KeysOf DEF FwTypeInv, FirewallTypeOK
  <2>2. CASE Succeeds(c)
    <3>1. fw[c].at = "sent"
      BY <2>2, SuccessIs
    <3>2. /\ Taken(c).rows \in SUBSET Row /\ Taken(c).met \in SUBSET Rule
          /\ Taken(c).was \in SUBSET Rule
      BY <3>1, TakenIs
    <3>3. \A w \in Row : w.key \in Rule
      BY DEF Row
    <3>4. RollbackBlame(Taken(c)) \in SUBSET Rule
      BY <3>2, <3>3 DEF RollbackBlame
    <3> QED
      BY <2>1, <2>2, <3>4 DEF Succeeds
  <2>3. CASE SnapshotFails(c) \/ ChangeFails(c) \/ ChangeTimesOut(c) \/ ExposeGoesOn(c)
    BY <2>1, <2>3, FailIs, GivesUpIs
  <2> QED
    BY <2>2, <2>3
<1> QED
  BY <1>1, <1>2, <1>3, <1>4, <1>5, GoneFormed, GoesType DEF FwTypeInv, FirewallTypeOK

\* The end of the backend process.
LEMMA DeadIs ==
    ASSUME FwTypeInv, FirewallDies, NEW c \in Change
    PROVE  /\ fw'[c] = Gone \/ (fw'[c] = fw[c] /\ Keys(fw[c]) = {})
           /\ Keys(fw[c]) # {} => fw'[c] = Gone
           /\ (cmd'[c] = cmd[c] /\ cmd[c].state = "sent") \/ cmd'[c] = NoCommand
           /\ met'[c] = {}
  BY DEF FirewallDies, Gone

LEMMA DeadFwType ==
    ASSUME FwTypeInv, FirewallDies
    PROVE  FwTypeInv'
<1>1. \A c \in Change : /\ fw'[c] \in Requests /\ cmd'[c] \in Commands /\ Formed(fw'[c], cmd'[c])
                        /\ \A s \in fw'[c].snapshot : IsFiniteSet(s.rows)
  <2> SUFFICES ASSUME NEW c \in Change
               PROVE  /\ fw'[c] \in Requests /\ cmd'[c] \in Commands /\ Formed(fw'[c], cmd'[c])
                      /\ \A s \in fw'[c].snapshot : IsFiniteSet(s.rows)
    OBVIOUS
  <2>1. /\ fw[c] \in Requests /\ cmd[c] \in Commands /\ Formed(fw[c], cmd[c])
        /\ \A s \in fw[c].snapshot : IsFiniteSet(s.rows)
    BY FwCurrent DEF FwTypeInv
  <2>2. CASE fw'[c] = Gone
    BY <2>1, <2>2, DeadIs, FwValues, GoneFormed
  <2>3. CASE fw'[c] = fw[c] /\ Keys(fw[c]) = {}
    <3>1. cmd'[c] \in Commands /\ (cmd'[c] = cmd[c] \/ cmd'[c] = NoCommand)
      BY <2>1, DeadIs, FwValues
    <3> QED
      BY <2>1, <2>3, <3>1 DEF Formed
  <2> QED
    BY <2>2, <2>3, DeadIs
<1>2. /\ fw' = [c \in Change |-> fw'[c]] /\ cmd' = [c \in Change |-> cmd'[c]]
      /\ met' \in [Change -> SUBSET Rule]
  BY DEF FirewallDies
<1>3. blame' \in SUBSET Rule
  <2>1. \A c \in Change : Keys(fw[c]) \subseteq Rule
    BY FwCurrent, KeysOf
  <2> QED
    BY <2>1 DEF FirewallDies, FwTypeInv, FirewallTypeOK
<1>4. fw' \in [Change -> Requests] /\ cmd' \in [Change -> Commands]
  BY <1>1, <1>2
<1>5. UNCHANGED <<rows, nextRow, host, active, audit, past>>
  BY DEF FirewallDies
<1> QED
  BY <1>1, <1>2, <1>3, <1>4, <1>5 DEF FwTypeInv, FirewallTypeOK

LEMMA FwTypeNext == FwTypeInv /\ [FirewallNext]_fwVars => FwTypeInv'
<1> SUFFICES ASSUME FwTypeInv, [FirewallNext]_fwVars PROVE FwTypeInv'
  OBVIOUS
<1>1. CASE UNCHANGED fwVars
  BY <1>1 DEF fwVars, FwTypeInv, FirewallTypeOK
<1>2. CASE FirewallDies
  BY <1>2, DeadFwType
<1>3. ASSUME NEW c \in Change,
             BeginCreate(c) \/ BeginQuick(c) \/ BeginUpdate(c) \/ BeginDelete(c) \/ BeginRollback(c)
      PROVE  FwTypeInv'
  BY <1>3, BeginFresh, BeginFwType
<1>4. ASSUME NEW c \in Change, FirewallNext, ~FirewallDies,
             SnapshotHost(c) \/ SnapshotRows(c) \/ InsertAndAdd(c) \/ SendUpdate(c)
                \/ SendDelete(c) \/ SendRollback(c)
      PROVE  FwTypeInv'
  BY <1>4, SnapshotFwType, InsertFwType, CommandFwType
<1>5. ASSUME NEW c \in Change,
             HostApplies(c) \/ HostKeepsOld(c) \/ HostRefuses(c) \/ UpdateFails(c) \/ RollbackFails(c)
      PROVE  FwTypeInv'
  BY <1>5, AgentFwType
<1>6. ASSUME NEW c \in Change,
             SnapshotFails(c) \/ ChangeFails(c) \/ ChangeTimesOut(c) \/ ExposeGoesOn(c) \/ Succeeds(c)
      PROVE  FwTypeInv'
  BY <1>6, EndFwType
<1> QED
  BY <1>1, <1>2, <1>3, <1>4, <1>5, <1>6 DEF FirewallNext

\* Whatever requests do and however their commands end, the state of the firewall is of its type.
THEOREM FirewallTypeCorrect == FirewallSpec => []FirewallTypeOK
<1>1. FwTypeInv => FirewallTypeOK
  BY DEF FwTypeInv
<1> QED
  BY <1>1, FwInitType, FwTypeNext, PTL DEF FirewallSpec

-----------------------------------------------------------------------------
(* The rows *)

OneKey(S) == \A v, w \in S : v.key = w.key /\ v.key \notin blame => v = w

\* The row a request has read is there as it was, unless its keys are to blame; and two requests
\* about one rule, or one row, are.
RequestRows(c) ==
    /\ fw[c].row \in Row => fw[c].row.id # 0 /\ fw[c].row.id < nextRow
    /\ \A s \in fw[c].snapshot : OneKey(s.rows)
    /\ fw[c].row.id # 0 =>
          /\ \A w \in rows : w.id = fw[c].row.id => w = fw[c].row \/ w.key \in blame
          /\ fw[c].row \in rows \/ Keys(fw[c]) \subseteq blame
    /\ fw[c].op = "update" /\ fw[c].key \notin blame =>
          \A w \in rows : w.key = fw[c].key => w = fw[c].row
    /\ \A d \in Change \ {c} :
          Collide(fw[c], fw[d]) => Keys(fw[c]) \cup Keys(fw[d]) \subseteq blame

RowsInv ==
    /\ \A w \in rows : w.id # 0 /\ w.id < nextRow
    /\ \A v, w \in rows : v.id = w.id => v = w
    /\ OneKey(rows)
    /\ \A s \in audit : OneKey(s.rows)
    /\ \A c \in Change : RequestRows(c)

LEMMA RowsInit == FirewallInit => RowsInv
  BY FwValues DEF FirewallInit, RowsInv, RequestRows, OneKey, Collide, Keys

\* A request that is over collides with none.
LEMMA GoneAlone ==
    /\ Keys(Gone) = {} /\ Gone.row.id = 0 /\ Gone.row \notin Row
    /\ Keys(NotBegun) = {} /\ NotBegun.row.id = 0 /\ NotBegun.row \notin Row
    /\ \A r : ~Collide(r, Gone) /\ ~Collide(Gone, r)
  BY FwValues DEF Keys, Collide

\* A request has the keys it had wherever it is.
LEMMA KeysStay ==
    ASSUME NEW q, NEW r, r.op = q.op, r.row = q.row, r.key = q.key,
           q.at \notin {"idle", "over"}, r.at \notin {"idle", "over"}
    PROVE  Keys(r) = Keys(q)
  BY DEF Keys

\* A step that changes no row, and leaves or ends requests.
Stays(c) ==
    \/ fw'[c] = Gone
    \/ /\ fw'[c].row = fw[c].row /\ fw'[c].op = fw[c].op /\ fw'[c].key = fw[c].key
       /\ Keys(fw'[c]) = Keys(fw[c])
       /\ \A s \in fw'[c].snapshot : OneKey(s.rows)

LEMMA StayApart ==
    ASSUME blame \subseteq blame', \A d \in Change : Stays(d), NEW c \in Change, NEW d \in Change,
           Collide(fw[c], fw[d]) => Keys(fw[c]) \cup Keys(fw[d]) \subseteq blame
    PROVE  Collide(fw'[c], fw'[d]) => Keys(fw'[c]) \cup Keys(fw'[d]) \subseteq blame'
<1>1. CASE fw'[c] = Gone \/ fw'[d] = Gone
  BY <1>1, GoneAlone
<1>2. CASE fw'[c] # Gone /\ fw'[d] # Gone
  <2>1. /\ fw'[c].row = fw[c].row /\ Keys(fw'[c]) = Keys(fw[c])
        /\ fw'[d].row = fw[d].row /\ Keys(fw'[d]) = Keys(fw[d])
    BY <1>2 DEF Stays
  <2>2. Collide(fw'[c], fw'[d]) => Collide(fw[c], fw[d])
    BY <2>1 DEF Collide
  <2> QED
    BY <2>1, <2>2
<1> QED
  BY <1>1, <1>2

\* Rows that go, and none that comes.
LEMMA RowsFewer ==
    ASSUME FwTypeInv, RowsInv, rows' \in SUBSET rows, nextRow' = nextRow, blame \subseteq blame',
           \A s \in audit' : OneKey(s.rows), \A c \in Change : Stays(c),
           \A c \in Change :
              fw[c].row.id # 0 /\ fw'[c] # Gone /\ ~(Keys(fw[c]) \subseteq blame) /\ fw[c].row \in rows =>
                 fw[c].row \in rows'
    PROVE  RowsInv'
<1>1. \A c \in Change : RequestRows(c)'
  <2> SUFFICES ASSUME NEW c \in Change PROVE RequestRows(c)'
    OBVIOUS
  <2>1. RequestRows(c)
    BY DEF RowsInv
  <2>2. \A d \in Change \ {c} :
           Collide(fw'[c], fw'[d]) => Keys(fw'[c]) \cup Keys(fw'[d]) \subseteq blame'
    BY <2>1, StayApart DEF RequestRows
  <2>3. CASE fw'[c] = Gone
    BY <2>2, <2>3, GoneAlone, FwValues DEF RequestRows
  <2>4. CASE fw'[c] # Gone
    <3>1. /\ fw'[c].row = fw[c].row /\ fw'[c].op = fw[c].op /\ fw'[c].key = fw[c].key
          /\ Keys(fw'[c]) = Keys(fw[c])
          /\ \A s \in fw'[c].snapshot : OneKey(s.rows)'
      BY <2>4 DEF Stays, OneKey
    <3>2. fw[c].row.id # 0 =>
             /\ \A w \in rows' : w.id = fw[c].row.id => w = fw[c].row \/ w.key \in blame'
             /\ fw[c].row \in rows' \/ Keys(fw[c]) \subseteq blame'
      BY <2>1, <2>4 DEF RequestRows
    <3>4. fw'[c].op = "update" /\ fw'[c].key \notin blame' =>
             \A w \in rows' : w.key = fw'[c].key => w = fw'[c].row
      BY <2>1, <3>1 DEF RequestRows
    <3> QED
      BY <2>1, <2>2, <3>1, <3>2, <3>4 DEF RequestRows
  <2> QED
    BY <2>3, <2>4
<1>2. OneKey(rows)' /\ \A s \in audit' : OneKey(s.rows)'
  BY DEF RowsInv, OneKey
<1> QED
  BY <1>1, <1>2 DEF RowsInv

\* Two requests about one rule, or one row.
LEMMA Collision ==
    ASSUME RowsInv, NEW c \in Change, NEW d \in Change, c # d,
           \/ Keys(fw[c]) \cap Keys(fw[d]) # {}
           \/ fw[c].row.id # 0 /\ fw[c].row.id = fw[d].row.id
    PROVE  Keys(fw[c]) \subseteq blame /\ Keys(fw[d]) \subseteq blame
  BY DEF RowsInv, RequestRows, Collide

LEMMA RowsBegin ==
    ASSUME FwTypeInv, RowsInv, NEW c \in Change, NEW r \in Requests, Fresh(r), BeginChange(c, r)
    PROVE  RowsInv'
<1>1. /\ fw[c] = NotBegun /\ fw'[c] = r /\ \A d \in Change \ {c} : fw'[d] = fw[d]
      /\ UNCHANGED <<rows, nextRow, audit>> /\ blame \subseteq blame'
      /\ \A d \in Change : Collide(r, fw[d]) => Keys(r) \cup Keys(fw[d]) \subseteq blame'
  BY DEF BeginChange, FwTypeInv, FirewallTypeOK
<1>2. /\ r.row \in Row \cup {NoRow} /\ (r.row \in Row => r.row \in rows)
      /\ r.op = "update" => r.row \in rows /\ (RowsOf(r.key) \subseteq {r.row} \/ r.key \in blame')
      /\ r.snapshot \in {{}, audit}
  <2>1. r.op = "update" => RowsOf(r.key) \subseteq {r.row} \/ r.key \in blame'
    BY DEF BeginChange, Shared
  <2> QED
    BY <2>1, FwValues DEF Fresh, Formed, Requests
<1>3. RequestRows(c)'
  <2>1. r.row \in Row => r.row \in rows /\ r.row.id # 0 /\ r.row.id < nextRow
    BY <1>2 DEF RowsInv
  <2>2. \A s \in r.snapshot : OneKey(s.rows)'
    BY <1>1, <1>2 DEF RowsInv, OneKey
  <2>3. r.row.id # 0 => r.row \in rows /\ \A w \in rows : w.id = r.row.id => w = r.row
    BY <1>2, <2>1, FwValues DEF RowsInv
  <2>4. r.op = "update" /\ r.key \notin blame' => \A w \in rows : w.key = r.key => w = r.row
    BY <1>2 DEF RowsOf
  <2>5. \A d \in Change \ {c} : Collide(r, fw'[d]) => Keys(r) \cup Keys(fw'[d]) \subseteq blame'
    BY <1>1
  <2> QED
    BY <1>1, <2>1, <2>2, <2>3, <2>4, <2>5 DEF RequestRows
<1>4. ASSUME NEW d \in Change \ {c} PROVE RequestRows(d)'
  <2>1. RequestRows(d) /\ fw'[d] = fw[d]
    BY <1>1 DEF RowsInv
  <2>2. \A e \in Change \ {d} :
           Collide(fw[d], fw'[e]) => Keys(fw[d]) \cup Keys(fw'[e]) \subseteq blame'
    <3> SUFFICES ASSUME NEW e \in Change \ {d}, Collide(fw[d], fw'[e])
                 PROVE  Keys(fw[d]) \cup Keys(fw'[e]) \subseteq blame'
      OBVIOUS
    <3>1. CASE e = c
      <4>1. Collide(r, fw[d])
        BY <1>1, <3>1 DEF Collide
      <4> QED
        BY <1>1, <3>1, <4>1
    <3>2. CASE e # c
      BY <1>1, <2>1, <3>2 DEF RequestRows
    <3> QED
      BY <3>1, <3>2
  <2>3. \A s \in fw[d].snapshot : OneKey(s.rows)'
    BY <1>1, <2>1 DEF RequestRows, OneKey
  <2> QED
    BY <1>1, <2>1, <2>2, <2>3 DEF RequestRows
<1>5. OneKey(rows)' /\ \A s \in audit' : OneKey(s.rows)'
  BY <1>1 DEF RowsInv, OneKey
<1> QED
  BY <1>1, <1>3, <1>4, <1>5 DEF RowsInv

LEMMA RowsInsert ==
    ASSUME FwTypeInv, RowsInv, NEW c \in Change, InsertAndAdd(c)
    PROVE  RowsInv'
<1> DEFINE new == fw'[c].row
           k   == fw[c].key
<1>1. /\ \A d \in Change \ {c} : fw'[d] = fw[d]
      /\ new \in Row /\ new.key = k /\ new.id = nextRow /\ nextRow \in Nat /\ nextRow # 0
      /\ fw'[c].op = "create" /\ fw'[c].key = k /\ fw'[c].snapshot = fw[c].snapshot
      /\ rows' = rows \cup {new} /\ nextRow' = nextRow + 1 /\ audit' = audit
      /\ blame \subseteq blame' /\ (RowsOf(k) # {} => k \in blame')
  <2>1. /\ Goes(c) /\ new \in Row /\ new.key = k /\ new.id = nextRow
        /\ fw'[c].op = "create" /\ fw'[c].key = k /\ fw'[c].snapshot = fw[c].snapshot
        /\ rows' = rows \cup {new} /\ nextRow' = nextRow + 1 /\ audit' = audit
        /\ blame \subseteq blame' /\ (RowsOf(k) # {} => k \in blame')
    BY InsertIs, ZenonT(30)
  <2>2. \A d \in Change \ {c} : fw'[d] = fw[d]
    BY <2>1, ZenonT(30) DEF Goes
  <2>3. nextRow \in Nat /\ nextRow # 0
    BY InsertIs, ZenonT(30) DEF FwTypeInv, FirewallTypeOK
  <2> QED
    BY <2>1, <2>2, <2>3, ZenonT(30)
<1>2. Keys(fw[c]) = {k} /\ Keys(fw'[c]) = {k}
  <2>1. FwTypeInv'
    BY InsertFwType
  <2>2. Formed(fw[c], cmd[c]) /\ fw[c] \in Requests /\ fw[c].op = "create" /\ fw[c].at = "snapped"
    BY FwCurrent, InsertIs
  <2>3. Keys(fw[c]) = {k}
    BY <2>2, KeysOf
  <2>4. fw'[c] \in Requests /\ Formed(fw'[c], cmd'[c]) /\ fw'[c].at = "sent"
    BY <2>1, InsertIs DEF FwTypeInv, FirewallTypeOK
  <2>5. Keys(fw'[c]) = {k}
    BY <1>1, <2>4, KeysOf
  <2> QED
    BY <2>3, <2>5
<1> HIDE DEF new, k
<1>3. \A d \in Change : fw[d].row.id < nextRow
  BY <1>1, FwCurrent, FwValues DEF RowsInv, RequestRows
<1>4. \A w \in rows : w \in Row /\ w.id < nextRow /\ w.id \in Nat
  BY DEF RowsInv, FwTypeInv, FirewallTypeOK, Row
<1>5. OneKey(rows)' /\ \A s \in audit' : OneKey(s.rows)'
  <2>1. \A w \in rows : w.key = k => k \in blame'
    BY <1>1 DEF RowsOf
  <2> QED
    BY <1>1, <2>1 DEF RowsInv, OneKey
<1>6. RequestRows(c)'
  <2>1. \A d \in Change \ {c} :
           Collide(fw'[c], fw'[d]) => Keys(fw'[c]) \cup Keys(fw'[d]) \subseteq blame'
    <3> SUFFICES ASSUME NEW d \in Change \ {c}, Collide(fw'[c], fw'[d])
                 PROVE  Keys(fw'[c]) \cup Keys(fw'[d]) \subseteq blame'
      OBVIOUS
    <3>1. Keys(fw[c]) \cap Keys(fw[d]) # {}
      BY <1>1, <1>2, <1>3 DEF Collide, new
    <3> QED
      BY <1>1, <1>2, <3>1, Collision
  <2>2. \A s \in fw'[c].snapshot : OneKey(s.rows)'
    BY <1>1 DEF RowsInv, RequestRows, OneKey
  <2>3. \A w \in rows' : w.id = new.id => w = new
    BY <1>1, <1>4
  <2>4. new.id # 0 /\ new.id < nextRow'
    BY <1>1
  <2> QED
    BY <1>1, <2>1, <2>2, <2>3, <2>4 DEF RequestRows, new
<1>7. ASSUME NEW d \in Change \ {c} PROVE RequestRows(d)'
  <2>1. RequestRows(d) /\ fw'[d] = fw[d] /\ fw[d].row.id < nextRow /\ fw[d].row.id \in Nat
    BY <1>1, <1>3, FwCurrent, FwValues DEF RowsInv, Row
  <2>2. \A e \in Change \ {d} :
           Collide(fw[d], fw'[e]) => Keys(fw[d]) \cup Keys(fw'[e]) \subseteq blame'
    <3> SUFFICES ASSUME NEW e \in Change \ {d}, Collide(fw[d], fw'[e])
                 PROVE  Keys(fw[d]) \cup Keys(fw'[e]) \subseteq blame'
      OBVIOUS
    <3>1. CASE e = c
      <4>1. Keys(fw[c]) \cap Keys(fw[d]) # {}
        BY <1>1, <1>2, <2>1, <3>1 DEF Collide, new
      <4> QED
        BY <1>1, <1>2, <3>1, <4>1, Collision
    <3>2. CASE e # c
      BY <1>1, <2>1, <3>2 DEF RequestRows
    <3> QED
      BY <3>1, <3>2
  <2>3. \A s \in fw[d].snapshot : OneKey(s.rows)'
    BY <1>1, <2>1 DEF RequestRows, OneKey
  <2>4. fw[d].op = "update" /\ fw[d].key = k => k \in blame'
    <3> SUFFICES ASSUME fw[d].op = "update", fw[d].key = k PROVE k \in blame'
      OBVIOUS
    <3>1. fw[d].at \notin {"idle", "over"}
      BY FwCurrent, FwValues DEF Formed
    <3>2. k \in Keys(fw[d])
      BY <3>1, FwCurrent, KeysOf
    <3>3. Keys(fw[c]) \cap Keys(fw[d]) # {}
      BY <1>2, <3>2
    <3> QED
      BY <1>1, <1>2, <3>3, Collision
  <2>5. nextRow \in Nat /\ fw[d].row.id < nextRow + 1 /\ new.id # fw[d].row.id
    BY <1>1, <2>1
  <2> QED
    BY <1>1, <2>1, <2>2, <2>3, <2>4, <2>5 DEF RequestRows
<1>8. \A w \in rows' : w.id # 0 /\ w.id < nextRow'
  BY <1>1, <1>4 DEF RowsInv
<1>9. \A v, w \in rows' : v.id = w.id => v = w
  BY <1>1, <1>4 DEF RowsInv
<1> QED
  BY <1>5, <1>6, <1>7, <1>8, <1>9 DEF RowsInv

\* A step that leaves the rows alone.
LEMMA RowsSame ==
    ASSUME FwTypeInv, RowsInv, NEW c \in Change,
           \/ SnapshotHost(c) \/ SnapshotRows(c) \/ SnapshotFails(c)
           \/ SendUpdate(c) \/ SendDelete(c) \/ SendRollback(c)
           \/ HostApplies(c) \/ HostKeepsOld(c) \/ HostRefuses(c) \/ UpdateFails(c)
           \/ RollbackFails(c) \/ ExposeGoesOn(c)
    PROVE  RowsInv'
<1>1. \A d \in Change : RequestRows(d)
  BY DEF RowsInv
<1>2. \A d \in Change : fw'[d] = fw[d] => Stays(d)
  BY <1>1 DEF Stays, RequestRows
<1>3. Stays(c)
  <2>1. CASE SnapshotHost(c)
    <3>1. PICK r \in Requests, s \in Snapshot :
              /\ fw' = [fw EXCEPT ![c] = r] /\ r.at = "asked" /\ r.op = fw[c].op
              /\ r.row = fw[c].row /\ r.key = fw[c].key /\ r.snapshot = {s} /\ s.rows = {}
      BY <2>1, SnapshotHostIs
    <3>2. fw'[c] = r
      BY <3>1 DEF FwTypeInv, FirewallTypeOK
    <3>3. fw[c].at = "checked"
      BY <2>1 DEF SnapshotHost
    <3>4. Keys(r) = Keys(fw[c])
      BY <3>1, <3>3, KeysStay
    <3> QED
      BY <3>1, <3>2, <3>4 DEF Stays, OneKey
  <2>2. CASE SnapshotRows(c)
    <3>1. PICK r \in Requests, s \in Snapshot :
              /\ fw' = [fw EXCEPT ![c] = r] /\ r.at = "snapped" /\ r.op = fw[c].op
              /\ r.row = fw[c].row /\ r.key = fw[c].key /\ r.snapshot = {s} /\ s.rows = rows
      BY <2>2, SnapshotRowsIs
    <3>2. fw'[c] = r
      BY <3>1 DEF FwTypeInv, FirewallTypeOK
    <3>3. fw[c].at = "asked"
      BY <2>2 DEF SnapshotRows
    <3>4. Keys(r) = Keys(fw[c])
      BY <3>1, <3>3, KeysStay
    <3> QED
      BY <3>1, <3>2, <3>4 DEF Stays, RowsInv
  <2>3. CASE SnapshotFails(c) \/ ExposeGoesOn(c)
    BY <2>3, FailIs, GivesUpIs DEF Stays
  <2>4. CASE SendUpdate(c) \/ SendDelete(c) \/ SendRollback(c)
    <3>1. GoesOn(c) /\ fw[c].at = "snapped" /\ fw'[c].at = "sent"
      BY <2>4, CommandIs
    <3>2. Keys(fw'[c]) = Keys(fw[c])
      BY <3>1, KeysStay DEF GoesOn
    <3> QED
      BY <1>1, <3>1, <3>2 DEF Stays, GoesOn, RequestRows
  <2>5. CASE \/ HostApplies(c) \/ HostKeepsOld(c) \/ HostRefuses(c) \/ UpdateFails(c)
             \/ RollbackFails(c)
    BY <1>2, <2>5, AgentIs
  <2> QED
    BY <2>1, <2>2, <2>3, <2>4, <2>5
<1>4. \A d \in Change \ {c} : fw'[d] = fw[d]
  <2>1. CASE SnapshotHost(c) \/ SnapshotRows(c)
    BY <2>1 DEF SnapshotHost, SnapshotRows, FwTypeInv, FirewallTypeOK
  <2>2. CASE SnapshotFails(c) \/ ExposeGoesOn(c)
    BY <2>2, FailIs, GivesUpIs DEF Goes
  <2>3. CASE SendUpdate(c) \/ SendDelete(c) \/ SendRollback(c)
    BY <2>3, CommandIs DEF GoesOn, Goes
  <2>4. CASE \/ HostApplies(c) \/ HostKeepsOld(c) \/ HostRefuses(c) \/ UpdateFails(c)
             \/ RollbackFails(c)
    BY <2>4, AgentIs
  <2> QED
    BY <2>1, <2>2, <2>3, <2>4
<1>5. rows' = rows /\ nextRow' = nextRow
  BY AgentIs, CommandIs DEF SnapshotHost, SnapshotRows, SnapshotFails, ExposeGoesOn
<1>6. blame \subseteq blame'
  BY AgentIs, CommandIs DEF SnapshotHost, SnapshotRows, SnapshotFails, ExposeGoesOn
<1>7. \A s \in audit' : OneKey(s.rows)
  <2>1. CASE ExposeGoesOn(c)
    <3>1. fw[c].at = "sent" /\ Audit(c)
      BY <2>1 DEF ExposeGoesOn, GivesUp
    <3>2. \A s \in audit' : s.rows = Taken(c).rows
      BY <3>1, AuditIs
    <3>3. Taken(c) \in fw[c].snapshot
      BY <3>1, TakenIs
    <3> QED
      BY <1>1, <3>2, <3>3 DEF RequestRows
  <2>2. CASE ~ExposeGoesOn(c)
    <3>1. audit' = audit
      BY <2>2, AgentIs, CommandIs DEF SnapshotHost, SnapshotRows, SnapshotFails
    <3> QED
      BY <3>1 DEF RowsInv
  <2> QED
    BY <2>1, <2>2
<1> QED
  BY <1>2, <1>3, <1>4, <1>5, <1>6, <1>7, RowsFewer

\* A row that is compensated for, or deleted.
LEMMA RowsDrop ==
    ASSUME FwTypeInv, RowsInv, NEW c \in Change, fw[c].row.id # 0,
           rows' = {w \in rows : w.id # fw[c].row.id}, nextRow' = nextRow, blame \subseteq blame',
           fw'[c] = Gone, \A d \in Change \ {c} : fw'[d] = fw[d],
           \A s \in audit' : OneKey(s.rows)
    PROVE  RowsInv'
<1>1. \A d \in Change : Stays(d)
  BY DEF Stays, RowsInv, RequestRows
<1>2. \A d \in Change :
         fw[d].row.id # 0 /\ fw'[d] # Gone /\ ~(Keys(fw[d]) \subseteq blame) /\ fw[d].row \in rows =>
            fw[d].row \in rows'
  <2> SUFFICES ASSUME NEW d \in Change, fw'[d] # Gone, ~(Keys(fw[d]) \subseteq blame),
                      fw[d].row \in rows
               PROVE  fw[d].row \in rows'
    OBVIOUS
  <2>1. c # d
    OBVIOUS
  <2>2. fw[c].row.id # fw[d].row.id
    BY <2>1, Collision
  <2> QED
    BY <2>2
<1>3. rows' \in SUBSET rows
  OBVIOUS
<1> QED
  BY <1>1, <1>2, <1>3, RowsFewer

LEMMA RowsCompensate ==
    ASSUME FwTypeInv, RowsInv, NEW c \in Change, ChangeFails(c) \/ ChangeTimesOut(c)
    PROVE  RowsInv'
<1>1. /\ fw'[c] = Gone /\ \A d \in Change \ {c} : fw'[d] = fw[d]
      /\ nextRow' = nextRow /\ audit' = audit /\ blame \subseteq blame'
      /\ Compensate(c) /\ fw[c].at = "sent"
  BY FailIs, GivesUpIs DEF Goes, ChangeFails, ChangeTimesOut, GivesUp
<1>2. \A s \in audit' : OneKey(s.rows)
  BY <1>1 DEF RowsInv
<1>3. CASE fw[c].op = "create"
  <2>1. fw[c].row \in Row
    BY <1>1, <1>3, FwCurrent DEF Formed
  <2>2. fw[c].row.id # 0
    BY <2>1 DEF RowsInv, RequestRows
  <2> QED
    BY <1>1, <1>2, <1>3, <2>2, RowsDrop DEF Compensate
<1>4. CASE fw[c].op # "create"
  <2>1. rows' = rows
    BY <1>1, <1>4 DEF Compensate
  <2>2. \A d \in Change : Stays(d)
    BY <1>1 DEF Stays, RowsInv, RequestRows
  <2> QED
    BY <1>1, <1>2, <2>1, <2>2, RowsFewer
<1> QED
  BY <1>3, <1>4

LEMMA RowsDead ==
    ASSUME FwTypeInv, RowsInv, FirewallDies
    PROVE  RowsInv'
<1>1. \A d \in Change : Stays(d)
  BY DeadIs DEF Stays, RowsInv, RequestRows
<1>2. rows' = rows /\ nextRow' = nextRow /\ audit' = audit /\ blame \subseteq blame'
  BY DEF FirewallDies
<1> QED
  BY <1>1, <1>2, RowsFewer DEF RowsInv

\* What a success leaves the others.
LEMMA SuccessOthers ==
    ASSUME FwTypeInv, RowsInv, NEW c \in Change, Succeeds(c)
    PROVE  /\ fw'[c] = Gone /\ \A d \in Change \ {c} : fw'[d] = fw[d]
           /\ blame \subseteq blame'
           /\ \A s \in audit' : OneKey(s.rows)
           /\ OneKey(Taken(c).rows)
           /\ \A d \in Change : Stays(d)
<1>1. fw'[c] = Gone /\ (\A d \in Change \ {c} : fw'[d] = fw[d]) /\ fw[c].at = "sent" /\ Audit(c)
  BY SuccessIs DEF Goes, Succeeds
<1>2. OneKey(Taken(c).rows)
  BY <1>1, TakenIs DEF RowsInv, RequestRows
<1>3. \A s \in audit' : OneKey(s.rows)
  BY <1>1, <1>2, AuditIs
<1>4. blame \subseteq blame'
  BY DEF Succeeds
<1>5. \A d \in Change : Stays(d)
  BY <1>1 DEF Stays, RowsInv, RequestRows
<1> QED
  BY <1>1, <1>2, <1>3, <1>4, <1>5

LEMMA RowsUpdate ==
    ASSUME FwTypeInv, RowsInv, NEW c \in Change, Succeeds(c), fw[c].op = "update"
    PROVE  RowsInv'
<1>1. /\ fw'[c] = Gone /\ \A d \in Change \ {c} : fw'[d] = fw[d]
      /\ blame \subseteq blame' /\ \A s \in audit' : OneKey(s.rows)
      /\ \A d \in Change : Stays(d)
  BY SuccessOthers
<1>2. rows' = {RowUpdated(c, w) : w \in rows} /\ nextRow' = nextRow
  BY SuccessRows
<1>3. \A w \in rows : /\ RowUpdated(c, w).id = w.id
                      /\ w.id = fw[c].row.id => RowUpdated(c, w).key = fw[c].key
                      /\ w.id # fw[c].row.id => RowUpdated(c, w) = w
  BY UpdatedIs
<1>4. /\ fw[c].row \in Row /\ fw[c].row.id # 0 /\ fw[c].key \in Keys(fw[c])
      /\ fw[c].key \notin blame => \A w \in rows : w.key = fw[c].key => w = fw[c].row
  <2>1. fw[c].row \in Row /\ fw[c].at = "sent"
    BY FwCurrent, SuccessIs DEF Formed
  <2> QED
    BY <2>1, FwCurrent, KeysOf DEF RowsInv, RequestRows
<1>5. /\ \A w \in rows' : w.id # 0 /\ w.id < nextRow'
      /\ \A v, w \in rows' : v.id = w.id => v = w
  BY <1>2, <1>3 DEF RowsInv
<1>6. OneKey(rows)'
  <2> SUFFICES ASSUME NEW v \in rows, NEW w \in rows, RowUpdated(c, v).key = RowUpdated(c, w).key,
                      RowUpdated(c, v).key \notin blame
               PROVE  RowUpdated(c, v) = RowUpdated(c, w)
    BY <1>1, <1>2 DEF OneKey
  <2>1. CASE v.id = fw[c].row.id /\ w.id = fw[c].row.id
    BY <2>1 DEF RowsInv
  <2>2. CASE v.id = fw[c].row.id /\ w.id # fw[c].row.id
    BY <1>3, <1>4, <2>2
  <2>3. CASE v.id # fw[c].row.id /\ w.id = fw[c].row.id
    BY <1>3, <1>4, <2>3
  <2>4. CASE v.id # fw[c].row.id /\ w.id # fw[c].row.id
    BY <1>3, <2>4 DEF RowsInv, OneKey
  <2> QED
    BY <2>1, <2>2, <2>3, <2>4
<1>7. ASSUME NEW d \in Change \ {c} PROVE RequestRows(d)'
  <2>1. RequestRows(d) /\ fw'[d] = fw[d]
    BY <1>1 DEF RowsInv
  <2>2. \A e \in Change \ {d} :
           Collide(fw'[d], fw'[e]) => Keys(fw'[d]) \cup Keys(fw'[e]) \subseteq blame'
    BY <1>1, <2>1, StayApart DEF RequestRows
  <2>3. \A s \in fw[d].snapshot : OneKey(s.rows)'
    BY <1>1, <2>1 DEF RequestRows, OneKey
  <2>4. fw[d].row.id # 0 =>
           /\ \A w \in rows' : w.id = fw[d].row.id => w = fw[d].row \/ w.key \in blame'
           /\ fw[d].row \in rows' \/ Keys(fw[d]) \subseteq blame'
    <3>1. CASE fw[d].row.id = fw[c].row.id
      <4>1. Keys(fw[c]) \subseteq blame /\ Keys(fw[d]) \subseteq blame
        BY <1>4, <3>1, Collision
      <4> QED
        BY <1>1, <1>2, <1>3, <1>4, <3>1, <4>1
    <3>2. CASE fw[d].row.id # fw[c].row.id
      BY <1>1, <1>2, <1>3, <2>1, <3>2 DEF RequestRows
    <3> QED
      BY <3>1, <3>2
  <2>5. fw[d].op = "update" /\ fw[d].key \notin blame' =>
           \A w \in rows' : w.key = fw[d].key => w = fw[d].row
    <3> SUFFICES ASSUME fw[d].op = "update", fw[d].key \notin blame', NEW w \in rows,
                        RowUpdated(c, w).key = fw[d].key
                 PROVE  RowUpdated(c, w) = fw[d].row
      BY <1>2
    <3>1. fw[d].at \notin {"idle", "over"}
      BY FwCurrent, FwValues DEF Formed
    <3>2. fw[d].key \in Keys(fw[d])
      BY <3>1, FwCurrent, KeysOf
    <3>3. fw[d].key # fw[c].key
      BY <1>1, <1>4, <3>2, Collision
    <3> QED
      BY <1>1, <1>3, <2>1, <3>3 DEF RequestRows
  <2> QED
    BY <1>2, <2>1, <2>2, <2>3, <2>4, <2>5 DEF RequestRows
<1>8. RequestRows(c)'
  <2>1. \A d \in Change \ {c} :
           Collide(fw'[c], fw'[d]) => Keys(fw'[c]) \cup Keys(fw'[d]) \subseteq blame'
    BY <1>1, GoneAlone
  <2> QED
    BY <1>1, <2>1, GoneAlone, FwValues DEF RequestRows
<1>9. \A s \in audit' : OneKey(s.rows)'
  BY <1>1 DEF OneKey
<1> QED
  BY <1>5, <1>6, <1>7, <1>8, <1>9 DEF RowsInv

\* Beside a rollback every key of another request is to blame.
LEMMA BesideRollback ==
    ASSUME FwTypeInv, RowsInv, NEW c \in Change, NEW d \in Change, c # d,
           fw[c].op = "rollback", fw[d].at \notin {"idle", "over"}
    PROVE  Rule \subseteq blame
<1>1. fw[c].at \notin {"idle", "over"}
  BY FwCurrent DEF Formed
<1>2. Keys(fw[c]) = Rule
  BY <1>1, FwCurrent, KeysOf
<1>3. Rule = {} \/ (Keys(fw[d]) # {} /\ Keys(fw[d]) \subseteq Rule)
  BY FwCurrent, KeysOf
<1> QED
  BY <1>2, <1>3, Collision

LEMMA RowsRollback ==
    ASSUME FwTypeInv, RowsInv, NEW c \in Change, Succeeds(c), fw[c].op = "rollback"
    PROVE  RowsInv'
<1> DEFINE old == Taken(c).rows
<1>1. /\ fw'[c] = Gone /\ \A d \in Change \ {c} : fw'[d] = fw[d]
      /\ blame \subseteq blame' /\ \A s \in audit' : OneKey(s.rows) /\ OneKey(old)
      /\ \A d \in Change : Stays(d)
  BY SuccessOthers
<1>2. rows' = Recreated(old) /\ nextRow' = nextRow + Cardinality(old)
  BY SuccessRows
<1>3. old \in SUBSET Row /\ IsFiniteSet(old) /\ nextRow \in Nat /\ nextRow # 0 /\ rows' \in SUBSET Row
  BY SuccessIs, TakenIs, SuccessRows DEF FwTypeInv, FirewallTypeOK
<1>9. OneKey(old)
  BY SuccessOthers
<1> HIDE DEF old
<1>4. /\ Cardinality(old) \in Nat
      /\ \A w \in rows' : w.id >= nextRow /\ w.id < nextRow'
      /\ \A v, w \in rows' : v.id = w.id => v = w
      /\ \A v, w \in rows' :
            v # w => \E x, y \in old : x # y /\ x.key = v.key /\ y.key = w.key
  BY <1>2, <1>3, RecreatedIs
<1>5. \A w \in rows' : w.id # 0 /\ w.key \in Rule
  <2>1. \A w \in rows' : w.id \in Nat /\ w.key \in Rule
    BY <1>3 DEF Row
  <2> QED
    BY <1>3, <1>4, <2>1
<1>6. OneKey(rows)' /\ \A s \in audit' : OneKey(s.rows)'
  BY <1>1, <1>4, <1>9 DEF OneKey
<1>7. ASSUME NEW d \in Change PROVE RequestRows(d)'
  <2>1. \A e \in Change \ {d} :
           Collide(fw'[d], fw'[e]) => Keys(fw'[d]) \cup Keys(fw'[e]) \subseteq blame'
    BY <1>1, StayApart DEF RowsInv, RequestRows
  <2>2. CASE d = c \/ fw[d].at \in {"idle", "over"}
    <3>1. fw'[d] \in {Gone, NotBegun}
      BY <1>1, <2>2, FwCurrent DEF Formed
    <3> QED
      BY <2>1, <3>1, GoneAlone, FwValues DEF RequestRows
  <2>3. CASE d # c /\ fw[d].at \notin {"idle", "over"}
    <3>1. Rule \subseteq blame' /\ fw'[d] = fw[d] /\ RequestRows(d)
      BY <1>1, <2>3, BesideRollback DEF RowsInv
    <3>2. Keys(fw[d]) \subseteq blame'
      BY <3>1, FwCurrent, KeysOf
    <3>3. fw[d].row \in Row => fw[d].row.id # 0 /\ fw[d].row.id < nextRow'
      <4>1. fw[d].row \in Row => fw[d].row.id \in Nat
        BY DEF Row
      <4> QED
        BY <1>2, <1>3, <1>4, <3>1, <4>1 DEF RequestRows
    <3>4. \A s \in fw[d].snapshot : OneKey(s.rows)'
      BY <1>1, <3>1 DEF RequestRows, OneKey
    <3>5. fw[d].op = "update" => fw[d].key \in blame'
      BY <3>1, FwCurrent DEF Formed
    <3>6. \A w \in rows' : w.key \in blame'
      BY <1>5, <3>1
    <3> QED
      BY <2>1, <3>1, <3>2, <3>3, <3>4, <3>5, <3>6 DEF RequestRows
  <2> QED
    BY <2>2, <2>3
<1> QED
  BY <1>4, <1>5, <1>6, <1>7 DEF RowsInv

LEMMA RowsSuccess ==
    ASSUME FwTypeInv, RowsInv, NEW c \in Change, Succeeds(c)
    PROVE  RowsInv'
<1>1. /\ fw'[c] = Gone /\ \A d \in Change \ {c} : fw'[d] = fw[d]
      /\ blame \subseteq blame' /\ \A s \in audit' : OneKey(s.rows)
      /\ \A d \in Change : Stays(d)
  BY SuccessOthers
<1>2. CASE fw[c].op = "create"
  BY <1>1, <1>2, SuccessRows, RowsFewer
<1>3. CASE fw[c].op = "delete"
  <2>1. fw[c].row \in Row
    BY <1>3, FwCurrent DEF Formed
  <2>2. fw[c].row.id # 0
    BY <2>1 DEF RowsInv, RequestRows
  <2>3. rows' = {w \in rows : w.id # fw[c].row.id} /\ nextRow' = nextRow
    BY <1>3, SuccessRows
  <2> QED
    BY <1>1, <2>2, <2>3, RowsDrop
<1> QED
  BY <1>2, <1>3, SuccessIs, RowsUpdate, RowsRollback

LEMMA RowsNext == FwTypeInv /\ RowsInv /\ [FirewallNext]_fwVars => RowsInv'
<1> SUFFICES ASSUME FwTypeInv, RowsInv, [FirewallNext]_fwVars PROVE RowsInv'
  OBVIOUS
<1>1. CASE UNCHANGED fwVars
  <2>1. \A c \in Change : Stays(c)
    BY <1>1 DEF fwVars, Stays, RowsInv, RequestRows
  <2>2. rows' = rows /\ nextRow' = nextRow /\ blame' = blame /\ audit' = audit /\ fw' = fw
    BY <1>1 DEF fwVars
  <2> QED
    BY <2>1, <2>2, RowsFewer DEF RowsInv
<1>2. CASE FirewallDies
  BY <1>2, RowsDead
<1>3. ASSUME NEW c \in Change,
             BeginCreate(c) \/ BeginQuick(c) \/ BeginUpdate(c) \/ BeginDelete(c) \/ BeginRollback(c)
      PROVE  RowsInv'
  BY <1>3, BeginFresh, RowsBegin
<1>4. ASSUME NEW c \in Change, InsertAndAdd(c) PROVE RowsInv'
  BY <1>4, RowsInsert
<1>5. ASSUME NEW c \in Change,
             \/ SnapshotHost(c) \/ SnapshotRows(c) \/ SnapshotFails(c)
             \/ SendUpdate(c) \/ SendDelete(c) \/ SendRollback(c)
             \/ HostApplies(c) \/ HostKeepsOld(c) \/ HostRefuses(c) \/ UpdateFails(c)
             \/ RollbackFails(c) \/ ExposeGoesOn(c)
      PROVE  RowsInv'
  BY <1>5, RowsSame
<1>6. ASSUME NEW c \in Change, ChangeFails(c) \/ ChangeTimesOut(c) \/ Succeeds(c) PROVE RowsInv'
  BY <1>6, RowsCompensate, RowsSuccess
<1> QED
  BY <1>1, <1>2, <1>3, <1>4, <1>5, <1>6 DEF FirewallNext

-----------------------------------------------------------------------------
(* The host *)

\* A request has begun to change a key: its row is there, or its command has come back.
Begun(c, k) ==
    fw[c].at = "sent" /\ k \in Keys(fw[c]) /\ (fw[c].op = "create" \/ cmd[c].state = "ok")

Matches(k) == (\E w \in rows : w.key = k /\ w.on) <=> k \in host

\* Shall the host have the key when the request has succeeded?
Wanted(c, k) ==
    \/ fw[c].op = "create"
    \/ fw[c].op = "update" /\ k = fw[c].key /\ fw[c].on
    \/ fw[c].op = "rollback" /\ k \in Taken(c).host

\* The row of a new rule and the command of a request fit the host: what a command has done, or
\* is about to do, is what the request wants, and a command nobody waits for changes nothing but
\* what is to blame.
Fits(c) ==
    /\ fw[c].at = "sent" /\ fw[c].op = "create" /\ fw[c].key \notin blame =>
          /\ fw[c].row \in rows /\ fw[c].row.on
          /\ \A w \in rows : w.key = fw[c].key => w = fw[c].row
          /\ fw[c].key \in host <=> cmd[c].state = "ok"
    /\ fw[c].at = "sent" /\ cmd[c].state = "ok" =>
          \A k \in Keys(fw[c]) \ blame : k \in host <=> Wanted(c, k)
    /\ fw[c].at = "sent" /\ cmd[c].state = "sent" =>
          /\ cmd[c].minus \cup cmd[c].plus \subseteq Keys(fw[c])
          /\ \A k \in Keys(fw[c]) \ blame :
                k \in (host \ cmd[c].minus) \cup cmd[c].plus <=> Wanted(c, k)
    /\ fw[c].at # "sent" /\ cmd[c].state = "sent" => cmd[c].minus \cup cmd[c].plus \subseteq blame

RulesInv ==
    /\ \A c \in Change : Fits(c)
    /\ \A k \in Rule \ blame : (\A c \in Change : ~Begun(c, k)) => Matches(k)

LEMMA RulesInit == FirewallInit => RulesInv
  BY FwValues DEF FirewallInit, RulesInv, Fits, Begun, Matches

\* When no other request is at its keys, a request that has not begun finds the host as the rows
\* say.
LEMMA RulesQuiet ==
    ASSUME FwTypeInv, RowsInv, RulesInv, NEW c \in Change, NEW k \in Keys(fw[c]) \ blame, ~Begun(c, k)
    PROVE  k \in Rule /\ Matches(k)
<1>1. k \in Rule
  BY FwCurrent, KeysOf
<1>2. \A d \in Change : ~Begun(d, k)
  BY Collision DEF Begun
<1> QED
  BY <1>1, <1>2 DEF RulesInv

\* A step of one request, which spares the keys of the others.
LEMMA Local ==
    ASSUME FwTypeInv, RowsInv, RulesInv, NEW c \in Change, Goes(c), blame \subseteq blame',
           Keys(fw'[c]) \subseteq Keys(fw[c]),
           \A k \in Rule \ (blame' \cup Keys(fw[c])) :
              {w \in rows : w.key = k} = {w \in rows' : w.key = k} /\ (k \in host <=> k \in host'),
           Fits(c)',
           \A k \in Keys(fw[c]) \ blame' : Begun(c, k)' \/ Matches(k)'
    PROVE  RulesInv'
<1>1. ASSUME NEW d \in Change \ {c} PROVE Fits(d)'
  <2>1. Fits(d) /\ fw'[d] = fw[d] /\ cmd'[d] = cmd[d]
    BY DEF RulesInv, Goes
  <2>2. \A k \in Keys(fw[d]) \ blame' :
           /\ \A w : (w \in rows /\ w.key = k) <=> (w \in rows' /\ w.key = k)
           /\ k \in host <=> k \in host'
    <3> SUFFICES ASSUME NEW k \in Keys(fw[d]) \ blame'
                 PROVE  /\ \A w : (w \in rows /\ w.key = k) <=> (w \in rows' /\ w.key = k)
                        /\ k \in host <=> k \in host'
      OBVIOUS
    <3>1. k \in Rule
      BY FwCurrent, KeysOf
    <3>2. k \notin Keys(fw[c])
      BY Collision
    <3>3. {w \in rows : w.key = k} = {w \in rows' : w.key = k} /\ (k \in host <=> k \in host')
      BY <3>1, <3>2
    <3> QED
      BY <3>3
  <2>3. \A k : Wanted(d, k)' <=> Wanted(d, k)
    BY <2>1 DEF Wanted, Taken
  <2>4. fw[d].at = "sent" /\ fw[d].op = "create" => fw[d].key \in Keys(fw[d]) /\ fw[d].row.key = fw[d].key
    BY FwCurrent, KeysOf, SMTT(30) DEF Formed
  <2>5. fw'[d].at = "sent" /\ fw'[d].op = "create" /\ fw'[d].key \notin blame' =>
          /\ fw'[d].row \in rows' /\ fw'[d].row.on
          /\ \A w \in rows' : w.key = fw'[d].key => w = fw'[d].row
          /\ fw'[d].key \in host' <=> cmd'[d].state = "ok"
    BY <2>1, <2>2, <2>4 DEF Fits
  <2>6. fw[d].at = "sent" /\ cmd[d].state = "ok" =>
          \A k \in Keys(fw[d]) \ blame' : k \in host' <=> Wanted(d, k)
    BY <2>1, <2>2 DEF Fits
  <2>7. fw[d].at = "sent" /\ cmd[d].state = "sent" =>
          \A k \in Keys(fw[d]) \ blame' :
             k \in (host' \ cmd[d].minus) \cup cmd[d].plus <=> Wanted(d, k)
    BY <2>1, <2>2 DEF Fits
  <2> QED
    BY <2>1, <2>3, <2>5, <2>6, <2>7 DEF Fits
<1>2. ASSUME NEW k \in Rule \ blame', \A d \in Change : ~Begun(d, k)' PROVE Matches(k)'
  <2>1. CASE k \in Keys(fw[c])
    BY <1>2, <2>1
  <2>2. CASE k \notin Keys(fw[c])
    <3>1. \A d \in Change : ~Begun(d, k)
      BY <1>2, <2>2 DEF Begun, Goes
    <3>2. Matches(k)
      BY <3>1 DEF RulesInv
    <3>3. {w \in rows : w.key = k} = {w \in rows' : w.key = k} /\ (k \in host <=> k \in host')
      BY <2>2
    <3>4. (\E w \in rows : w.key = k /\ w.on) <=> (\E w \in rows' : w.key = k /\ w.on)
      BY <3>3
    <3> QED
      BY <3>2, <3>3, <3>4 DEF Matches
  <2> QED
    BY <2>1, <2>2
<1> QED
  BY <1>1, <1>2 DEF RulesInv

LEMMA HostBegin ==
    ASSUME FwTypeInv, RulesInv, NEW c \in Change, NEW r \in Requests, Fresh(r), BeginChange(c, r)
    PROVE  RulesInv'
<1>1. /\ fw[c] = NotBegun /\ fw'[c] = r /\ \A d \in Change \ {c} : fw'[d] = fw[d]
      /\ UNCHANGED <<rows, host, cmd>> /\ blame \subseteq blame'
  BY DEF BeginChange, FwTypeInv, FirewallTypeOK
<1>2. r.at # "sent" /\ cmd[c].state = "none"
  BY <1>1, FwCurrent, FwValues DEF Fresh, Formed
<1>3. \A d \in Change : \A k : Begun(d, k)' <=> Begun(d, k)
  BY <1>1, <1>2, FwValues DEF Begun
<1>4. \A d \in Change : Fits(d)'
  <2> SUFFICES ASSUME NEW d \in Change PROVE Fits(d)'
    OBVIOUS
  <2>1. CASE d = c
    BY <1>1, <1>2, <2>1 DEF Fits
  <2>2. CASE d # c
    <3>1. Fits(d) /\ fw'[d] = fw[d]
      BY <1>1, <2>2 DEF RulesInv
    <3>2. \A k : Wanted(d, k)' <=> Wanted(d, k)
      BY <3>1 DEF Wanted, Taken
    <3> QED
      BY <1>1, <3>1, <3>2 DEF Fits
  <2> QED
    BY <2>1, <2>2
<1>5. \A k : Matches(k)' <=> Matches(k)
  BY <1>1 DEF Matches
<1> QED
  BY <1>1, <1>3, <1>4, <1>5 DEF RulesInv

LEMMA HostDead ==
    ASSUME FwTypeInv, RulesInv, FirewallDies
    PROVE  RulesInv'
<1>1. /\ UNCHANGED <<rows, host>> /\ blame \subseteq blame'
      /\ \A c \in Change : Keys(fw[c]) \subseteq blame'
  BY DEF FirewallDies
<1>2. ASSUME NEW c \in Change PROVE Fits(c)'
  <2>1. Fits(c) /\ fw'[c].at \in {fw[c].at, "over"}
    BY DeadIs, FwValues DEF RulesInv
  <2>2. cmd'[c] = cmd[c] \/ cmd'[c].state = "none"
    BY DeadIs, FwValues
  <2>3. cmd'[c].state = "sent" => cmd'[c] = cmd[c] /\ cmd[c].minus \cup cmd[c].plus \subseteq blame'
    BY <1>1, <2>1, <2>2 DEF Fits
  <2>4. CASE fw'[c] = Gone
    BY <2>3, <2>4, FwValues DEF Fits
  <2>5. CASE fw'[c] = fw[c] /\ Keys(fw[c]) = {}
    <3>1. ~(fw[c].at = "sent" /\ fw[c].op = "create")
      BY <2>5, FwCurrent, KeysOf
    <3>2. cmd'[c].state # "ok"
      BY <2>2, DeadIs, FwValues
    <3> QED
      BY <2>1, <2>3, <2>5, <3>1, <3>2 DEF Fits
  <2> QED
    BY <2>4, <2>5, DeadIs
<1>3. \A k \in Rule \ blame' : Matches(k)'
  <2> SUFFICES ASSUME NEW k \in Rule \ blame' PROVE Matches(k)'
    OBVIOUS
  <2>1. \A c \in Change : ~Begun(c, k)
    BY <1>1 DEF Begun
  <2> QED
    BY <1>1, <2>1 DEF RulesInv, Matches
<1> QED
  BY <1>2, <1>3 DEF RulesInv

LEMMA HostSnapshot ==
    ASSUME FwTypeInv, RowsInv, RulesInv, NEW c \in Change,
           SnapshotHost(c) \/ SnapshotRows(c) \/ SnapshotFails(c)
    PROVE  RulesInv'
<1>1. /\ fw[c].at \in {"checked", "asked"} /\ UNCHANGED <<rows, host, blame, cmd>>
      /\ cmd[c].state = "none"
  BY FwCurrent, FwValues DEF SnapshotHost, SnapshotRows, SnapshotFails, Formed
<1>2. Goes(c) /\ fw'[c].at # "sent" /\ Keys(fw'[c]) \subseteq Keys(fw[c])
  <2>1. CASE SnapshotHost(c) \/ SnapshotRows(c)
    <3>1. PICK r \in Requests :
              /\ fw' = [fw EXCEPT ![c] = r] /\ r.at \in {"asked", "snapped"} /\ r.op = fw[c].op
              /\ r.row = fw[c].row /\ r.key = fw[c].key
      BY <2>1, SnapshotHostIs, SnapshotRowsIs
    <3>2. Keys(r) = Keys(fw[c])
      BY <1>1, <3>1, KeysStay
    <3> QED
      BY <1>1, <3>1, <3>2 DEF Goes, FwTypeInv, FirewallTypeOK
  <2>2. CASE SnapshotFails(c)
    BY <2>2, FailIs, GoneAlone, FwValues
  <2> QED
    BY <2>1, <2>2
<1>3. \A k \in Keys(fw[c]) \ blame' : Matches(k)'
  <2>1. \A k \in Keys(fw[c]) \ blame : Matches(k)
    BY <1>1, RulesQuiet DEF Begun
  <2> QED
    BY <1>1, <2>1 DEF Matches
<1>4. Fits(c)'
  BY <1>1, <1>2 DEF Fits
<1> QED
  BY <1>1, <1>2, <1>3, <1>4, Local

LEMMA HostInsert ==
    ASSUME FwTypeInv, RowsInv, RulesInv, NEW c \in Change, InsertAndAdd(c)
    PROVE  RulesInv'
<1> DEFINE new == fw'[c].row
           k   == fw[c].key
<1>1. /\ Goes(c) /\ new \in Row /\ new.key = k /\ new.on = TRUE /\ k \in Rule
      /\ fw[c].at = "snapped" /\ fw[c].op = "create"
      /\ fw'[c].at = "sent" /\ fw'[c].op = "create" /\ fw'[c].key = k
      /\ cmd'[c].state = "sent" /\ cmd'[c].minus = {} /\ cmd'[c].plus = {k}
      /\ rows' = rows \cup {new} /\ host' = host
      /\ blame \subseteq blame' /\ (RowsOf(k) # {} => k \in blame')
  BY InsertIs
<1>2. Keys(fw[c]) = {k} /\ Keys(fw'[c]) = {k}
  <2>1. FwTypeInv'
    BY InsertFwType
  <2>2. Formed(fw[c], cmd[c]) /\ fw[c] \in Requests
    BY FwCurrent
  <2>3. Keys(fw[c]) = {k}
    BY <1>1, <2>2, KeysOf
  <2>4. fw'[c] \in Requests /\ Formed(fw'[c], cmd'[c])
    BY <2>1 DEF FwTypeInv, FirewallTypeOK
  <2>5. Keys(fw'[c]) = {k}
    BY <1>1, <2>4, KeysOf
  <2> QED
    BY <2>3, <2>5
<1>3. k \notin blame' => k \notin host /\ \A w \in rows : w.key # k
  <2> SUFFICES ASSUME k \notin blame' PROVE k \notin host /\ \A w \in rows : w.key # k
    OBVIOUS
  <2>1. \A w \in rows : w.key # k
    BY <1>1 DEF RowsOf
  <2>2. Matches(k)
    BY <1>1, <1>2, RulesQuiet DEF Begun
  <2> QED
    BY <2>1, <2>2 DEF Matches
<1>4. \A j \in Keys(fw[c]) \ blame' : Begun(c, j)'
  BY <1>1, <1>2 DEF Begun
<1>5. Fits(c)'
  <2>1. \A j : Wanted(c, j)'
    BY <1>1 DEF Wanted
  <2>2. /\ new \in rows' /\ new.on /\ (k \notin blame' => k \notin host')
        /\ k \notin blame' => \A w \in rows' : w.key = k => w = new
    BY <1>1, <1>3
  <2> QED
    BY <1>1, <1>2, <2>1, <2>2 DEF Fits
<1> HIDE DEF new, k
<1>6. \A j \in Rule \ (blame' \cup Keys(fw[c])) :
         {w \in rows : w.key = j} = {w \in rows' : w.key = j} /\ (j \in host <=> j \in host')
  BY <1>1, <1>2
<1> QED
  BY <1>1, <1>2, <1>4, <1>5, <1>6, Local

\* What the rows say of the keys of an update or a delete which are not to blame.
LEMMA RowThere ==
    ASSUME FwTypeInv, RowsInv, NEW c \in Change, fw[c].op \in {"update", "delete"},
           fw[c].at \notin {"idle", "over"}, NEW k \in Keys(fw[c]) \ blame
    PROVE  /\ fw[c].row \in rows /\ fw[c].row \in Row /\ fw[c].row.id # 0
           /\ k = fw[c].row.key \/ (fw[c].op = "update" /\ k = fw[c].key)
           /\ \A w \in rows : w.key = k => w = fw[c].row
           /\ \A w \in rows : w.id = fw[c].row.id => w = fw[c].row
<1>1. fw[c].row \in Row
  BY FwCurrent DEF Formed
<1>2. fw[c].row.id # 0 /\ fw[c].row \in rows
  BY <1>1 DEF RowsInv, RequestRows
<1>3. k = fw[c].row.key \/ (fw[c].op = "update" /\ k = fw[c].key)
  BY FwCurrent, KeysOf
<1>4. \A w \in rows : w.key = k => w = fw[c].row
  <2>1. CASE k = fw[c].row.key
    BY <1>2, <2>1 DEF RowsInv, OneKey
  <2>2. CASE fw[c].op = "update" /\ k = fw[c].key
    BY <2>2 DEF RowsInv, RequestRows
  <2> QED
    BY <1>3, <2>1, <2>2
<1>5. \A w \in rows : w.id = fw[c].row.id => w = fw[c].row
  BY <1>2 DEF RowsInv
<1> QED
  BY <1>1, <1>2, <1>3, <1>4, <1>5

LEMMA HostCommand ==
    ASSUME FwTypeInv, RowsInv, RulesInv, NEW c \in Change,
           SendUpdate(c) \/ SendDelete(c) \/ SendRollback(c)
    PROVE  RulesInv'
<1>1. /\ GoesOn(c) /\ fw[c].at = "snapped" /\ fw'[c].at = "sent"
      /\ fw[c].op \in {"update", "delete", "rollback"}
      /\ CommandOf(fw[c], Taken(c), cmd'[c])
      /\ UNCHANGED <<rows, host, blame>>
  BY CommandIs
<1>2. Keys(fw'[c]) = Keys(fw[c]) /\ (\A k : Wanted(c, k)' <=> Wanted(c, k))
  BY <1>1, KeysStay DEF GoesOn, Wanted, Taken
<1>3. \A k \in Keys(fw[c]) \ blame : k \in Rule /\ Matches(k)
  BY <1>1, RulesQuiet DEF Begun
<1>4. cmd'[c].state = "ok" => \A k \in Keys(fw[c]) \ blame : k \in host <=> Wanted(c, k)
  <2> SUFFICES ASSUME cmd'[c].state = "ok", NEW k \in Keys(fw[c]) \ blame
               PROVE  k \notin host /\ ~Wanted(c, k)
    OBVIOUS
  <2>1. /\ fw[c].op \in {"update", "delete"} /\ ~fw[c].row.on
        /\ fw[c].op = "update" => ~fw[c].on
    BY <1>1 DEF CommandOf
  <2>2. \A w \in rows : w.key = k => w = fw[c].row
    BY <1>1, <2>1, RowThere
  <2> QED
    BY <1>3, <2>1, <2>2 DEF Matches, Wanted
<1>5. cmd'[c].state = "sent" =>
         /\ cmd'[c].minus \cup cmd'[c].plus \subseteq Keys(fw[c])
         /\ \A k \in Keys(fw[c]) \ blame :
               k \in (host \ cmd'[c].minus) \cup cmd'[c].plus <=> Wanted(c, k)
  <2> SUFFICES ASSUME cmd'[c].state = "sent"
               PROVE  /\ cmd'[c].minus \cup cmd'[c].plus \subseteq Keys(fw[c])
                      /\ \A k \in Keys(fw[c]) \ blame :
                            k \in (host \ cmd'[c].minus) \cup cmd'[c].plus <=> Wanted(c, k)
    OBVIOUS
  <2>1. CASE fw[c].op = "rollback"
    <3>1. Keys(fw[c]) = Rule /\ Taken(c).host \in SUBSET Rule
      BY <1>1, <2>1, FwCurrent, KeysOf, TakenIs
    <3>2. cmd'[c].minus = Rule /\ cmd'[c].plus = Taken(c).host
      BY <1>1, <2>1 DEF CommandOf
    <3> QED
      BY <2>1, <3>1, <3>2 DEF Wanted
  <2>2. CASE fw[c].op = "delete"
    <3>1. Keys(fw[c]) = {fw[c].row.key} /\ cmd'[c].minus = {fw[c].row.key} /\ cmd'[c].plus = {}
      BY <1>1, <2>2, FwCurrent, KeysOf DEF CommandOf
    <3> QED
      BY <2>2, <3>1 DEF Wanted
  <2>3. CASE fw[c].op = "update"
    <3>1. /\ Keys(fw[c]) = {fw[c].row.key, fw[c].key}
          /\ cmd'[c].minus = IF fw[c].row.on THEN {fw[c].row.key} ELSE {}
          /\ cmd'[c].plus = IF fw[c].on THEN {fw[c].key} ELSE {}
      BY <1>1, <2>3, FwCurrent, KeysOf DEF CommandOf
    <3>2. ASSUME NEW k \in Keys(fw[c]) \ blame
          PROVE  k \in (host \ cmd'[c].minus) \cup cmd'[c].plus <=> (k = fw[c].key /\ fw[c].on)
      <4>1. Matches(k) /\ \A w \in rows : w.key = k => w = fw[c].row
        BY <1>1, <1>3, <2>3, RowThere
      <4>2. CASE k = fw[c].key /\ fw[c].on
        BY <3>1, <4>2
      <4>3. CASE ~(k = fw[c].key /\ fw[c].on)
        <5>1. k \in host => fw[c].row.on /\ k = fw[c].row.key
          BY <4>1 DEF Matches
        <5> QED
          BY <3>1, <4>3, <5>1
      <4> QED
        BY <4>2, <4>3
    <3>3. \A k : Wanted(c, k) <=> (k = fw[c].key /\ fw[c].on)
      BY <2>3 DEF Wanted
    <3> QED
      BY <3>1, <3>2, <3>3
  <2> QED
    BY <1>1, <2>1, <2>2, <2>3
<1>6. Fits(c)'
  <2>1. fw'[c].op # "create"
    BY <1>1 DEF GoesOn
  <2> QED
    BY <1>1, <1>2, <1>4, <1>5, <2>1 DEF Fits
<1>7. \A k \in Keys(fw[c]) \ blame' : Matches(k)'
  BY <1>1, <1>3 DEF Matches
<1> QED
  BY <1>1, <1>2, <1>6, <1>7, Local DEF GoesOn

\* Outside blame a command that succeeds has done what it was sent for, and one that fails nothing.
LEMMA AgentDoes ==
    ASSUME FwTypeInv, NEW c \in Change,
           HostApplies(c) \/ HostKeepsOld(c) \/ HostRefuses(c) \/ UpdateFails(c) \/ RollbackFails(c),
           NEW k \in Rule \ blame'
    PROVE  \/ /\ HostApplies(c) \/ HostKeepsOld(c)
              /\ k \in host' <=> k \in (host \ cmd[c].minus) \cup cmd[c].plus
           \/ /\ HostRefuses(c) \/ UpdateFails(c)
              /\ k \in host' <=> k \in host
<1>1. ~RollbackFails(c)
  BY DEF RollbackFails
<1>2. CASE HostApplies(c)
  BY <1>2 DEF HostApplies
<1>3. CASE HostKeepsOld(c)
  BY <1>3 DEF HostKeepsOld
<1>4. CASE HostRefuses(c)
  BY <1>4 DEF HostRefuses
<1>5. CASE UpdateFails(c)
  BY <1>5 DEF UpdateFails
<1> QED
  BY <1>1, <1>2, <1>3, <1>4, <1>5

LEMMA HostAgent ==
    ASSUME FwTypeInv, RowsInv, RulesInv, NEW c \in Change,
           HostApplies(c) \/ HostKeepsOld(c) \/ HostRefuses(c) \/ UpdateFails(c) \/ RollbackFails(c)
    PROVE  RulesInv'
<1>1. /\ fw' = fw /\ Goes(c) /\ cmd[c].state = "sent" /\ fw[c].at \in {"sent", "over"}
      /\ fw[c].at = "sent" => cmd'[c].state \in {"ok", "error"}
      /\ fw[c].at = "over" => cmd'[c] = NoCommand
      /\ blame \subseteq blame' /\ rows' = rows /\ blame' \in SUBSET Rule
  BY AgentIs
<1>2. Fits(c)
  BY DEF RulesInv
<1>3. \A k \in Rule \ (blame' \cup Keys(fw[c])) : k \in host <=> k \in host'
  <2> SUFFICES ASSUME NEW k \in Rule \ (blame' \cup Keys(fw[c])) PROVE k \in host <=> k \in host'
    OBVIOUS
  <2>1. k \notin cmd[c].minus \cup cmd[c].plus
    BY <1>1, <1>2 DEF Fits
  <2> QED
    BY <2>1, AgentDoes
<1>4. Keys(fw[c]) \subseteq Rule
  BY FwCurrent, KeysOf
<1>5. CASE fw[c].at = "over"
  <2>1. Keys(fw[c]) = {}
    BY <1>5, FwCurrent, KeysOf
  <2>2. Fits(c)'
    BY <1>1, <1>5, FwValues DEF Fits
  <2> QED
    BY <1>1, <1>3, <2>1, <2>2, Local
<1>6. CASE fw[c].at = "sent" /\ (HostApplies(c) \/ HostKeepsOld(c))
  <2>1. cmd'[c].state = "ok"
    BY <1>6, AnswerIs DEF HostApplies, HostKeepsOld
  <2>2. \A k : Wanted(c, k)' <=> Wanted(c, k)
    BY <1>1 DEF Wanted, Taken
  <2>3. \A k \in Keys(fw[c]) \ blame' : k \in host' <=> Wanted(c, k)
    <3> SUFFICES ASSUME NEW k \in Keys(fw[c]) \ blame' PROVE k \in host' <=> Wanted(c, k)
      OBVIOUS
    <3>1. k \in host' <=> k \in (host \ cmd[c].minus) \cup cmd[c].plus
      <4>1. ~HostRefuses(c) /\ ~UpdateFails(c)
        BY <1>6, <2>1, AnswerIs DEF HostRefuses, UpdateFails
      <4> QED
        BY <1>4, <4>1, AgentDoes
    <3> QED
      BY <1>1, <1>2, <1>6, <3>1 DEF Fits
  <2>4. fw[c].op = "create" /\ fw[c].key \notin blame' =>
          /\ fw[c].row \in rows /\ fw[c].row.on
          /\ \A w \in rows : w.key = fw[c].key => w = fw[c].row
          /\ fw[c].key \in host'
    <3>1. fw[c].op = "create" => fw[c].key \in Keys(fw[c]) /\ Wanted(c, fw[c].key)
      BY <1>6, FwCurrent, KeysOf DEF Wanted
    <3> QED
      BY <1>1, <1>2, <1>6, <2>3, <3>1 DEF Fits
  <2>5. Fits(c)'
    BY <1>1, <1>6, <2>1, <2>2, <2>3, <2>4 DEF Fits
  <2>6. \A k \in Keys(fw[c]) \ blame' : Begun(c, k)'
    BY <1>1, <1>6, <2>1 DEF Begun
  <2> QED
    BY <1>1, <1>3, <2>5, <2>6, Local
<1>7. CASE fw[c].at = "sent" /\ (HostRefuses(c) \/ UpdateFails(c) \/ RollbackFails(c))
  <2>1. cmd'[c].state = "error"
    BY <1>7, AnswerIs DEF HostRefuses, UpdateFails, RollbackFails
  <2>2. \A k \in Rule \ blame' : k \in host' <=> k \in host
    <3> SUFFICES ASSUME NEW k \in Rule \ blame' PROVE k \in host' <=> k \in host
      OBVIOUS
    <3>1. ~HostApplies(c) /\ ~HostKeepsOld(c)
      BY <1>7, <2>1, AnswerIs DEF HostApplies, HostKeepsOld
    <3> QED
      BY <3>1, AgentDoes
  <2>3. fw[c].op = "create" /\ fw[c].key \notin blame' =>
          /\ fw[c].row \in rows /\ fw[c].row.on
          /\ \A w \in rows : w.key = fw[c].key => w = fw[c].row
          /\ fw[c].key \notin host'
    <3>1. fw[c].op = "create" => fw[c].key \in Rule
      BY FwCurrent DEF Formed
    <3> QED
      BY <1>1, <1>2, <1>7, <2>2, <3>1 DEF Fits
  <2>4. Fits(c)'
    BY <1>1, <1>7, <2>1, <2>3 DEF Fits
  <2>5. \A k \in Keys(fw[c]) \ blame' : Begun(c, k)' \/ Matches(k)'
    <3> SUFFICES ASSUME NEW k \in Keys(fw[c]) \ blame', fw[c].op # "create" PROVE Matches(k)'
      BY <1>1, <1>7 DEF Begun
    <3>1. ~Begun(c, k)
      BY <1>1 DEF Begun
    <3>2. Matches(k)
      BY <1>1, <3>1, RulesQuiet
    <3> QED
      BY <1>1, <1>4, <2>2, <3>2 DEF Matches
  <2> QED
    BY <1>1, <1>3, <2>4, <2>5, Local
<1> QED
  BY <1>1, <1>5, <1>6, <1>7

\* The row that is taken back is spared by no other request, unless it is to blame.
LEMMA RowsOfOthers ==
    ASSUME FwTypeInv, RowsInv, NEW c \in Change, fw[c].at = "sent",
           fw[c].op \in {"create", "delete"}, rows' = {w \in rows : w.id # fw[c].row.id},
           NEW k \in Rule \ (blame \cup Keys(fw[c]))
    PROVE  {w \in rows : w.key = k} = {w \in rows' : w.key = k}
<1>1. fw[c].row \in Row /\ fw[c].row.key \in Keys(fw[c])
  BY FwCurrent, KeysOf DEF Formed
<1>2. \A w \in rows : w.id = fw[c].row.id => w.key # k
  BY <1>1 DEF RowsInv, RequestRows
<1> QED
  BY <1>2

LEMMA HostFails ==
    ASSUME FwTypeInv, RowsInv, RulesInv, NEW c \in Change, ChangeFails(c)
    PROVE  RulesInv'
<1>1. /\ Goes(c) /\ fw'[c] = Gone /\ cmd'[c] = NoCommand /\ UNCHANGED <<host, blame>>
      /\ fw[c].at = "sent" /\ cmd[c].state = "error" /\ Compensate(c)
  BY FailIs DEF ChangeFails
<1>2. Fits(c)' /\ Keys(fw'[c]) = {}
  BY <1>1, GoneAlone, FwValues DEF Fits
<1>3. \A k \in Rule \ (blame' \cup Keys(fw[c])) : {w \in rows : w.key = k} = {w \in rows' : w.key = k}
  BY <1>1, RowsOfOthers DEF Compensate
<1>4. \A k \in Keys(fw[c]) \ blame' : Matches(k)'
  <2> SUFFICES ASSUME NEW k \in Keys(fw[c]) \ blame' PROVE Matches(k)'
    OBVIOUS
  <2>1. CASE fw[c].op = "create"
    <3>1. k = fw[c].key
      BY <1>1, <2>1, FwCurrent, KeysOf
    <3>2. k \notin host /\ \A w \in rows : w.key = k => w = fw[c].row
      BY <1>1, <2>1, <3>1 DEF RulesInv, Fits
    <3>3. \A w \in rows' : w.key # k
      BY <1>1, <2>1, <3>2 DEF Compensate
    <3> QED
      BY <1>1, <3>2, <3>3 DEF Matches
  <2>2. CASE fw[c].op # "create"
    <3>1. Matches(k)
      BY <1>1, <2>2, RulesQuiet DEF Begun
    <3> QED
      BY <1>1, <2>2, <3>1 DEF Matches, Compensate
  <2> QED
    BY <2>1, <2>2
<1> QED
  BY <1>1, <1>2, <1>3, <1>4, Local

LEMMA HostGivesUp ==
    ASSUME FwTypeInv, RowsInv, RulesInv, NEW c \in Change, ChangeTimesOut(c) \/ ExposeGoesOn(c)
    PROVE  RulesInv'
<1>1. /\ Goes(c) /\ fw[c].at = "sent" /\ fw'[c] = Gone /\ host' = host
      /\ cmd'[c] = NoCommand \/ (cmd'[c] = cmd[c] /\ cmd[c].state = "sent")
      /\ blame' = blame \cup Keys(fw[c])
      /\ Compensate(c) \/ rows' = rows
  BY GivesUpIs DEF ChangeTimesOut, ExposeGoesOn
<1>2. Keys(fw'[c]) = {} /\ fw'[c].at = "over"
  BY <1>1, GoneAlone, FwValues
<1>3. Fits(c)'
  <2>1. cmd[c].state = "sent" => cmd[c].minus \cup cmd[c].plus \subseteq Keys(fw[c])
    BY <1>1 DEF RulesInv, Fits
  <2> QED
    BY <1>1, <1>2, <2>1, FwValues DEF Fits
<1>4. \A k \in Rule \ (blame' \cup Keys(fw[c])) : {w \in rows : w.key = k} = {w \in rows' : w.key = k}
  BY <1>1, RowsOfOthers DEF Compensate
<1>5. Keys(fw[c]) \ blame' = {}
  BY <1>1
<1> QED
  BY <1>1, <1>2, <1>3, <1>4, <1>5, Local

\* A snapshot knows of no rule the host had not, and its rows are those the host had, but for
\* the keys somebody was at.
Sound(s, except) ==
    /\ \A k \in Rule \ (blame \cup except) : (\E w \in s.rows : w.key = k /\ w.on) <=> k \in s.was
    /\ s.host \subseteq s.was

\* What a request has seen, but for what others touched since it began.
Seen(c) ==
    /\ fw[c].at \notin {"idle", "over"} => Others(c) \subseteq met[c]
    /\ fw[c].at = "asked" =>
          \A s \in fw[c].snapshot :
             /\ \A k \in Rule \ (blame \cup met[c]) : k \in s.was <=> k \in host
             /\ s.host \subseteq s.was
    /\ fw[c].at \in {"snapped", "sent"} =>
          \A s \in fw[c].snapshot : Sound(s, IF fw[c].op = "rollback" THEN s.met ELSE met[c])

SeenInv ==
    /\ \A s \in audit : Sound(s, s.met)
    /\ \A c \in Change : Seen(c)

\* The rows after an update, by key.
LEMMA UpdatedRows ==
    ASSUME FwTypeInv, RowsInv, NEW c \in Change, Succeeds(c), fw[c].op = "update", NEW k \in Rule \ blame
    PROVE  /\ k \notin Keys(fw[c]) => {w \in rows : w.key = k} = {w \in rows' : w.key = k}
           /\ k \in Keys(fw[c]) =>
                 ((\E w \in rows' : w.key = k /\ w.on) <=> (k = fw[c].key /\ fw[c].on))
<1>1. /\ rows' = {RowUpdated(c, w) : w \in rows}
      /\ \A w \in rows : /\ w.id = fw[c].row.id =>
                               RowUpdated(c, w).key = fw[c].key /\ RowUpdated(c, w).on = fw[c].on
                         /\ w.id # fw[c].row.id => RowUpdated(c, w) = w
  BY SuccessRows, UpdatedIs
<1>2. /\ fw[c].at = "sent" /\ fw[c].row \in Row /\ fw[c].key \in Rule
      /\ Keys(fw[c]) = {fw[c].row.key, fw[c].key}
  BY SuccessIs, FwCurrent, KeysOf DEF Formed
<1>3. ASSUME k \notin Keys(fw[c])
      PROVE  {w \in rows : w.key = k} = {w \in rows' : w.key = k}
  <2>1. \A w \in rows : w.key = k => w.id # fw[c].row.id
    BY <1>2, <1>3 DEF RowsInv, RequestRows
  <2>2. \A w \in rows : w.key = k => w \in rows'
    BY <1>1, <2>1
  <2>3. \A w \in rows : RowUpdated(c, w).key = k => RowUpdated(c, w) = w
    BY <1>1, <1>2, <1>3
  <2> QED
    BY <1>1, <2>2, <2>3
<1>4. ASSUME k \in Keys(fw[c])
      PROVE  (\E w \in rows' : w.key = k /\ w.on) <=> (k = fw[c].key /\ fw[c].on)
  <2>1. /\ fw[c].row \in rows /\ \A w \in rows : w.key = k => w = fw[c].row
    BY <1>2, <1>4, RowThere
  <2>2. RowUpdated(c, fw[c].row) \in rows' /\ RowUpdated(c, fw[c].row).key = fw[c].key
        /\ RowUpdated(c, fw[c].row).on = fw[c].on
    BY <1>1, <2>1
  <2>3. ASSUME NEW w \in rows, RowUpdated(c, w).key = k PROVE w.id = fw[c].row.id /\ k = fw[c].key
    <3>1. w.id = fw[c].row.id
      BY <1>1, <2>1, <2>3
    <3> QED
      BY <1>1, <2>3, <3>1
  <2>4. CASE k = fw[c].key
    BY <1>1, <2>2, <2>3, <2>4
  <2>5. CASE k # fw[c].key
    BY <1>1, <2>3, <2>5
  <2> QED
    BY <2>4, <2>5
<1> QED
  BY <1>3, <1>4

LEMMA HostSuccess ==
    ASSUME FwTypeInv, RowsInv, RulesInv, SeenInv, NEW c \in Change, Succeeds(c)
    PROVE  RulesInv'
<1>1. /\ Goes(c) /\ fw[c].at = "sent" /\ cmd[c].state = "ok"
      /\ fw[c].op \in {"create", "update", "delete", "rollback"}
      /\ fw'[c] = Gone /\ cmd'[c] = NoCommand /\ host' = host
  BY SuccessIs
<1>2. blame \subseteq blame' /\ Keys(fw'[c]) = {} /\ Fits(c)'
  BY <1>1, GoneAlone, FwValues DEF Succeeds, Fits
<1>3. Keys(fw[c]) \subseteq Rule
  BY FwCurrent, KeysOf
<1>4. \A k \in Keys(fw[c]) \ blame : k \in host <=> Wanted(c, k)
  BY <1>1 DEF RulesInv, Fits
<1>5. CASE fw[c].op = "create"
  <2>1. rows' = rows
    BY <1>5, SuccessRows
  <2>2. Keys(fw[c]) = {fw[c].key} /\ fw[c].row.key = fw[c].key
    BY <1>1, <1>5, FwCurrent, KeysOf DEF Formed
  <2>3. fw[c].key \notin blame => fw[c].row \in rows /\ fw[c].row.on /\ fw[c].key \in host
    BY <1>1, <1>5 DEF RulesInv, Fits
  <2>4. \A k \in Keys(fw[c]) \ blame' : Matches(k)'
    BY <1>1, <1>2, <2>1, <2>2, <2>3 DEF Matches
  <2> QED
    BY <1>1, <1>2, <2>1, <2>4, Local
<1>6. CASE fw[c].op = "update"
  <2>1. \A k \in Rule \ (blame' \cup Keys(fw[c])) :
           {w \in rows : w.key = k} = {w \in rows' : w.key = k}
    BY <1>2, <1>6, UpdatedRows
  <2>2. \A k \in Keys(fw[c]) \ blame' : Matches(k)'
    <3> SUFFICES ASSUME NEW k \in Keys(fw[c]) \ blame' PROVE Matches(k)'
      OBVIOUS
    <3>1. (\E w \in rows' : w.key = k /\ w.on) <=> (k = fw[c].key /\ fw[c].on)
      BY <1>2, <1>3, <1>6, UpdatedRows
    <3>2. k \in host <=> (k = fw[c].key /\ fw[c].on)
      BY <1>2, <1>4, <1>6 DEF Wanted
    <3> QED
      BY <1>1, <3>1, <3>2 DEF Matches
  <2> QED
    BY <1>1, <1>2, <2>1, <2>2, Local
<1>7. CASE fw[c].op = "delete"
  <2>1. rows' = {w \in rows : w.id # fw[c].row.id}
    BY <1>7, SuccessRows
  <2>2. \A k \in Rule \ (blame' \cup Keys(fw[c])) :
           {w \in rows : w.key = k} = {w \in rows' : w.key = k}
    BY <1>1, <1>2, <1>7, <2>1, RowsOfOthers
  <2>3. \A k \in Keys(fw[c]) \ blame' : Matches(k)'
    <3> SUFFICES ASSUME NEW k \in Keys(fw[c]) \ blame' PROVE Matches(k)'
      OBVIOUS
    <3>1. \A w \in rows : w.key = k => w = fw[c].row
      BY <1>1, <1>2, <1>7, RowThere
    <3>2. k \notin host
      BY <1>2, <1>4, <1>7 DEF Wanted
    <3> QED
      BY <1>1, <2>1, <3>1, <3>2 DEF Matches
  <2> QED
    BY <1>1, <1>2, <2>2, <2>3, Local
<1>8. CASE fw[c].op = "rollback"
  <2> DEFINE s == Taken(c)
  <2>1. /\ s \in Snapshot /\ s \in fw[c].snapshot /\ s.rows \in SUBSET Row
        /\ IsFiniteSet(s.rows) /\ nextRow \in Nat
    BY <1>1, TakenIs DEF FwTypeInv, FirewallTypeOK
  <2>2. Sound(s, s.met)
    BY <1>1, <1>8, <2>1 DEF SeenInv, Seen
  <2>3. rows' = Recreated(s.rows)
    BY <1>8, SuccessRows
  <2>4. blame' = blame \cup RollbackBlame(s)
    BY <1>8 DEF Succeeds
  <2>5. Keys(fw[c]) = Rule
    BY <1>1, <1>8, FwCurrent, KeysOf
  <2>6. \A k \in Rule \ blame : k \in host <=> k \in s.host
    BY <1>4, <1>8, <2>5 DEF Wanted
  <2> DEFINE old == s.rows
  <2>7. /\ \A w \in rows' : w.on = TRUE /\ \E x \in old : x.key = w.key
        /\ \A x \in old : \E w \in rows' : w.key = x.key
    <3> HIDE DEF old
    <3>1. rows' = Recreated(old) /\ old \in SUBSET Row /\ IsFiniteSet(old)
      BY <2>1, <2>3 DEF old
    <3> QED
      BY <2>1, <3>1, RecreatedIs
  <2> HIDE DEF s
  <2>8. \A k \in Keys(fw[c]) \ blame' : Matches(k)'
    <3> SUFFICES ASSUME NEW k \in Rule \ blame' PROVE Matches(k)'
      BY <2>5
    <3>1. k \notin blame /\ k \notin s.met /\ k \notin s.was \ s.host /\ \A x \in old : x.key = k => x.on
      BY <2>4 DEF RollbackBlame
    <3>2. (\E w \in rows' : w.key = k /\ w.on) <=> (\E x \in old : x.key = k)
      BY <2>7
    <3>3. (\E x \in old : x.key = k) <=> k \in s.host
      BY <2>2, <3>1 DEF Sound
    <3> QED
      BY <1>1, <2>6, <3>1, <3>2, <3>3 DEF Matches
  <2> QED
    BY <1>1, <1>2, <2>5, <2>8, Local
<1> QED
  BY <1>1, <1>5, <1>6, <1>7, <1>8

LEMMA HostNext == FwTypeInv /\ RowsInv /\ RulesInv /\ SeenInv /\ [FirewallNext]_fwVars => RulesInv'
<1> SUFFICES ASSUME FwTypeInv, RowsInv, RulesInv, SeenInv, [FirewallNext]_fwVars PROVE RulesInv'
  OBVIOUS
<1>1. CASE UNCHANGED fwVars
  BY <1>1 DEF fwVars, RulesInv, Fits, Begun, Matches, Wanted, Taken
<1>2. CASE FirewallDies
  BY <1>2, HostDead
<1>3. ASSUME NEW c \in Change,
             BeginCreate(c) \/ BeginQuick(c) \/ BeginUpdate(c) \/ BeginDelete(c) \/ BeginRollback(c)
      PROVE  RulesInv'
  BY <1>3, BeginFresh, HostBegin
<1>4. ASSUME NEW c \in Change,
             \/ SnapshotHost(c) \/ SnapshotRows(c) \/ SnapshotFails(c)
             \/ InsertAndAdd(c) \/ SendUpdate(c) \/ SendDelete(c) \/ SendRollback(c)
      PROVE  RulesInv'
  BY <1>4, HostSnapshot, HostInsert, HostCommand
<1>5. ASSUME NEW c \in Change,
             \/ HostApplies(c) \/ HostKeepsOld(c) \/ HostRefuses(c) \/ UpdateFails(c)
             \/ RollbackFails(c)
      PROVE  RulesInv'
  BY <1>5, HostAgent
<1>6. ASSUME NEW c \in Change,
             ChangeFails(c) \/ ChangeTimesOut(c) \/ ExposeGoesOn(c) \/ Succeeds(c)
      PROVE  RulesInv'
  BY <1>6, HostFails, HostGivesUp, HostSuccess
<1> QED
  BY <1>1, <1>2, <1>3, <1>4, <1>5, <1>6 DEF FirewallNext

-----------------------------------------------------------------------------
(* The snapshots *)

LEMMA SeenInit == FirewallInit => SeenInv
  BY FwValues DEF FirewallInit, SeenInv, Seen

LEMMA SoundMore ==
    ASSUME NEW s, NEW t, NEW E, NEW F, Sound(s, E), E \subseteq F, blame \subseteq blame',
           t.host = s.host, t.was = s.was, t.rows = s.rows
    PROVE  Sound(t, F)'
  BY DEF Sound

\* A step of one request that spares the keys of the others.
LEMMA SeenKept ==
    ASSUME SeenInv, NEW c \in Change, blame \subseteq blame',
           \A d \in Change \ {c} : fw'[d] = fw[d] /\ met'[d] = met[d],
           Keys(fw'[c]) \subseteq Keys(fw[c]),
           \A k \in Rule \ (blame' \cup Keys(fw[c])) : k \in host <=> k \in host',
           Seen(c)', \A s \in audit' : Sound(s, s.met)'
    PROVE  SeenInv'
<1>1. ASSUME NEW d \in Change \ {c} PROVE Seen(d)'
  <2>1. Seen(d) /\ fw'[d] = fw[d] /\ met'[d] = met[d]
    BY DEF SeenInv
  <2>2. Others(d)' \subseteq Others(d)
    BY DEF Others
  <2>3. fw[d].at = "asked" =>
           \A s \in fw[d].snapshot :
              \A k \in Rule \ (blame' \cup met[d]) : k \in s.was <=> k \in host'
    <3> SUFFICES ASSUME fw[d].at = "asked", NEW s \in fw[d].snapshot,
                        NEW k \in Rule \ (blame' \cup met[d])
                 PROVE  k \in s.was <=> k \in host'
      OBVIOUS
    <3>1. Keys(fw[c]) \subseteq Others(d)
      BY DEF Others
    <3>2. k \notin Keys(fw[c])
      BY <2>1, <3>1 DEF Seen
    <3> QED
      BY <2>1, <3>2 DEF Seen
  <2>4. fw[d].at \in {"snapped", "sent"} =>
           \A s \in fw[d].snapshot : Sound(s, IF fw[d].op = "rollback" THEN s.met ELSE met[d])'
    BY <2>1, SoundMore DEF Seen, Sound
  <2> QED
    BY <2>1, <2>2, <2>3, <2>4 DEF Seen
<1> QED
  BY <1>1 DEF SeenInv

LEMMA SeenBegin ==
    ASSUME FwTypeInv, SeenInv, NEW c \in Change, NEW r \in Requests, Fresh(r), BeginChange(c, r)
    PROVE  SeenInv'
<1>1. /\ fw'[c] = r /\ \A d \in Change \ {c} : fw'[d] = fw[d]
      /\ UNCHANGED <<host, audit>> /\ blame \subseteq blame'
  BY DEF BeginChange, FwTypeInv, FirewallTypeOK
<1>5. /\ met'[c] = Others(c)
      /\ \A d \in Change \ {c} : met[d] \subseteq met'[d]
                                 /\ (Keys(fw[d]) # {} => Keys(r) \subseteq met'[d])
  <2>1. met' = [d \in Change |-> CASE d = c -> Others(c)
                                  [] Keys(fw[d]) # {} -> met[d] \cup Keys(r)
                                  [] OTHER -> met[d]]
    BY DEF BeginChange
  <2>2. met'[c] = Others(c)
    <3>1. CASE Keys(fw[c]) # {}
      <4>1. fw[c] = NotBegun
        BY DEF BeginChange
      <4> QED
        BY <3>1, <4>1, GoneAlone
    <3>2. CASE Keys(fw[c]) = {}
      BY <2>1, <3>2
    <3> QED
      BY <3>1, <3>2
  <2>3. ASSUME NEW d \in Change \ {c}
        PROVE  met[d] \subseteq met'[d] /\ (Keys(fw[d]) # {} => Keys(r) \subseteq met'[d])
    <3>1. CASE Keys(fw[d]) # {}
      BY <2>1, <3>1
    <3>2. CASE Keys(fw[d]) = {}
      BY <2>1, <3>2
    <3> QED
      BY <3>1, <3>2
  <2> QED
    BY <2>2, <2>3
<1>2. \A s \in audit' : Sound(s, s.met)'
  BY <1>1 DEF SeenInv, Sound
<1>3. Seen(c)'
  <2>1. Others(c)' = Others(c)
    BY <1>1 DEF Others
  <2>2. r.at \in {"checked", "snapped"} /\ (r.at = "snapped" => r.op = "rollback" /\ r.snapshot = audit)
    BY DEF Fresh
  <2> QED
    BY <1>1, <1>2, <1>5, <2>1, <2>2 DEF Seen
<1>4. ASSUME NEW d \in Change \ {c} PROVE Seen(d)'
  <2>1. Seen(d) /\ fw'[d] = fw[d] /\ met[d] \subseteq met'[d]
    BY <1>1, <1>5 DEF SeenInv
  <2>2. fw[d].at \notin {"idle", "over"} => Others(d)' \subseteq met'[d]
    <3> SUFFICES ASSUME fw[d].at \notin {"idle", "over"}, NEW e \in Change \ {d}
                 PROVE  Keys(fw'[e]) \subseteq met'[d]
      BY DEF Others
    <3>1. CASE e = c
      <4>1. Keys(fw[d]) # {} \/ Rule = {}
        BY FwCurrent, KeysOf
      <4>2. Keys(r) \subseteq Rule
        BY KeysOf DEF Fresh
      <4> QED
        BY <1>1, <1>5, <3>1, <4>1, <4>2
    <3>2. CASE e # c
      BY <1>1, <2>1, <3>2 DEF Seen, Others
    <3> QED
      BY <3>1, <3>2
  <2>3. fw[d].at \in {"snapped", "sent"} =>
           \A s \in fw[d].snapshot :
              /\ \A k \in Rule \ (blame' \cup IF fw[d].op = "rollback" THEN s.met ELSE met'[d]) :
                    (\E w \in s.rows : w.key = k /\ w.on) <=> k \in s.was
              /\ s.host \subseteq s.was
    BY <1>1, <2>1 DEF Seen, Sound
  <2> QED
    BY <1>1, <2>1, <2>2, <2>3 DEF Seen, Sound
<1> QED
  BY <1>2, <1>3, <1>4 DEF SeenInv

LEMMA SeenSnapshotHost ==
    ASSUME FwTypeInv, SeenInv, NEW c \in Change, SnapshotHost(c)
    PROVE  SeenInv'
<1>1. PICK r \in Requests, s \in Snapshot :
          /\ fw' = [fw EXCEPT ![c] = r] /\ r.at = "asked" /\ r.op = fw[c].op
          /\ r.row = fw[c].row /\ r.key = fw[c].key /\ r.snapshot = {s}
          /\ s.host \in {Listed, {}} /\ s.was = host
  BY SnapshotHostIs
<1>2. /\ fw'[c] = r /\ \A d \in Change \ {c} : fw'[d] = fw[d]
      /\ UNCHANGED <<host, audit, met, blame>> /\ fw[c].at = "checked"
  BY <1>1 DEF SnapshotHost, FwTypeInv, FirewallTypeOK
<1>3. Keys(r) = Keys(fw[c])
  BY <1>1, <1>2, KeysStay
<1>4. Others(c)' = Others(c)
  BY <1>2 DEF Others
<1>5. Seen(c) /\ \A t \in audit' : Sound(t, t.met)'
  BY <1>2 DEF SeenInv, Sound
<1>6. Seen(c)'
  BY <1>1, <1>2, <1>4, <1>5 DEF Seen, Listed
<1> QED
  BY <1>2, <1>3, <1>5, <1>6, SeenKept

LEMMA SeenSnapshotRows ==
    ASSUME FwTypeInv, RulesInv, SeenInv, NEW c \in Change, SnapshotRows(c)
    PROVE  SeenInv'
<1>1. PICK r \in Requests, s \in Snapshot :
          /\ fw' = [fw EXCEPT ![c] = r] /\ r.at = "snapped" /\ r.op = fw[c].op
          /\ r.row = fw[c].row /\ r.key = fw[c].key /\ r.snapshot = {s}
          /\ s.host = Taken(c).host /\ s.was = Taken(c).was /\ s.rows = rows
  BY SnapshotRowsIs
<1>2. /\ fw'[c] = r /\ \A d \in Change \ {c} : fw'[d] = fw[d]
      /\ UNCHANGED <<host, audit, met, blame>> /\ fw[c].at = "asked"
  BY <1>1 DEF SnapshotRows, FwTypeInv, FirewallTypeOK
<1>3. Keys(r) = Keys(fw[c])
  BY <1>1, <1>2, KeysStay
<1>4. Others(c)' = Others(c)
  BY <1>2 DEF Others
<1>5. Seen(c) /\ \A t \in audit' : Sound(t, t.met)'
  BY <1>2 DEF SeenInv, Sound
<1>6. r.op # "rollback" /\ Taken(c) \in fw[c].snapshot
  BY <1>1, <1>2, FwCurrent, TakenIs DEF Formed
<1>7. /\ \A k \in Rule \ (blame \cup met[c]) : k \in s.was <=> k \in host
      /\ s.host \subseteq s.was
  BY <1>1, <1>2, <1>5, <1>6 DEF Seen
<1>8. \A k \in Rule \ (blame \cup met[c]) : Matches(k)
  <2> SUFFICES ASSUME NEW k \in Rule \ (blame \cup met[c]) PROVE Matches(k)
    OBVIOUS
  <2>1. \A d \in Change \ {c} : k \notin Keys(fw[d])
    BY <1>2, <1>5 DEF Seen, Others
  <2>2. \A d \in Change : ~Begun(d, k)
    BY <1>2, <2>1 DEF Begun
  <2> QED
    BY <2>2 DEF RulesInv
<1>9. \A k \in Rule \ (blame \cup met[c]) :
         (\E w \in s.rows : w.key = k /\ w.on) <=> k \in s.was
  BY <1>1, <1>7, <1>8 DEF Matches
<1>10. Seen(c)'
  BY <1>1, <1>2, <1>4, <1>5, <1>6, <1>7, <1>9 DEF Seen, Sound
<1> QED
  BY <1>2, <1>3, <1>5, <1>10, SeenKept

\* A request that goes on after its snapshot was taken.
LEMMA SeenGoesOn ==
    ASSUME FwTypeInv, RulesInv, SeenInv, NEW c \in Change,
           \/ InsertAndAdd(c) \/ SendUpdate(c) \/ SendDelete(c) \/ SendRollback(c)
           \/ HostApplies(c) \/ HostKeepsOld(c) \/ HostRefuses(c) \/ UpdateFails(c)
           \/ RollbackFails(c)
    PROVE  SeenInv'
<1>1. Seen(c)
  BY DEF SeenInv
<1>2. CASE InsertAndAdd(c) \/ SendUpdate(c) \/ SendDelete(c) \/ SendRollback(c)
  <2>1. /\ fw[c].at = "snapped" /\ fw'[c].at = "sent" /\ fw'[c].op = fw[c].op
        /\ fw'[c].snapshot = fw[c].snapshot /\ \A d \in Change \ {c} : fw'[d] = fw[d]
        /\ blame \subseteq blame' /\ UNCHANGED <<host, audit, met>>
    BY <1>2, InsertIs, CommandIs, ZenonT(30) DEF GoesOn, Goes
  <2>2. Keys(fw'[c]) \subseteq Keys(fw[c])
    <3>1. CASE InsertAndAdd(c)
      <4>1. FwTypeInv'
        BY <3>1, InsertFwType
      <4>2. fw[c].op = "create" /\ fw'[c].key = fw[c].key
        BY <3>1, InsertIs
      <4>3. Keys(fw[c]) = {fw[c].key}
        BY <2>1, <4>2, FwCurrent, KeysOf
      <4>4. fw'[c] \in Requests /\ Formed(fw'[c], cmd'[c])
        BY <4>1 DEF FwTypeInv, FirewallTypeOK
      <4>5. Keys(fw'[c]) = {fw'[c].key}
        BY <2>1, <4>2, <4>4, KeysOf
      <4> QED
        BY <4>2, <4>3, <4>5
    <3>2. CASE SendUpdate(c) \/ SendDelete(c) \/ SendRollback(c)
      BY <2>1, <3>2, CommandIs, KeysStay DEF GoesOn
    <3> QED
      BY <1>2, <3>1, <3>2
  <2>3. Others(c)' = Others(c)
    BY <2>1 DEF Others
  <2>4. Seen(c)'
    BY <1>1, <2>1, <2>3 DEF Seen, Sound
  <2>5. \A s \in audit' : Sound(s, s.met)'
    BY <2>1 DEF SeenInv, Sound
  <2> QED
    BY <2>1, <2>2, <2>4, <2>5, SeenKept
<1>3. CASE \/ HostApplies(c) \/ HostKeepsOld(c) \/ HostRefuses(c) \/ UpdateFails(c)
           \/ RollbackFails(c)
  <2>1. /\ fw' = fw /\ cmd[c].state = "sent" /\ fw[c].at \in {"sent", "over"}
        /\ blame \subseteq blame' /\ UNCHANGED <<audit, met>>
    BY <1>3, AgentIs
  <2>2. \A k \in Rule \ (blame' \cup Keys(fw[c])) : k \in host <=> k \in host'
    <3> SUFFICES ASSUME NEW k \in Rule \ (blame' \cup Keys(fw[c])) PROVE k \in host <=> k \in host'
      OBVIOUS
    <3>1. k \notin cmd[c].minus \cup cmd[c].plus
      BY <2>1 DEF RulesInv, Fits
    <3> QED
      BY <1>3, <3>1, AgentDoes
  <2>3. Seen(c)'
    BY <1>1, <2>1 DEF Seen, Sound, Others
  <2>4. \A s \in audit' : Sound(s, s.met)'
    BY <2>1 DEF SeenInv, Sound
  <2> QED
    BY <2>1, <2>2, <2>3, <2>4, SeenKept
<1> QED
  BY <1>2, <1>3

LEMMA SeenEnds ==
    ASSUME FwTypeInv, SeenInv, NEW c \in Change,
           \/ SnapshotFails(c) \/ ChangeFails(c) \/ ChangeTimesOut(c) \/ ExposeGoesOn(c)
           \/ Succeeds(c)
    PROVE  SeenInv'
<1>1. /\ fw'[c] = Gone /\ \A d \in Change \ {c} : fw'[d] = fw[d] /\ met'[d] = met[d]
      /\ host' = host
  BY FailIs, GivesUpIs, SuccessIs DEF Goes
<1>2. blame \subseteq blame'
  BY FailIs, GivesUpIs DEF Succeeds
<1>3. Seen(c)' /\ Keys(fw'[c]) = {}
  BY <1>1, GoneAlone, FwValues DEF Seen
<1>4. \A s \in audit' : Sound(s, s.met)'
  <2>1. CASE SnapshotFails(c) \/ ChangeFails(c) \/ ChangeTimesOut(c)
    BY <1>2, <2>1 DEF SnapshotFails, ChangeFails, ChangeTimesOut, SeenInv, Sound
  <2>2. CASE ExposeGoesOn(c) \/ Succeeds(c)
    <3>1. Audit(c) /\ fw[c].at = "sent"
      BY <2>2 DEF ExposeGoesOn, GivesUp, Succeeds
    <3>2. PICK s \in Snapshot :
              /\ audit' = {s} /\ s.host = Taken(c).host /\ s.was = Taken(c).was
              /\ s.rows = Taken(c).rows /\ s.met = Taken(c).met \cup met[c]
      BY <3>1, AuditIs
    <3>3. Sound(Taken(c), IF fw[c].op = "rollback" THEN Taken(c).met ELSE met[c])
      BY <3>1, TakenIs DEF SeenInv, Seen
    <3>4. Sound(s, s.met)'
      BY <1>2, <3>2, <3>3 DEF Sound
    <3> QED
      BY <3>2, <3>4
  <2> QED
    BY <2>1, <2>2
<1> QED
  BY <1>1, <1>2, <1>3, <1>4, SeenKept

LEMMA SeenDead ==
    ASSUME FwTypeInv, SeenInv, FirewallDies
    PROVE  SeenInv'
<1>1. /\ blame \subseteq blame' /\ UNCHANGED <<host, audit>>
  BY DEF FirewallDies
<1>2. \A s \in audit' : Sound(s, s.met)'
  BY <1>1 DEF SeenInv, Sound
<1>3. ASSUME NEW c \in Change PROVE Seen(c)'
  <2>1. Seen(c)
    BY DEF SeenInv
  <2>2. \A d \in Change : Keys(fw'[d]) = {}
    BY DeadIs, GoneAlone
  <2>3. Others(c)' = {}
    BY <2>2 DEF Others
  <2>4. CASE fw'[c] = Gone
    BY <2>4, FwValues DEF Seen
  <2>5. CASE fw'[c] = fw[c] /\ Keys(fw[c]) = {}
    <3>1. fw[c].at \notin {"idle", "over"} => Rule = {}
      BY <2>5, FwCurrent, KeysOf
    <3>2. fw[c].at \in {"asked", "snapped", "sent"} => \A s \in fw[c].snapshot : s.host \subseteq s.was
      BY <2>1 DEF Seen, Sound
    <3> QED
      BY <2>3, <2>5, <3>1, <3>2 DEF Seen, Sound
  <2> QED
    BY <2>4, <2>5, DeadIs
<1> QED
  BY <1>2, <1>3 DEF SeenInv

LEMMA SeenNext == FwTypeInv /\ RulesInv /\ SeenInv /\ [FirewallNext]_fwVars => SeenInv'
<1> SUFFICES ASSUME FwTypeInv, RulesInv, SeenInv, [FirewallNext]_fwVars PROVE SeenInv'
  OBVIOUS
<1>1. CASE UNCHANGED fwVars
  BY <1>1 DEF fwVars, SeenInv, Seen, Sound, Others
<1>2. CASE FirewallDies
  BY <1>2, SeenDead
<1>3. ASSUME NEW c \in Change,
             BeginCreate(c) \/ BeginQuick(c) \/ BeginUpdate(c) \/ BeginDelete(c) \/ BeginRollback(c)
      PROVE  SeenInv'
  BY <1>3, BeginFresh, SeenBegin
<1>4. ASSUME NEW c \in Change, SnapshotHost(c) \/ SnapshotRows(c) PROVE SeenInv'
  BY <1>4, SeenSnapshotHost, SeenSnapshotRows
<1>5. ASSUME NEW c \in Change,
             \/ InsertAndAdd(c) \/ SendUpdate(c) \/ SendDelete(c) \/ SendRollback(c)
             \/ HostApplies(c) \/ HostKeepsOld(c) \/ HostRefuses(c) \/ UpdateFails(c)
             \/ RollbackFails(c)
      PROVE  SeenInv'
  BY <1>5, SeenGoesOn
<1>6. ASSUME NEW c \in Change,
             \/ SnapshotFails(c) \/ ChangeFails(c) \/ ChangeTimesOut(c) \/ ExposeGoesOn(c)
             \/ Succeeds(c)
      PROVE  SeenInv'
  BY <1>6, SeenEnds
<1> QED
  BY <1>1, <1>2, <1>3, <1>4, <1>5, <1>6 DEF FirewallNext

-----------------------------------------------------------------------------
(* What a rollback goes back to *)

PastInv ==
    \/ Rule \subseteq blame
    \/ /\ \A s \in audit : s.was = past
       /\ \A c \in Change : fw[c].op = "rollback" => Taken(c).was = past

FwInv == FwTypeInv /\ RowsInv /\ RulesInv /\ SeenInv /\ PastInv

LEMMA PastInit == FirewallInit => PastInv
  BY FwValues DEF FirewallInit, PastInv

LEMMA BlameGrows == FwTypeInv /\ [FirewallNext]_fwVars => blame \subseteq blame'
<1> SUFFICES ASSUME FwTypeInv, [FirewallNext]_fwVars PROVE blame \subseteq blame'
  OBVIOUS
<1>1. CASE UNCHANGED fwVars \/ FirewallDies
  BY <1>1 DEF fwVars, FirewallDies
<1>2. ASSUME NEW c \in Change,
             BeginCreate(c) \/ BeginQuick(c) \/ BeginUpdate(c) \/ BeginDelete(c) \/ BeginRollback(c)
      PROVE  blame \subseteq blame'
  BY <1>2, BeginFresh DEF BeginChange
<1>3. ASSUME NEW c \in Change,
             \/ SnapshotHost(c) \/ SnapshotRows(c)
             \/ InsertAndAdd(c) \/ SendUpdate(c) \/ SendDelete(c) \/ SendRollback(c)
      PROVE  blame \subseteq blame'
  BY <1>3, InsertIs, CommandIs DEF SnapshotHost, SnapshotRows
<1>4. ASSUME NEW c \in Change,
             \/ HostApplies(c) \/ HostKeepsOld(c) \/ HostRefuses(c) \/ UpdateFails(c)
             \/ RollbackFails(c)
      PROVE  blame \subseteq blame'
  BY <1>4, AgentIs
<1>5. ASSUME NEW c \in Change,
             \/ SnapshotFails(c) \/ ChangeFails(c) \/ ChangeTimesOut(c) \/ ExposeGoesOn(c)
             \/ Succeeds(c)
      PROVE  blame \subseteq blame'
  BY <1>5, FailIs, GivesUpIs DEF Succeeds
<1> QED
  BY <1>1, <1>2, <1>3, <1>4, <1>5 DEF FirewallNext

LEMMA PastNext == FwTypeInv /\ RowsInv /\ PastInv /\ [FirewallNext]_fwVars => PastInv'
<1> SUFFICES ASSUME FwTypeInv, RowsInv, PastInv, [FirewallNext]_fwVars, ~(Rule \subseteq blame'),
                    blame \subseteq blame'
             PROVE  PastInv'
  BY BlameGrows DEF PastInv
<1>0. /\ \A s \in audit : s.was = past
      /\ \A c \in Change : fw[c].op = "rollback" => Taken(c).was = past
  BY DEF PastInv
<1>a. ASSUME UNCHANGED <<audit, past>>,
             \A c \in Change : fw'[c].op = "rollback" => fw[c].op = "rollback" /\ fw'[c].snapshot = fw[c].snapshot
      PROVE  PastInv'
  BY <1>0, <1>a DEF PastInv, Taken
<1>1. CASE UNCHANGED fwVars
  BY <1>1, <1>a DEF fwVars
<1>2. CASE FirewallDies
  <2>1. \A c \in Change : fw'[c].op = "rollback" => fw'[c] = fw[c]
    BY <1>2, DeadIs, FwValues
  <2>2. UNCHANGED <<audit, past>>
    BY <1>2 DEF FirewallDies
  <2> QED
    BY <1>a, <2>1, <2>2
<1>3. ASSUME NEW c \in Change,
             BeginCreate(c) \/ BeginQuick(c) \/ BeginUpdate(c) \/ BeginDelete(c) \/ BeginRollback(c)
      PROVE  PastInv'
  <2>1. PICK r \in Requests : Fresh(r) /\ BeginChange(c, r)
    BY <1>3, BeginFresh
  <2>2. /\ fw'[c] = r /\ \A d \in Change \ {c} : fw'[d] = fw[d]
        /\ UNCHANGED <<audit, past>>
    BY <2>1 DEF BeginChange, FwTypeInv, FirewallTypeOK
  <2>3. r.op = "rollback" => Taken(c)' = (CHOOSE s \in audit : TRUE) /\ audit # {}
    BY <2>1, <2>2 DEF Fresh, Formed, Taken
  <2>4. r.op = "rollback" => Taken(c)'.was = past
    BY <1>0, <2>3
  <2>5. \A d \in Change \ {c} : fw[d].op = "rollback" => Taken(d)'.was = past
    BY <1>0, <2>2 DEF Taken
  <2> QED
    BY <1>0, <2>2, <2>4, <2>5 DEF PastInv
<1>4. ASSUME NEW c \in Change, SnapshotHost(c) \/ SnapshotRows(c)
      PROVE  PastInv'
  <2>1. /\ \A d \in Change \ {c} : fw'[d] = fw[d]
        /\ UNCHANGED <<audit, past>> /\ fw'[c].op = fw[c].op /\ fw[c].at \in {"checked", "asked"}
    <3>1. \E r \in Requests : fw' = [fw EXCEPT ![c] = r] /\ r.op = fw[c].op
      BY <1>4, SnapshotHostIs, SnapshotRowsIs
    <3> QED
      BY <1>4, <3>1 DEF SnapshotHost, SnapshotRows, FwTypeInv, FirewallTypeOK
  <2>2. fw[c].op # "rollback"
    BY <2>1, FwCurrent DEF Formed
  <2> QED
    BY <1>a, <2>1, <2>2
<1>5. ASSUME NEW c \in Change,
             InsertAndAdd(c) \/ SendUpdate(c) \/ SendDelete(c) \/ SendRollback(c)
      PROVE  PastInv'
  <2>1. /\ fw'[c].op = fw[c].op /\ fw'[c].snapshot = fw[c].snapshot
        /\ \A d \in Change \ {c} : fw'[d] = fw[d] /\ UNCHANGED <<audit, past>>
    BY <1>5, InsertIs, CommandIs, ZenonT(30) DEF GoesOn, Goes
  <2>2. UNCHANGED <<audit, past>>
    BY <1>5, InsertIs, CommandIs
  <2> QED
    BY <1>a, <2>1, <2>2
<1>6. ASSUME NEW c \in Change,
             \/ HostApplies(c) \/ HostKeepsOld(c) \/ HostRefuses(c) \/ UpdateFails(c)
             \/ RollbackFails(c)
      PROVE  PastInv'
  BY <1>6, <1>a, AgentIs
<1>7. ASSUME NEW c \in Change, SnapshotFails(c) \/ ChangeFails(c) \/ ChangeTimesOut(c)
      PROVE  PastInv'
  <2>1. fw'[c] = Gone /\ (\A d \in Change \ {c} : fw'[d] = fw[d]) /\ UNCHANGED <<audit, past>>
    BY <1>7, FailIs, GivesUpIs DEF Goes, ChangeTimesOut
  <2> QED
    BY <1>a, <2>1, FwValues
<1>8. ASSUME NEW c \in Change, ExposeGoesOn(c) \/ Succeeds(c)
      PROVE  PastInv'
  <2>1. /\ fw'[c] = Gone /\ (\A d \in Change \ {c} : fw'[d] = fw[d]) /\ fw[c].at = "sent"
        /\ Audit(c)
    BY <1>8, SuccessIs, GivesUpIs DEF Goes, ExposeGoesOn, Succeeds
  <2>2. past' = Taken(c).was
    BY <1>0, <1>8 DEF ExposeGoesOn, Succeeds
  <2>3. \A s \in audit' : s.was = past'
    BY <2>1, <2>2, AuditIs
  <2>4. \A d \in Change : fw'[d].op # "rollback"
    <3> SUFFICES ASSUME NEW d \in Change, fw'[d].op = "rollback" PROVE FALSE
      OBVIOUS
    <3>1. d # c /\ fw[d].op = "rollback"
      BY <2>1, FwValues
    <3>2. Rule \subseteq blame
      BY <2>1, <3>1, BesideRollback
    <3> QED
      BY <3>2
  <2> QED
    BY <2>3, <2>4 DEF PastInv
<1> QED
  BY <1>1, <1>2, <1>3, <1>4, <1>5, <1>6, <1>7, <1>8 DEF FirewallNext

LEMMA FwInvInit == FirewallInit => FwInv
  BY FwInitType, RowsInit, RulesInit, SeenInit, PastInit DEF FwInv

LEMMA FwInvNext == FwInv /\ [FirewallNext]_fwVars => FwInv'
  BY FwTypeNext, RowsNext, HostNext, SeenNext, PastNext DEF FwInv

LEMMA FwInvMatches == FwInv => PanelMatchesHost
<1> SUFFICES ASSUME FwInv, NEW k \in Rule \ blame, \A c \in Change : k \notin Keys(fw[c])
             PROVE  (\E w \in RowsOf(k) : w.on) <=> k \in host
  BY DEF PanelMatchesHost
<1>1. \A c \in Change : ~Begun(c, k)
  BY DEF Begun
<1> QED
  BY <1>1 DEF FwInv, RulesInv, Matches, RowsOf

\* Whatever is done to other keys at the same time, and whichever command fails, times out or is
\* applied when nobody waits for it any more, the panel shows a key that is not to blame enabled
\* exactly if the host has it.
THEOREM PanelMatchesHostAlways == FirewallSpec => []PanelMatchesHost
  BY FwInvInit, FwInvNext, FwInvMatches, PTL DEF FirewallSpec

LEMMA RollbackStep ==
    ASSUME FwInv, [FirewallNext]_fwVars, NEW c \in Change,
           fw[c].op = "rollback", cmd[c].state = "ok", fw'[c].at = "over", blame' = {}
    PROVE  host' = past
<1>1. FwTypeInv /\ RowsInv /\ RulesInv /\ PastInv /\ FwTypeInv' /\ Formed(fw[c], cmd[c])
  BY FwInvNext, FwCurrent DEF FwInv
<1>2. /\ fw[c].at \in {"snapped", "sent"} /\ Keys(fw[c]) = Rule
      /\ host \in SUBSET Rule /\ host' \in SUBSET Rule /\ past \in SUBSET Rule
  BY <1>1, FwCurrent, KeysOf DEF Formed, FwTypeInv, FirewallTypeOK
<1>3. CASE Rule = {}
  BY <1>2, <1>3
<1>4. CASE Rule # {}
  <2>1. ASSUME FirewallDies PROVE FALSE
    <3>1. blame' = blame \cup UNION {Keys(fw[d]) : d \in Change}
      BY <2>1 DEF FirewallDies
    <3>2. Keys(fw[c]) \subseteq blame'
      BY <3>1
    <3> QED
      BY <1>2, <1>4, <3>2
  <2>2. ASSUME NEW d \in Change, d # c \/ ~Succeeds(c),
               \/ BeginCreate(d) \/ BeginQuick(d) \/ BeginUpdate(d) \/ BeginDelete(d)
               \/ BeginRollback(d)
               \/ SnapshotHost(d) \/ SnapshotRows(d) \/ SnapshotFails(d)
               \/ InsertAndAdd(d) \/ SendUpdate(d) \/ SendDelete(d) \/ SendRollback(d)
               \/ HostApplies(d) \/ HostKeepsOld(d) \/ HostRefuses(d) \/ UpdateFails(d)
               \/ RollbackFails(d)
               \/ ChangeFails(d) \/ ChangeTimesOut(d) \/ ExposeGoesOn(d) \/ Succeeds(d)
        PROVE  FALSE
    <3>1. CASE \/ BeginCreate(d) \/ BeginQuick(d) \/ BeginUpdate(d) \/ BeginDelete(d)
               \/ BeginRollback(d)
      <4>1. PICK r \in Requests : Fresh(r) /\ BeginChange(d, r)
        BY <1>1, <3>1, BeginFresh
      <4>2. fw[d] = NotBegun /\ \A e \in Change \ {d} : fw'[e] = fw[e]
        BY <1>1, <4>1 DEF BeginChange, FwTypeInv, FirewallTypeOK
      <4> QED
        BY <1>2, <4>2, FwValues
    <3>2. CASE SnapshotHost(d) \/ SnapshotRows(d)
      <4>1. \E r \in Requests : fw' = [fw EXCEPT ![d] = r] /\ r.at \in {"asked", "snapped"}
        BY <1>1, <3>2, SnapshotHostIs, SnapshotRowsIs
      <4> QED
        BY <1>1, <1>2, <4>1 DEF FwTypeInv, FirewallTypeOK
    <3>3. CASE InsertAndAdd(d) \/ SendUpdate(d) \/ SendDelete(d) \/ SendRollback(d)
      BY <1>1, <1>2, <3>3, InsertIs, CommandIs DEF GoesOn, Goes
    <3>4. CASE \/ HostApplies(d) \/ HostKeepsOld(d) \/ HostRefuses(d) \/ UpdateFails(d)
               \/ RollbackFails(d)
      BY <1>1, <1>2, <3>4, AgentIs
    <3>5. CASE d # c /\ \/ SnapshotFails(d) \/ ChangeFails(d) \/ ChangeTimesOut(d)
                        \/ ExposeGoesOn(d) \/ Succeeds(d)
      BY <1>1, <1>2, <3>5, FailIs, GivesUpIs, SuccessIs DEF Goes
    <3>6. CASE d = c /\ (SnapshotFails(c) \/ ChangeFails(c))
      BY <1>2, <3>6 DEF SnapshotFails, ChangeFails
    <3>7. CASE d = c /\ (ChangeTimesOut(c) \/ ExposeGoesOn(c))
      BY <1>1, <1>2, <1>4, <3>7, GivesUpIs
    <3> QED
      BY <2>2, <3>1, <3>2, <3>3, <3>4, <3>5, <3>6, <3>7
  <2>3. ~UNCHANGED fwVars
    BY <1>2 DEF fwVars
  <2>4. Succeeds(c)
    BY <2>1, <2>2, <2>3 DEF FirewallNext
  <2>5. host' = host /\ blame = {} /\ fw[c].at = "sent"
    BY <1>1, <2>4, SuccessIs DEF Succeeds
  <2>6. \A k \in Rule : k \in host <=> k \in Taken(c).host
    BY <1>1, <1>2, <2>5 DEF RulesInv, Fits, Wanted
  <2>7. Taken(c).was = past
    BY <1>1, <1>4, <2>5 DEF PastInv
  <2>8. Taken(c).host = Taken(c).was
    <3>1. Taken(c) \in fw[c].snapshot
      BY <1>1, <2>5, TakenIs
    <3>2. Taken(c).host \subseteq Taken(c).was
      BY <2>5, <3>1 DEF FwInv, SeenInv, Seen, Sound
    <3>3. Taken(c).was \ Taken(c).host = {}
      BY <2>4 DEF Succeeds, RollbackBlame
    <3> QED
      BY <3>2, <3>3
  <2> QED
    BY <1>2, <2>5, <2>6, <2>7, <2>8
<1> QED
  BY <1>3, <1>4

\* A rollback that succeeds brings the rules of the host back to what they were before the newest
\* change that succeeded, if no key is to blame; the rules a failed listing lost are.
THEOREM RollbackUndoesAlways == FirewallSpec => RollbackUndoes
<1>1. FwInv /\ [FirewallNext]_fwVars =>
         [\A c \in Change :
             fw[c].op = "rollback" /\ cmd[c].state = "ok" /\ fw'[c].at = "over" /\ blame' = {}
                => host' = past]_fwVars
  BY RollbackStep
<1> QED
  BY <1>1, FwInvInit, FwInvNext, PTL DEF FirewallSpec, RollbackUndoes
=============================================================================
