---------------------------- MODULE PanelProofs ----------------------------
(***************************************************************************)
(* Proofs about Panel.  First those about its secrets and its files, for   *)
(* any number of requests; nothing is assumed of the contents of a file,   *)
(* which may be equal to each other or to what stands for an empty file.   *)
(* Those about the versions of a runbook, firewall rules and certificates  *)
(* are in modules of their own.  Then: a behaviour of the panel is one of  *)
(* each of its components, so that it keeps what each of them promises.    *)
(***************************************************************************)
EXTENDS Panel, RunbookVersionsProofs, FirewallProofs, CertificatesProofs, SequenceTheorems, TLAPS

-----------------------------------------------------------------------------
(* Secrets: rows and requests *)

Rows == 1..Len(secrets)
Ops  == {"update", "rotate", "revoke", "reveal", "inject"}

\* A request under way is about a row there is, and so is what the worker has read.
AskInv ==
    /\ \A q \in Ask : ask[q].id \in Rows \cup {0} /\ (ask[q].id # 0 => ask[q].op \in Ops)
    /\ todo \subseteq Rows /\ seen \subseteq Rows

-----------------------------------------------------------------------------
(* Secrets: what the steps do *)

LEMMA RowsFacts ==
    ASSUME VaultTypeOK
    PROVE  /\ Len(secrets) \in Nat /\ Rows \subseteq Id
           /\ \A n \in Rows : secrets[n] \in Secret
           /\ \A n \in Rows : /\ secrets[n].value \in Nat /\ secrets[n].version \in Nat
                              /\ secrets[n].used \in Nat /\ secrets[n].revoked \in BOOLEAN
                              /\ secrets[n].expiry \in Expiry
<1>1. Len(secrets) \in Nat /\ \A n \in Rows : secrets[n] \in Secret
  BY DEF VaultTypeOK, Rows
<1>2. Rows \subseteq Id
  BY VaultAssumption DEF VaultTypeOK, Rows, Id
<1> QED
  BY <1>1, <1>2 DEF Secret

\* One row becomes another one.
Becomes(n, row) ==
    /\ secrets' \in Seq(Secret) /\ Len(secrets') = Len(secrets) /\ Rows' = Rows
    /\ \A m \in Rows : secrets'[m] = IF m = n THEN row ELSE secrets[m]

LEMMA ExceptBecomes ==
    ASSUME VaultTypeOK, NEW n \in Rows, NEW row \in Secret, secrets' = [secrets EXCEPT ![n] = row]
    PROVE  Becomes(n, row)
<1>1. secrets \in Seq(Secret) /\ n \in 1..Len(secrets)
  BY DEF VaultTypeOK, Rows
<1>2. /\ [secrets EXCEPT ![n] = row] \in Seq(Secret)
      /\ Len([secrets EXCEPT ![n] = row]) = Len(secrets)
      /\ \A j \in 1..Len(secrets) :
            [secrets EXCEPT ![n] = row][j] = IF j = n THEN row ELSE secrets[j]
  BY <1>1, ExceptSeq
<1> QED
  BY <1>2, Zenon DEF Becomes, Rows

LEMMA CreateEffect ==
    ASSUME VaultTypeOK, NEW q \in Ask, CreateSecret(q)
    PROVE  \E row \in Secret :
              /\ row.value = nextValue /\ row.version = 1 /\ row.used = 0
              /\ secrets' \in Seq(Secret) /\ Len(secrets') = Len(secrets) + 1
              /\ \A m \in Rows : secrets'[m] = secrets[m]
              /\ secrets'[Len(secrets) + 1] = row
<1>1. PICK expiry \in Expiry :
        secrets' = Append(secrets, [value |-> nextValue, version |-> 1, used |-> 0,
                                    revoked |-> FALSE, expiry |-> expiry])
  BY DEF CreateSecret
<1> DEFINE row == [value |-> nextValue, version |-> 1, used |-> 0, revoked |-> FALSE,
                   expiry |-> expiry]
<1>2. row \in Secret /\ row.value = nextValue /\ row.version = 1 /\ row.used = 0
  BY DEF VaultTypeOK, Secret
<1> HIDE DEF row
<1>3. secrets' = Append(secrets, row) /\ secrets \in Seq(Secret)
  BY <1>1 DEF row, VaultTypeOK
<1>4. /\ secrets' \in Seq(Secret) /\ Len(secrets') = Len(secrets) + 1
      /\ \A m \in 1..Len(secrets) : secrets'[m] = secrets[m]
      /\ secrets'[Len(secrets) + 1] = row
  BY <1>2, <1>3, AppendProperties
<1> QED
  BY <1>2, <1>4 DEF Rows

\* The row a request writes: its value is the old one or a new one, only a rotation lifts a
\* revocation and brings a new value, and a counter is one higher than it was read.
Written(read, old, row) ==
    /\ row \in Secret
    /\ row.value \in {old.value, nextValue}
    /\ old.revoked => row.revoked \/ read.op = "rotate"
    /\ read.op = "rotate" => row.value = nextValue
    /\ row.used = IF "used" \in Counter(read.op) THEN read.used + 1 ELSE old.used
    /\ row.version = IF "version" \in Counter(read.op) THEN read.version + 1 ELSE old.version

LEMMA UpdatedRow ==
    ASSUME nextValue \in Nat, NEW old \in Secret, NEW new \in Updated(old)
    PROVE  /\ new \in Secret /\ new.value \in {old.value, nextValue} /\ new.revoked = old.revoked
           /\ new.used = old.used /\ new.version = old.version
  BY DEF Updated, Secret

LEMMA RotatedRow ==
    ASSUME nextValue \in Nat, NEW old \in Secret, NEW read, read.version \in Nat
    PROVE  /\ Rotated(old, read) \in Secret /\ Rotated(old, read).value = nextValue
           /\ Rotated(old, read).version = read.version + 1 /\ Rotated(old, read).used = old.used
  BY DEF Rotated, Secret

LEMMA WriteEffect ==
    ASSUME VaultTypeOK, AskInv, NEW q \in Ask, Write(q)
    PROVE  \E row \in Secret :
              /\ Written(ask[q], secrets[ask[q].id], row)
              /\ ask[q].id \in Rows /\ ask[q].op \in Ops /\ Becomes(ask[q].id, row)
              /\ nextValue' = IF row.value = nextValue THEN nextValue + 1 ELSE nextValue
              /\ dead' = IF row.revoked THEN dead \cup {row.value} ELSE dead
<1> DEFINE n == ask[q].id  read == ask[q]  old == secrets[n]
<1>1. n # 0 /\ n \in Rows /\ read.op \in Ops
  BY DEF Write, AskInv
<1>2. old \in Secret /\ nextValue \in Nat /\ read.used \in Nat /\ read.version \in Nat
  BY <1>1, RowsFacts DEF VaultTypeOK
<1>3. PICK row \in CASE read.op = "update" -> Updated(old)
                     [] read.op = "rotate" -> {Rotated(old, read)}
                     [] read.op = "revoke" -> {[old EXCEPT !.revoked = TRUE]}
                     [] OTHER -> {[old EXCEPT !.used = read.used + 1]} :
          /\ secrets' = [secrets EXCEPT ![n] = row]
          /\ nextValue' = IF row.value = nextValue THEN nextValue + 1 ELSE nextValue
          /\ dead' = IF row.revoked THEN dead \cup {row.value} ELSE dead
  BY Zenon DEF Write
<1> HIDE DEF n, read, old
<1>4. Written(read, old, row)
  <2>1. CASE read.op = "update"
    <3>1. row \in Updated(old)
      BY <1>3, <2>1
    <3>2. Counter(read.op) = {}
      BY <2>1 DEF Counter
    <3> QED
      BY <1>2, <2>1, <3>1, <3>2, UpdatedRow DEF Written
  <2>2. CASE read.op = "rotate"
    <3>1. row = Rotated(old, read)
      BY <1>3, <2>2
    <3>2. Counter(read.op) = {"version"}
      BY <2>2 DEF Counter
    <3>3. /\ row \in Secret /\ row.value = nextValue /\ row.version = read.version + 1
          /\ row.used = old.used
      BY <1>2, <3>1, RotatedRow
    <3> QED
      BY <2>2, <3>2, <3>3 DEF Written
  <2>3. CASE read.op = "revoke"
    <3>1. row = [old EXCEPT !.revoked = TRUE]
      BY <1>3, <2>3
    <3>2. Counter(read.op) = {}
      BY <2>3 DEF Counter
    <3> QED
      BY <1>2, <2>3, <3>1, <3>2 DEF Written, Secret
  <2>4. CASE read.op \in {"reveal", "inject"}
    <3>1. row = [old EXCEPT !.used = read.used + 1]
      BY <1>3, <2>4
    <3>2. Counter(read.op) = {"used"}
      BY <2>4 DEF Counter
    <3> QED
      BY <1>2, <2>4, <3>1, <3>2 DEF Written, Secret
  <2> QED
    BY <1>1, <2>1, <2>2, <2>3, <2>4 DEF Ops
<1>5. Becomes(n, row)
  BY <1>1, <1>3, <1>4, ExceptBecomes DEF Written
<1> QED
  BY <1>1, <1>3, <1>4, <1>5 DEF Written, n, read, old

LEMMA ExpiresEffect ==
    ASSUME VaultTypeOK, NEW n \in Rows, Expires(n)
    PROVE  Becomes(n, [secrets[n] EXCEPT !.expiry = "past"])
<1>1. [secrets[n] EXCEPT !.expiry = "past"] \in Secret
  BY RowsFacts DEF Secret, Expiry
<1>2. secrets' = [secrets EXCEPT ![n] = [secrets[n] EXCEPT !.expiry = "past"]]
  BY DEF Expires
<1> QED
  BY <1>1, <1>2, ExceptBecomes

LEMMA RevokeEffect ==
    ASSUME VaultTypeOK, AskInv, RevokeExpired
    PROVE  \E n \in Rows :
              /\ n \in todo /\ Becomes(n, [secrets[n] EXCEPT !.revoked = TRUE])
              /\ dead' = dead \cup {secrets[n].value} /\ todo' = todo \ {n}
<1>1. PICK n \in todo :
        /\ secrets' = [secrets EXCEPT ![n] = [secrets[n] EXCEPT !.revoked = TRUE]]
        /\ dead' = dead \cup {secrets[n].value} /\ todo' = todo \ {n}
  BY DEF RevokeExpired
<1>2. n \in Rows
  BY DEF AskInv
<1>3. [secrets[n] EXCEPT !.revoked = TRUE] \in Secret
  BY <1>2, RowsFacts DEF Secret
<1> QED
  BY <1>1, <1>2, <1>3, ExceptBecomes

-----------------------------------------------------------------------------
(* Secrets: types *)

LEMMA CounterFacts ==
    /\ \A op \in Ops : Counter(op) \subseteq {"used", "version"}
    /\ Counter("idle") = {} /\ Counter("over") = {}
    /\ \A op : "used" \in Counter(op) <=> Counter(op) = {"used"}
    /\ \A op : "version" \in Counter(op) <=> op = "rotate"
  BY DEF Counter, Ops

\* The three ways to read a row.
LEMMA Loads ==
    ASSUME VaultTypeOK, NEW q \in Ask, LoadToChange(q) \/ LoadToReveal(q) \/ Resolve(q)
    PROVE  \E n \in Rows, op \in Ops : Load(q, op, n)
<1>1. CASE LoadToChange(q)
  BY <1>1 DEF LoadToChange, Rows, Ops
<1>2. CASE LoadToReveal(q)
  BY <1>2 DEF LoadToReveal, Rows, Ops
<1>3. CASE Resolve(q)
  <2>1. Len(secrets) \in Rows
    BY <1>3, RowsFacts DEF Resolve, Rows
  <2> QED
    BY <1>3, <2>1 DEF Resolve, Ops
<1> QED
  BY <1>1, <1>2, <1>3

\* The steps, one line each.
LEMMA Steps ==
    ASSUME VaultTypeOK, [VaultNext]_vaultVars
    PROVE  \/ \E q \in Ask : CreateSecret(q) \/ Write(q)
           \/ \E q \in Ask, n \in Rows, op \in Ops : Load(q, op, n)
           \/ \E n \in Rows : Expires(n)
           \/ Tick \/ RevokeExpired \/ VaultDies
           \/ UNCHANGED vaultVars
  BY Loads DEF VaultNext, Rows

VaultInv == VaultTypeOK /\ AskInv

LEMMA InitInv == VaultInit => VaultInv
<1> SUFFICES ASSUME VaultInit PROVE VaultInv
  OBVIOUS
<1>1. secrets = <<>> /\ Len(secrets) = 0 /\ secrets \in Seq(Secret) /\ Len(secrets) \in 0..MaxSecrets
  BY VaultAssumption DEF VaultInit
<1>2. ask \in [Ask -> [op : {"idle", "over", "update", "rotate", "revoke", "reveal", "inject"},
                       id : 0..MaxSecrets, used : Nat, version : Nat]]
  BY VaultAssumption DEF VaultInit, NotAsked
<1>3. \A q \in Ask : ask[q].id = 0
  BY DEF VaultInit, NotAsked
<1> QED
  BY <1>1, <1>2, <1>3 DEF VaultInv, VaultInit, VaultTypeOK, AskInv

\* What becomes of the requests: one of them is over, or all are that were under way.
LEMMA DoneFacts ==
    /\ Done.id = 0 /\ NotAsked.id = 0 /\ Done.op = "over" /\ NotAsked.op = "idle"
    /\ VaultTypeOK => Done \in [op : {"idle", "over", "update", "rotate", "revoke", "reveal", "inject"},
                                id : 0..MaxSecrets, used : Nat, version : Nat]
  BY VaultAssumption DEF Done, NotAsked

LEMMA CreateInv ==
    ASSUME VaultInv, NEW q \in Ask, CreateSecret(q)
    PROVE  VaultInv'
<1>1. /\ secrets' \in Seq(Secret) /\ Len(secrets') = Len(secrets) + 1
  BY CreateEffect DEF VaultInv
<1>2. Len(secrets') \in 0..MaxSecrets
  BY <1>1, VaultAssumption DEF VaultInv, VaultTypeOK, CreateSecret
<1>3. ask' = [ask EXCEPT ![q] = Done]
  BY DEF CreateSecret
<1>4. VaultTypeOK'
  <2>1. nextValue' = nextValue + 1 /\ UNCHANGED <<todo, seen, renewed, dead, uses, rotations, doubled>>
    BY DEF CreateSecret
  <2>2. ask' \in [Ask -> [op : {"idle", "over", "update", "rotate", "revoke", "reveal", "inject"},
                          id : 0..MaxSecrets, used : Nat, version : Nat]]
    BY <1>3, DoneFacts DEF VaultInv, VaultTypeOK
  <2> QED
    BY <1>1, <1>2, <2>1, <2>2, SMTT(30) DEF VaultInv, VaultTypeOK, Id
<1>5. Rows \subseteq Rows'
  BY <1>1, RowsFacts DEF Rows, VaultInv
<1>6. AskInv'
  <2>1. \A r \in Ask : ask'[r] = ask[r] \/ ask'[r].id = 0
    BY <1>3, DoneFacts DEF VaultInv, VaultTypeOK
  <2>2. todo' = todo /\ seen' = seen
    BY DEF CreateSecret
  <2> QED
    BY <1>5, <2>1, <2>2 DEF VaultInv, AskInv
<1> QED
  BY <1>4, <1>6 DEF VaultInv

LEMMA LoadInv ==
    ASSUME VaultInv, NEW q \in Ask, NEW n \in Rows, NEW op \in Ops, Load(q, op, n)
    PROVE  VaultInv'
<1> DEFINE read == [op |-> op, id |-> n, used |-> secrets[n].used, version |-> secrets[n].version]
<1>1. n \in 0..MaxSecrets /\ n \in Id
  BY RowsFacts, VaultAssumption DEF VaultInv, Id
<1>2. read \in [op : {"idle", "over", "update", "rotate", "revoke", "reveal", "inject"},
                id : 0..MaxSecrets, used : Nat, version : Nat]
  BY <1>1, RowsFacts DEF VaultInv, Ops
<1>3. ask' = [ask EXCEPT ![q] = read]
  BY DEF Load
<1>4. doubled' \subseteq doubled \cup {<<n, c>> : c \in {"used", "version"}}
  BY CounterFacts DEF Load
<1>5. read.id = n /\ read.op = op
  OBVIOUS
<1> HIDE DEF read
<1>6. doubled' \in SUBSET (Id \X {"used", "version"})
  BY <1>1, <1>4 DEF VaultInv, VaultTypeOK
<1>7. VaultTypeOK'
  <2>1. UNCHANGED <<secrets, nextValue, todo, seen, renewed, dead, uses, rotations>>
    BY DEF Load
  <2>2. ask' \in [Ask -> [op : {"idle", "over", "update", "rotate", "revoke", "reveal", "inject"},
                          id : 0..MaxSecrets, used : Nat, version : Nat]]
    BY <1>2, <1>3 DEF VaultInv, VaultTypeOK
  <2> QED
    BY <1>6, <2>1, <2>2 DEF VaultInv, VaultTypeOK, Id
<1>8. AskInv'
  <2>1. \A r \in Ask : ask'[r] = IF r = q THEN read ELSE ask[r]
    BY <1>3 DEF VaultInv, VaultTypeOK
  <2>2. todo' = todo /\ seen' = seen /\ Rows' = Rows
    BY DEF Load, Rows
  <2> QED
    BY <1>5, <2>1, <2>2 DEF VaultInv, AskInv
<1> QED
  BY <1>7, <1>8 DEF VaultInv

LEMMA WriteInv ==
    ASSUME VaultInv, NEW q \in Ask, Write(q)
    PROVE  VaultInv'
<1>1. PICK row \in Secret :
        /\ ask[q].id \in Rows /\ Becomes(ask[q].id, row)
        /\ nextValue' = IF row.value = nextValue THEN nextValue + 1 ELSE nextValue
        /\ dead' = IF row.revoked THEN dead \cup {row.value} ELSE dead
  BY WriteEffect DEF VaultInv
<1> DEFINE n == ask[q].id
<1>2. n \in Id
  BY <1>1, RowsFacts DEF VaultInv
<1>3. nextValue' \in Nat /\ dead' \in SUBSET Nat
  <2>1. row.value \in Nat
    BY DEF Secret
  <2>2. nextValue \in Nat /\ dead \in SUBSET Nat
    BY DEF VaultInv, VaultTypeOK
  <2>3. nextValue' = nextValue \/ nextValue' = nextValue + 1
    BY <1>1
  <2>4. dead' = dead \/ dead' = dead \cup {row.value}
    BY <1>1
  <2>5. nextValue' \in Nat
    BY <2>2, <2>3
  <2>6. \A v \in dead' : v \in Nat
    BY <2>1, <2>2, <2>4
  <2> QED
    BY <2>5, <2>6
<1>4. /\ renewed' \in SUBSET Id
      /\ uses' \in [Id -> Nat] /\ rotations' \in [Id -> Nat]
      /\ ask' = [ask EXCEPT ![q] = Done] /\ UNCHANGED <<todo, seen, doubled>>
  <2>1. renewed' = IF ask[q].op \in {"update", "rotate"} THEN renewed \cup {n} ELSE renewed
    BY DEF Write
  <2>2. uses' = IF Counter(ask[q].op) = {"used"} THEN [uses EXCEPT ![n] = @ + 1] ELSE uses
    BY DEF Write
  <2>3. rotations' = IF ask[q].op = "rotate" THEN [rotations EXCEPT ![n] = @ + 1] ELSE rotations
    BY DEF Write
  <2>4. ask' = [ask EXCEPT ![q] = Done] /\ UNCHANGED <<todo, seen, doubled>>
    BY DEF Write
  <2> HIDE DEF n
  <2> QED
    BY <1>2, <2>1, <2>2, <2>3, <2>4 DEF VaultInv, VaultTypeOK
<1>5. VaultTypeOK'
  BY <1>1, <1>3, <1>4, DoneFacts DEF VaultInv, VaultTypeOK, Becomes, Id
<1>6. \A r \in Ask : ask'[r] = ask[r] \/ ask'[r].id = 0
  BY <1>4, DoneFacts DEF VaultInv, VaultTypeOK
<1>7. AskInv'
  BY <1>1, <1>4, <1>6 DEF VaultInv, AskInv, Becomes
<1> QED
  BY <1>5, <1>7 DEF VaultInv

LEMMA TimeInv ==
    ASSUME VaultInv, (\E n \in Rows : Expires(n)) \/ Tick \/ RevokeExpired \/ VaultDies
    PROVE  VaultInv'
<1>1. CASE \E n \in Rows : Expires(n)
  <2>1. PICK n \in Rows : Expires(n)
    BY <1>1
  <2>2. secrets' \in Seq(Secret) /\ Len(secrets') = Len(secrets) /\ Rows' = Rows
    BY <2>1, ExpiresEffect DEF VaultInv, Becomes
  <2> QED
    BY <2>1, <2>2 DEF VaultInv, VaultTypeOK, AskInv, Expires, Id
<1>2. CASE Tick
  <2>1. todo' \subseteq Rows /\ seen' \subseteq Rows /\ UNCHANGED <<secrets, ask>> /\ Rows' = Rows
    BY <1>2 DEF Tick, Due, Rows
  <2>2. Rows \subseteq Id
    BY RowsFacts DEF VaultInv
  <2> QED
    BY <1>2, <2>1, <2>2 DEF VaultInv, VaultTypeOK, AskInv, Tick, Id
<1>3. CASE RevokeExpired
  <2>1. PICK n \in Rows :
          /\ secrets' \in Seq(Secret) /\ Len(secrets') = Len(secrets) /\ Rows' = Rows
          /\ dead' = dead \cup {secrets[n].value} /\ todo' = todo \ {n}
    BY <1>3, RevokeEffect DEF VaultInv, Becomes
  <2>2. secrets[n].value \in Nat
    BY RowsFacts DEF VaultInv
  <2>3. UNCHANGED <<nextValue, ask, seen, renewed, uses, rotations, doubled>>
    BY <1>3 DEF RevokeExpired
  <2> QED
    BY <2>1, <2>2, <2>3 DEF VaultInv, VaultTypeOK, AskInv, Id
<1>4. CASE VaultDies
  <2>1. ask' \in [Ask -> [op : {"idle", "over", "update", "rotate", "revoke", "reveal", "inject"},
                          id : 0..MaxSecrets, used : Nat, version : Nat]]
    BY <1>4, DoneFacts DEF VaultInv, VaultTypeOK, VaultDies
  <2>2. \A r \in Ask : ask'[r].id = 0
    BY <1>4, DoneFacts DEF VaultDies
  <2>3. todo' = {} /\ seen' = {} /\ Rows' = Rows
    BY <1>4 DEF VaultDies, Rows
  <2> QED
    BY <1>4, <2>1, <2>2, <2>3 DEF VaultInv, VaultTypeOK, AskInv, VaultDies, Id
<1> QED
  BY <1>1, <1>2, <1>3, <1>4

LEMMA NextInv == VaultInv /\ [VaultNext]_vaultVars => VaultInv'
<1> SUFFICES ASSUME VaultInv, [VaultNext]_vaultVars PROVE VaultInv'
  OBVIOUS
<1>1. CASE UNCHANGED vaultVars
  BY <1>1 DEF VaultInv, VaultTypeOK, AskInv, Rows, Id, vaultVars
<1> QED
  BY <1>1, Steps, CreateInv, LoadInv, WriteInv, TimeInv DEF VaultInv

\* The state always has its type (Vault.tla, VaultTypeOK).
THEOREM VaultTypeCorrect == VaultSpec => []VaultTypeOK
<1>1. VaultSpec => []VaultInv
  BY InitInv, NextInv, PTL DEF VaultSpec
<1>2. VaultInv => VaultTypeOK
  BY DEF VaultInv
<1> QED
  BY <1>1, <1>2, PTL

-----------------------------------------------------------------------------
(* Secrets: the worker *)

\* What was expired is revoked: a row keeps its revocation but in a rotation, which renews it.
LEMMA ExpiredStep ==
    ASSUME VaultInv, ExpiredIsRevoked, [VaultNext]_vaultVars
    PROVE  ExpiredIsRevoked'
<1>0. \A m \in seen : m \in Rows
  BY DEF VaultInv, AskInv
<1>1. ASSUME NEW q \in Ask, CreateSecret(q) PROVE ExpiredIsRevoked'
  <2>1. \A m \in Rows : secrets'[m] = secrets[m]
    BY <1>1, CreateEffect DEF VaultInv
  <2>2. UNCHANGED <<todo, seen, renewed>>
    BY <1>1 DEF CreateSecret
  <2> QED
    BY <1>0, <2>1, <2>2 DEF ExpiredIsRevoked
<1>2. ASSUME NEW q \in Ask, Write(q) PROVE ExpiredIsRevoked'
  <2>1. PICK row \in Secret :
          /\ Written(ask[q], secrets[ask[q].id], row)
          /\ ask[q].id \in Rows /\ Becomes(ask[q].id, row)
    BY <1>2, WriteEffect DEF VaultInv
  <2>2. UNCHANGED <<todo, seen>>
    BY <1>2 DEF Write
  <2>3. renewed' = IF ask[q].op \in {"update", "rotate"} THEN renewed \cup {ask[q].id} ELSE renewed
    BY <1>2 DEF Write
  <2>4. ASSUME NEW m \in seen, m \notin todo, m \notin renewed' PROVE secrets'[m].revoked
    <3>1. secrets[m].revoked
      BY <2>3, <2>4 DEF ExpiredIsRevoked
    <3>2. CASE m = ask[q].id
      BY <1>0, <2>1, <2>3, <2>4, <3>1, <3>2 DEF Written, Becomes
    <3>3. CASE m # ask[q].id
      BY <1>0, <2>1, <3>1, <3>3 DEF Becomes
    <3> QED
      BY <3>2, <3>3
  <2> QED
    BY <2>2, <2>4 DEF ExpiredIsRevoked
<1>3. ASSUME NEW n \in Rows, Expires(n) PROVE ExpiredIsRevoked'
  <2>1. \A m \in Rows : secrets'[m].revoked = secrets[m].revoked
    BY <1>3, ExpiresEffect, RowsFacts DEF VaultInv, Becomes, Secret
  <2>2. UNCHANGED <<todo, seen, renewed>>
    BY <1>3 DEF Expires
  <2> QED
    BY <1>0, <2>1, <2>2 DEF ExpiredIsRevoked
<1>4. CASE Tick
  BY <1>4 DEF Tick, Due, ExpiredIsRevoked
<1>5. CASE RevokeExpired
  <2>1. PICK n \in Rows :
          n \in todo /\ Becomes(n, [secrets[n] EXCEPT !.revoked = TRUE]) /\ todo' = todo \ {n}
    BY <1>5, RevokeEffect DEF VaultInv
  <2>2. UNCHANGED <<seen, renewed>>
    BY <1>5 DEF RevokeExpired
  <2>3. \A m \in Rows : secrets'[m].revoked = IF m = n THEN TRUE ELSE secrets[m].revoked
    BY <2>1, RowsFacts DEF VaultInv, Becomes, Secret
  <2> QED
    BY <1>0, <2>1, <2>2, <2>3 DEF ExpiredIsRevoked
<1>6. CASE VaultDies
  BY <1>6 DEF VaultDies, ExpiredIsRevoked
<1>7. ASSUME NEW q \in Ask, NEW n \in Rows, NEW op \in Ops, Load(q, op, n)
      PROVE  ExpiredIsRevoked'
  BY <1>7 DEF Load, ExpiredIsRevoked
<1>8. CASE UNCHANGED vaultVars
  BY <1>8 DEF vaultVars, ExpiredIsRevoked
<1> QED
  BY <1>1, <1>2, <1>3, <1>4, <1>5, <1>6, <1>7, <1>8, Steps DEF VaultInv

\* What was expired when the worker looked is revoked when its tick has come past it, unless a
\* user renewed it since (secrets_handlers.go:379-388).
THEOREM ExpiredCorrect == VaultSpec => []ExpiredIsRevoked
<1>1. VaultInit => ExpiredIsRevoked
  BY DEF VaultInit, ExpiredIsRevoked
<1>2. VaultInv /\ ExpiredIsRevoked /\ [VaultNext]_vaultVars => VaultInv' /\ ExpiredIsRevoked'
  BY NextInv, ExpiredStep
<1> QED
  BY <1>1, <1>2, InitInv, PTL DEF VaultSpec

-----------------------------------------------------------------------------
(* Secrets: revocation *)

\* Every value that was ever used is older than the next one, and no two rows share a value.
ValueInv ==
    /\ \A v \in dead : v < nextValue
    /\ \A n \in Rows : secrets[n].value < nextValue
    /\ \A n \in Rows, m \in Rows : secrets[n].value = secrets[m].value => n = m

RevokedInv == RevokedForGood /\ ValueInv

\* A row takes a value that was its own or is new, and is not made good again with its own.
Renewal(n, row) ==
    /\ row.value \in {secrets[n].value, nextValue}
    /\ secrets[n].revoked /\ ~row.revoked => row.value = nextValue
    /\ nextValue' = IF row.value = nextValue THEN nextValue + 1 ELSE nextValue
    /\ dead' = IF row.revoked THEN dead \cup {row.value} ELSE dead

LEMMA RenewalStep ==
    ASSUME VaultInv, RevokedInv, NEW n \in Rows, NEW row \in Secret, Becomes(n, row), Renewal(n, row)
    PROVE  RevokedInv'
<1>1. nextValue \in Nat /\ row.value \in Nat /\ \A v \in dead : v \in Nat
  BY DEF VaultInv, VaultTypeOK, Secret
<1>2. \A m \in Rows : secrets[m].value \in Nat
  BY RowsFacts DEF VaultInv
<1>3. nextValue' \in Nat /\ nextValue =< nextValue' /\ row.value < nextValue'
  BY <1>1, <1>2 DEF Renewal, RevokedInv, ValueInv
<1>4. ASSUME NEW v \in dead' PROVE v < nextValue'
  <2>1. v \in dead \/ v = row.value
    BY <1>4 DEF Renewal
  <2> QED
    BY <1>1, <1>3, <2>1 DEF RevokedInv, ValueInv
<1>5. ASSUME NEW m \in Rows PROVE secrets'[m].value < nextValue'
  BY <1>1, <1>2, <1>3 DEF Becomes, RevokedInv, ValueInv
<1>6. ASSUME NEW m \in Rows, m # n PROVE secrets[m].value # row.value
  BY <1>1, <1>2, <1>6 DEF Renewal, RevokedInv, ValueInv
<1>7. ASSUME NEW m \in Rows, NEW k \in Rows, secrets'[m].value = secrets'[k].value PROVE m = k
  BY <1>6, <1>7 DEF Becomes, RevokedInv, ValueInv
<1>8. ASSUME NEW m \in Rows, ~secrets'[m].revoked PROVE secrets'[m].value \notin dead'
  <2>1. CASE m = n
    <3>1. secrets'[m] = row /\ ~row.revoked /\ dead' = dead
      BY <1>8, <2>1 DEF Becomes, Renewal
    <3>2. row.value = nextValue \/ (~secrets[n].revoked /\ row.value = secrets[n].value)
      BY <3>1 DEF Renewal
    <3>3. nextValue \notin dead
      BY <1>1 DEF RevokedInv, ValueInv
    <3> QED
      BY <3>1, <3>2, <3>3 DEF RevokedInv, RevokedForGood, Rows
  <2>2. CASE m # n
    <3>1. secrets'[m] = secrets[m] /\ secrets[m].value \notin dead
      BY <1>8, <2>2 DEF Becomes, RevokedInv, RevokedForGood, Rows
    <3>2. dead' \subseteq dead \cup {row.value}
      BY DEF Renewal
    <3> QED
      BY <1>6, <2>2, <3>1, <3>2
  <2> QED
    BY <2>1, <2>2
<1>9. Rows' = Rows /\ 1..Len(secrets') = Rows
  BY DEF Becomes, Rows
<1> QED
  BY <1>4, <1>5, <1>7, <1>8, <1>9 DEF RevokedInv, RevokedForGood, ValueInv

LEMMA CreateRevoked ==
    ASSUME VaultInv, RevokedInv, NEW q \in Ask, CreateSecret(q)
    PROVE  RevokedInv'
<1>1. PICK row \in Secret :
        /\ row.value = nextValue /\ Len(secrets') = Len(secrets) + 1
        /\ \A m \in Rows : secrets'[m] = secrets[m]
        /\ secrets'[Len(secrets) + 1] = row
  BY CreateEffect DEF VaultInv
<1>2. nextValue' = nextValue + 1 /\ dead' = dead
  BY DEF CreateSecret
<1>3. nextValue \in Nat /\ \A v \in dead : v \in Nat
  BY DEF VaultInv, VaultTypeOK
<1>4. Len(secrets) \in Nat /\ \A m \in Rows : secrets[m].value \in Nat
  BY RowsFacts DEF VaultInv
<1>5. Rows' = Rows \cup {Len(secrets) + 1} /\ 1..Len(secrets') = Rows'
  BY <1>1, <1>4 DEF Rows
<1>6. \A m \in Rows' : m \in Rows \/ secrets'[m].value = nextValue
  BY <1>1, <1>5
<1>7. \A v \in dead : v < nextValue'
  BY <1>2, <1>3 DEF RevokedInv, ValueInv
<1>8. \A m \in Rows' : secrets'[m].value < nextValue'
  BY <1>1, <1>2, <1>3, <1>4, <1>6 DEF RevokedInv, ValueInv
<1>9. ASSUME NEW m \in Rows', NEW k \in Rows', secrets'[m].value = secrets'[k].value PROVE m = k
  BY <1>1, <1>3, <1>4, <1>5, <1>9 DEF RevokedInv, ValueInv
<1>10. ASSUME NEW m \in Rows', ~secrets'[m].revoked PROVE secrets'[m].value \notin dead
  <2>1. nextValue \notin dead
    BY <1>3 DEF RevokedInv, ValueInv
  <2> QED
    BY <1>1, <1>6, <1>10, <2>1 DEF RevokedInv, RevokedForGood, Rows
<1> QED
  BY <1>2, <1>5, <1>7, <1>8, <1>9, <1>10 DEF RevokedInv, RevokedForGood, ValueInv

LEMMA RevokedStep ==
    ASSUME VaultInv, RevokedInv, [VaultNext]_vaultVars
    PROVE  RevokedInv'
<1>1. ASSUME NEW q \in Ask, Write(q) PROVE RevokedInv'
  <2>1. PICK row \in Secret :
          /\ Written(ask[q], secrets[ask[q].id], row)
          /\ ask[q].id \in Rows /\ Becomes(ask[q].id, row)
          /\ nextValue' = IF row.value = nextValue THEN nextValue + 1 ELSE nextValue
          /\ dead' = IF row.revoked THEN dead \cup {row.value} ELSE dead
    BY <1>1, WriteEffect DEF VaultInv
  <2>2. Renewal(ask[q].id, row)
    BY <2>1 DEF Written, Renewal
  <2> QED
    BY <2>1, <2>2, RenewalStep
<1>2. ASSUME NEW n \in Rows, Expires(n) PROVE RevokedInv'
  <2>1. \A m \in Rows : /\ secrets'[m].value = secrets[m].value
                        /\ secrets'[m].revoked = secrets[m].revoked
    BY <1>2, ExpiresEffect, RowsFacts DEF VaultInv, Becomes, Secret
  <2>2. nextValue' = nextValue /\ dead' = dead /\ Rows' = Rows
    BY <1>2, ExpiresEffect DEF VaultInv, Expires, Becomes
  <2> QED
    BY <2>1, <2>2 DEF RevokedInv, RevokedForGood, ValueInv, Rows
<1>3. CASE RevokeExpired
  <2>1. PICK n \in Rows :
          /\ Becomes(n, [secrets[n] EXCEPT !.revoked = TRUE])
          /\ dead' = dead \cup {secrets[n].value}
    BY <1>3, RevokeEffect DEF VaultInv
  <2> DEFINE row == [secrets[n] EXCEPT !.revoked = TRUE]
  <2>2. row \in Secret /\ row.value = secrets[n].value /\ row.revoked
    BY RowsFacts DEF VaultInv, Secret
  <2>3. Becomes(n, row)
    BY <2>1
  <2> HIDE DEF row
  <2>4. nextValue' = nextValue /\ secrets[n].value # nextValue
    BY <1>3, RowsFacts DEF RevokeExpired, RevokedInv, ValueInv, VaultInv
  <2>5. Renewal(n, row)
    BY <2>1, <2>2, <2>4 DEF Renewal
  <2> QED
    BY <2>2, <2>3, <2>5, RenewalStep
<1>4. ASSUME UNCHANGED <<secrets, nextValue, dead>> PROVE RevokedInv'
  BY <1>4 DEF RevokedInv, RevokedForGood, ValueInv, Rows
<1>5. CASE Tick \/ VaultDies
  BY <1>4, <1>5 DEF Tick, VaultDies
<1>6. ASSUME NEW q \in Ask, NEW n \in Rows, NEW op \in Ops, Load(q, op, n) PROVE RevokedInv'
  BY <1>4, <1>6 DEF Load
<1>7. CASE UNCHANGED vaultVars
  BY <1>4, <1>7 DEF vaultVars
<1> QED
  BY <1>1, <1>2, <1>3, <1>5, <1>6, <1>7, CreateRevoked, Steps DEF VaultInv

\* A value that was in a revoked row is never again in one that can be revealed or injected
\* (secrets_handlers.go:223-231, 255, 383).
THEOREM RevokedCorrect == VaultSpec => []RevokedForGood
<1>1. VaultInit => RevokedInv
  BY DEF VaultInit, RevokedInv, RevokedForGood, ValueInv, Rows
<1>2. VaultInv /\ RevokedInv /\ [VaultNext]_vaultVars => VaultInv' /\ RevokedInv'
  BY NextInv, RevokedStep
<1>3. RevokedInv => RevokedForGood
  BY DEF RevokedInv
<1> QED
  BY <1>1, <1>2, <1>3, InitInv, PTL DEF VaultSpec

-----------------------------------------------------------------------------
(* Secrets: counters *)

Column == {"used", "version"}

\* A counter of a row or of a request, and what was done that it counts.
Count(c, r) == IF c = "used" THEN r.used ELSE r.version
Did(c, n)   == IF c = "used" THEN uses[n] ELSE 1 + rotations[n]

RowCounts ==
    \A n \in Rows, c \in Column :
        /\ Count(c, secrets[n]) =< Did(c, n)
        /\ <<n, c>> \notin doubled => Count(c, secrets[n]) = Did(c, n)

\* What a request has read was true once, and is true still if it is alone at the counter.
AskCounts ==
    \A q \in Ask : ask[q].id # 0 =>
        /\ \A c \in Column : Count(c, ask[q]) =< Did(c, ask[q].id)
        /\ \A c \in Counter(ask[q].op) : <<ask[q].id, c>> \notin doubled =>
              /\ Count(c, ask[q]) = Count(c, secrets[ask[q].id])
              /\ \A r \in Ask : ask[r].id = ask[q].id /\ c \in Counter(ask[r].op) => r = q

NothingDone == \A n \in Id \ Rows : uses[n] = 0 /\ rotations[n] = 0

CountInv == RowCounts /\ AskCounts /\ NothingDone

LEMMA CountFacts ==
    ASSUME VaultInv
    PROVE  /\ \A n \in Rows, c \in Column : Count(c, secrets[n]) \in Nat
           /\ \A n \in Id, c \in Column : Did(c, n) \in Nat
           /\ \A q \in Ask, c \in Column : Count(c, ask[q]) \in Nat
           /\ \A q \in Ask : ask[q].id # 0 => ask[q].id \in Rows /\ Counter(ask[q].op) \subseteq Column
           /\ Rows \subseteq Id
<1>1. /\ \A n \in Rows : secrets[n].used \in Nat /\ secrets[n].version \in Nat
      /\ Rows \subseteq Id
  BY RowsFacts DEF VaultInv
<1>2. \A n \in Id : uses[n] \in Nat /\ rotations[n] \in Nat
  BY DEF VaultInv, VaultTypeOK
<1>3. \A q \in Ask : ask[q].used \in Nat /\ ask[q].version \in Nat
  BY DEF VaultInv, VaultTypeOK
<1>4. \A q \in Ask : ask[q].id # 0 => ask[q].id \in Rows /\ ask[q].op \in Ops
  BY DEF VaultInv, AskInv
<1> QED
  BY <1>1, <1>2, <1>3, <1>4, CounterFacts DEF Count, Did, Column

LEMMA CountsOf == CountInv => CountsUnlessRaced
<1> SUFFICES ASSUME CountInv, NEW n \in Rows
             PROVE  /\ secrets[n].used =< uses[n]
                    /\ secrets[n].version =< 1 + rotations[n]
                    /\ <<n, "used">> \notin doubled => secrets[n].used = uses[n]
                    /\ <<n, "version">> \notin doubled => secrets[n].version = 1 + rotations[n]
  BY DEF CountsUnlessRaced, Rows
<1>1. /\ Count("used", secrets[n]) =< Did("used", n)
      /\ <<n, "used">> \notin doubled => Count("used", secrets[n]) = Did("used", n)
  BY DEF CountInv, RowCounts, Column
<1>2. /\ Count("version", secrets[n]) =< Did("version", n)
      /\ <<n, "version">> \notin doubled => Count("version", secrets[n]) = Did("version", n)
  BY DEF CountInv, RowCounts, Column
<1> QED
  BY <1>1, <1>2 DEF Count, Did

\* A step that leaves the counters of the rows there were, and adds no request.
Quiet ==
    /\ Rows \subseteq Rows'
    /\ \A n \in Rows, c \in Column : Count(c, secrets'[n]) = Count(c, secrets[n])
    /\ \A n \in Rows' \ Rows, c \in Column : Count(c, secrets'[n]) = Count(c, [used |-> 0, version |-> 1])
    /\ \A q \in Ask : ask'[q] = ask[q] \/ ask'[q] = Done
    /\ Rows' \subseteq Id
    /\ UNCHANGED <<uses, rotations, doubled>>

LEMMA QuietStep ==
    ASSUME VaultInv, CountInv, Quiet
    PROVE  CountInv'
<1>1. \A c \in Column : \A n : Did(c, n)' = Did(c, n)
  BY DEF Quiet, Did
<1>2. RowCounts'
  <2> SUFFICES ASSUME NEW n \in Rows', NEW c \in Column
               PROVE  /\ Count(c, secrets'[n]) =< Did(c, n)'
                      /\ <<n, c>> \notin doubled' => Count(c, secrets'[n]) = Did(c, n)'
    BY Zenon DEF RowCounts
  <2>1. CASE n \in Rows
    BY <1>1, <2>1 DEF CountInv, RowCounts, Quiet
  <2>2. CASE n \notin Rows
    <3>1. Count(c, secrets'[n]) = IF c = "used" THEN 0 ELSE 1
      BY <2>2 DEF Quiet, Count
    <3>2. uses[n] = 0 /\ rotations[n] = 0
      BY <2>2 DEF CountInv, NothingDone, Quiet
    <3> QED
      BY <1>1, <3>1, <3>2 DEF Did
  <2> QED
    BY <2>1, <2>2
<1>3. AskCounts'
  <2> SUFFICES ASSUME NEW q \in Ask, ask'[q].id # 0
               PROVE  /\ \A c \in Column : Count(c, ask'[q]) =< Did(c, ask[q].id)'
                      /\ \A c \in Counter(ask'[q].op) : <<ask'[q].id, c>> \notin doubled' =>
                            /\ Count(c, ask'[q]) = Count(c, secrets'[ask'[q].id])
                            /\ \A r \in Ask : ask'[r].id = ask'[q].id /\ c \in Counter(ask'[r].op)
                                                 => r = q
    BY Zenon DEF AskCounts
  <2>1. ask'[q] = ask[q] /\ ask[q].id # 0
    BY DoneFacts DEF Quiet
  <2>2. ask[q].id \in Rows /\ Counter(ask[q].op) \subseteq Column
    BY <2>1, CountFacts
  <2>3. \A r \in Ask : ask'[r].id = ask[q].id => ask'[r] = ask[r]
    BY <2>1, DoneFacts DEF Quiet
  <2>4. \A c \in Column : Count(c, ask'[q]) =< Did(c, ask[q].id)'
    BY <1>1, <2>1 DEF CountInv, AskCounts
  <2>5. ASSUME NEW c \in Counter(ask[q].op), <<ask[q].id, c>> \notin doubled
        PROVE  /\ Count(c, ask[q]) = Count(c, secrets'[ask[q].id])
               /\ \A r \in Ask : ask'[r].id = ask[q].id /\ c \in Counter(ask'[r].op) => r = q
    <3>1. /\ Count(c, ask[q]) = Count(c, secrets[ask[q].id])
          /\ \A r \in Ask : ask[r].id = ask[q].id /\ c \in Counter(ask[r].op) => r = q
      BY <2>1, <2>5 DEF CountInv, AskCounts
    <3>2. Count(c, secrets'[ask[q].id]) = Count(c, secrets[ask[q].id])
      BY <2>2, <2>5 DEF Quiet
    <3> QED
      BY <2>3, <3>1, <3>2
  <2>6. doubled' = doubled
    BY DEF Quiet
  <2> QED
    BY <2>1, <2>4, <2>5, <2>6
<1>4. NothingDone'
  BY DEF Quiet, CountInv, NothingDone, Id
<1> QED
  BY <1>2, <1>3, <1>4 DEF CountInv

\* A row that becomes another one with the same counters.
LEMMA SameCounts ==
    ASSUME VaultInv, NEW n \in Rows, NEW row \in Secret, Becomes(n, row),
           row.used = secrets[n].used, row.version = secrets[n].version,
           UNCHANGED <<ask, uses, rotations, doubled>>
    PROVE  Quiet
<1>1. \A m \in Rows : secrets'[m] = IF m = n THEN row ELSE secrets[m]
  BY DEF Becomes
<1>2. \A m \in Rows, c \in Column : Count(c, secrets'[m]) = Count(c, secrets[m])
  BY <1>1 DEF Count
<1>3. Rows' = Rows /\ Rows \subseteq Id
  BY RowsFacts DEF Becomes, VaultInv
<1> QED
  BY <1>2, <1>3 DEF Quiet

LEMMA QuietSteps ==
    ASSUME VaultInv,
           \/ \E q \in Ask : CreateSecret(q)
           \/ \E n \in Rows : Expires(n)
           \/ Tick \/ RevokeExpired \/ VaultDies \/ UNCHANGED vaultVars
    PROVE  Quiet
<1>1. ASSUME NEW q \in Ask, CreateSecret(q) PROVE Quiet
  <2>1. PICK row \in Secret :
          /\ row.version = 1 /\ row.used = 0 /\ Len(secrets') = Len(secrets) + 1
          /\ \A m \in Rows : secrets'[m] = secrets[m]
          /\ secrets'[Len(secrets) + 1] = row
    BY <1>1, CreateEffect DEF VaultInv
  <2>2. Rows' = Rows \cup {Len(secrets) + 1} /\ Rows \subseteq Id
    BY <2>1, RowsFacts DEF Rows, VaultInv
  <2>3. Rows' \subseteq Id
    <3>1. Len(secrets) < MaxSecrets /\ Len(secrets) \in Nat
      BY <1>1, RowsFacts DEF CreateSecret, VaultInv
    <3>2. Len(secrets) + 1 \in Id
      BY <3>1, VaultAssumption DEF Id
    <3> QED
      BY <2>2, <3>2
  <2>4. \A m \in Rows' \ Rows, c \in Column :
          Count(c, secrets'[m]) = Count(c, [used |-> 0, version |-> 1])
    BY <2>1, <2>2 DEF Count
  <2>5. \A r \in Ask : ask'[r] = ask[r] \/ ask'[r] = Done
    BY <1>1 DEF CreateSecret, VaultInv, VaultTypeOK
  <2>6. \A m \in Rows, c \in Column : Count(c, secrets'[m]) = Count(c, secrets[m])
    BY <2>1
  <2>7. UNCHANGED <<uses, rotations, doubled>>
    BY <1>1 DEF CreateSecret
  <2> QED
    BY <2>2, <2>3, <2>4, <2>5, <2>6, <2>7 DEF Quiet
<1>2. ASSUME NEW n \in Rows, Expires(n) PROVE Quiet
  <2> DEFINE row == [secrets[n] EXCEPT !.expiry = "past"]
  <2>1. row \in Secret /\ row.used = secrets[n].used /\ row.version = secrets[n].version
    BY RowsFacts DEF VaultInv, Secret, Expiry
  <2>2. Becomes(n, row)
    BY <1>2, ExpiresEffect DEF VaultInv
  <2>3. UNCHANGED <<ask, uses, rotations, doubled>>
    BY <1>2 DEF Expires
  <2> HIDE DEF row
  <2> QED
    BY <2>1, <2>2, <2>3, SameCounts
<1>3. CASE RevokeExpired
  <2>1. PICK n \in Rows : Becomes(n, [secrets[n] EXCEPT !.revoked = TRUE])
    BY <1>3, RevokeEffect DEF VaultInv
  <2> DEFINE row == [secrets[n] EXCEPT !.revoked = TRUE]
  <2>2. row \in Secret /\ row.used = secrets[n].used /\ row.version = secrets[n].version
    BY RowsFacts DEF VaultInv, Secret
  <2>3. UNCHANGED <<ask, uses, rotations, doubled>>
    BY <1>3 DEF RevokeExpired
  <2>4. Becomes(n, row)
    BY <2>1
  <2> HIDE DEF row
  <2> QED
    BY <2>2, <2>3, <2>4, SameCounts
<1>4. CASE Tick \/ VaultDies \/ UNCHANGED vaultVars
  <2>1. UNCHANGED <<secrets, uses, rotations, doubled>>
    BY <1>4 DEF Tick, VaultDies, vaultVars
  <2>2. \A r \in Ask : ask'[r] = ask[r] \/ ask'[r] = Done
    BY <1>4 DEF Tick, VaultDies, vaultVars
  <2>3. Rows' = Rows /\ Rows \subseteq Id
    BY <2>1, RowsFacts DEF VaultInv, Rows
  <2> QED
    BY <2>1, <2>2, <2>3 DEF Quiet
<1> QED
  BY <1>1, <1>2, <1>3, <1>4

\* A request reads a row: what it reads is true, and whoever is at the counter is told apart.
LEMMA LoadCounts ==
    ASSUME VaultInv, CountInv, NEW q \in Ask, NEW n \in Rows, NEW op \in Ops, Load(q, op, n)
    PROVE  CountInv'
<1> DEFINE read == [op |-> op, id |-> n, used |-> secrets[n].used, version |-> secrets[n].version]
<1>1. \A r \in Ask : ask'[r] = IF r = q THEN read ELSE ask[r]
  BY DEF Load, VaultInv, VaultTypeOK
<1>2. /\ read.id = n /\ read.op = op
      /\ \A c \in Column : Count(c, read) = Count(c, secrets[n])
  BY DEF Count
<1> HIDE DEF read
<1>3. UNCHANGED <<secrets, uses, rotations>> /\ ask[q].id = 0
  BY DoneFacts DEF Load
<1>4. \A c \in Column : \A m : Did(c, m)' = Did(c, m)
  BY <1>3 DEF Did
<1>5. doubled \subseteq doubled'
  BY DEF Load
<1>6. n # 0 /\ Counter(op) \subseteq Column
  BY RowsFacts, CounterFacts DEF Column, Rows, VaultInv
<1>7. ASSUME NEW c \in Counter(op), NEW r \in Ask, ask[r].id = n, c \in Counter(ask[r].op)
      PROVE  <<n, c>> \in doubled'
  BY <1>7 DEF Load
<1>8. RowCounts'
  <2>1. UNCHANGED <<secrets>> /\ Rows' = Rows
    BY <1>3 DEF Rows
  <2> SUFFICES ASSUME NEW m \in Rows', NEW c \in Column
               PROVE  /\ Count(c, secrets'[m]) =< Did(c, m)'
                      /\ <<m, c>> \notin doubled' => Count(c, secrets'[m]) = Did(c, m)'
    BY Zenon DEF RowCounts
  <2> QED
    BY <1>4, <1>5, <2>1 DEF CountInv, RowCounts
<1>9. AskCounts'
  <2> SUFFICES ASSUME NEW p \in Ask, ask'[p].id # 0
               PROVE  /\ \A c \in Column : Count(c, ask'[p]) =< Did(c, ask[p].id)'
                      /\ \A c \in Counter(ask'[p].op) : <<ask'[p].id, c>> \notin doubled' =>
                            /\ Count(c, ask'[p]) = Count(c, secrets'[ask'[p].id])
                            /\ \A r \in Ask : ask'[r].id = ask'[p].id /\ c \in Counter(ask'[r].op)
                                                 => r = p
    BY Zenon DEF AskCounts
  <2>1. CASE p = q
    <3>1. ask'[p] = read
      BY <1>1, <2>1
    <3>2. \A c \in Column : Count(c, read) =< Did(c, n)
      BY <1>2 DEF CountInv, RowCounts
    <3>3. \A c \in Column : Count(c, ask'[p]) =< Did(c, ask[p].id)'
      BY <1>2, <1>4, <3>1, <3>2
    <3>4. \A c \in Counter(op) : Count(c, read) = Count(c, secrets'[n])
      BY <1>2, <1>3, <1>6
    <3>5. ASSUME NEW c \in Counter(op), <<n, c>> \notin doubled', NEW r \in Ask,
                 ask'[r].id = n, c \in Counter(ask'[r].op)
          PROVE  r = p
      BY <1>1, <1>7, <2>1, <3>5
    <3> QED
      BY <1>2, <3>1, <3>3, <3>4, <3>5
  <2>2. CASE p # q
    <3>1. ask'[p] = ask[p] /\ ask[p].id # 0
      BY <1>1, <2>2
    <3>2. \A c \in Column : Count(c, ask'[p]) =< Did(c, ask[p].id)'
      BY <1>4, <3>1 DEF CountInv, AskCounts
    <3>3. ASSUME NEW c \in Counter(ask[p].op), <<ask[p].id, c>> \notin doubled'
          PROVE  /\ Count(c, ask[p]) = Count(c, secrets'[ask[p].id])
                 /\ \A r \in Ask : ask'[r].id = ask[p].id /\ c \in Counter(ask'[r].op) => r = p
      <4>1. <<ask[p].id, c>> \notin doubled
        BY <1>5, <3>3
      <4>2. /\ Count(c, ask[p]) = Count(c, secrets[ask[p].id])
            /\ \A r \in Ask : ask[r].id = ask[p].id /\ c \in Counter(ask[r].op) => r = p
        BY <3>1, <4>1 DEF CountInv, AskCounts
      <4>3. ~(ask[p].id = n /\ c \in Counter(op))
        BY <1>7, <3>3
      <4> QED
        BY <1>1, <1>2, <1>3, <4>2, <4>3
    <3> QED
      BY <3>1, <3>2, <3>3
  <2> QED
    BY <2>1, <2>2
<1>10. NothingDone'
  BY <1>3 DEF CountInv, NothingDone, Rows, Id
<1> QED
  BY <1>8, <1>9, <1>10 DEF CountInv

\* A request writes its row: alone at its counter, it counts exactly one more.
LEMMA WriteCounts ==
    ASSUME VaultInv, CountInv, NEW q \in Ask, Write(q)
    PROVE  CountInv'
<1> DEFINE n == ask[q].id
<1>1. PICK row \in Secret :
        Written(ask[q], secrets[ask[q].id], row) /\ ask[q].id \in Rows /\ Becomes(ask[q].id, row)
  BY WriteEffect DEF VaultInv
<1>2. /\ uses' = IF Counter(ask[q].op) = {"used"} THEN [uses EXCEPT ![n] = @ + 1] ELSE uses
      /\ rotations' = IF ask[q].op = "rotate" THEN [rotations EXCEPT ![n] = @ + 1] ELSE rotations
      /\ ask' = [ask EXCEPT ![q] = Done] /\ doubled' = doubled /\ n # 0
  BY DEF Write
<1>3. /\ uses \in [Id -> Nat] /\ rotations \in [Id -> Nat] /\ n \in Id /\ n \in Rows
      /\ \A r \in Ask : ask'[r] = IF r = q THEN Done ELSE ask[r]
  BY <1>1, <1>2, CountFacts DEF VaultInv, VaultTypeOK
<1>4. \A m \in Id, c \in Column :
         Did(c, m)' = IF m = n /\ c \in Counter(ask[q].op) THEN Did(c, m) + 1 ELSE Did(c, m)
  <2> HIDE DEF n
  <2>1. \A m \in Id : uses'[m] = IF m = n /\ "used" \in Counter(ask[q].op) THEN uses[m] + 1 ELSE uses[m]
    BY <1>2, <1>3, CounterFacts
  <2>2. \A m \in Id : rotations'[m] =
           IF m = n /\ "version" \in Counter(ask[q].op) THEN rotations[m] + 1 ELSE rotations[m]
    BY <1>2, <1>3, CounterFacts
  <2>3. \A m \in Id : uses[m] \in Nat /\ rotations[m] \in Nat
    BY <1>3
  <2> QED
    BY <2>1, <2>2, <2>3 DEF Did, Column
<1>5. \A c \in Column :
         Count(c, row) = IF c \in Counter(ask[q].op) THEN Count(c, ask[q]) + 1 ELSE Count(c, secrets[n])
  BY <1>1 DEF Written, Count, Column
<1>6. /\ Rows' = Rows /\ Rows \subseteq Id
      /\ \A m \in Rows : secrets'[m] = IF m = n THEN row ELSE secrets[m]
  BY <1>1, CountFacts DEF Becomes
<1> HIDE DEF n
<1>7. n = ask[q].id
  BY DEF n
<1>8. /\ \A m \in Rows, c \in Column : Count(c, secrets[m]) \in Nat
      /\ \A m \in Id, c \in Column : Did(c, m) \in Nat
      /\ \A r \in Ask, c \in Column : Count(c, ask[r]) \in Nat
  BY CountFacts
<1>9. RowCounts'
  <2> SUFFICES ASSUME NEW m \in Rows', NEW c \in Column
               PROVE  /\ Count(c, secrets'[m]) =< Did(c, m)'
                      /\ <<m, c>> \notin doubled' => Count(c, secrets'[m]) = Did(c, m)'
    BY Zenon DEF RowCounts
  <2>1. m \in Rows /\ m \in Id
    BY <1>6
  <2>2. CASE m = n /\ c \in Counter(ask[q].op)
    <3>1. Count(c, secrets'[m]) = Count(c, ask[q]) + 1 /\ Did(c, m)' = Did(c, n) + 1
      BY <1>4, <1>5, <1>6, <2>1, <2>2
    <3>2. Count(c, ask[q]) =< Did(c, n)
      BY <1>2, <1>7 DEF CountInv, AskCounts
    <3>3. <<n, c>> \notin doubled => Count(c, ask[q]) = Did(c, n)
      <4>1. <<n, c>> \notin doubled => Count(c, ask[q]) = Count(c, secrets[n])
        BY <1>2, <1>7, <2>2 DEF CountInv, AskCounts
      <4>2. <<n, c>> \notin doubled => Count(c, secrets[n]) = Did(c, n)
        BY <1>3 DEF CountInv, RowCounts
      <4> QED
        BY <4>1, <4>2
    <3>4. Count(c, ask[q]) \in Nat /\ Did(c, n) \in Nat
      BY <1>3, <1>8
    <3> QED
      BY <1>2, <2>2, <3>1, <3>2, <3>3, <3>4
  <2>3. CASE ~(m = n /\ c \in Counter(ask[q].op))
    <3>1. Count(c, secrets'[m]) = Count(c, secrets[m]) /\ Did(c, m)' = Did(c, m)
      BY <1>4, <1>5, <1>6, <2>1, <2>3
    <3> QED
      BY <1>2, <2>1, <3>1 DEF CountInv, RowCounts
  <2> QED
    BY <2>2, <2>3
<1>10. AskCounts'
  <2> SUFFICES ASSUME NEW p \in Ask, ask'[p].id # 0
               PROVE  /\ \A c \in Column : Count(c, ask'[p]) =< Did(c, ask[p].id)'
                      /\ \A c \in Counter(ask'[p].op) : <<ask'[p].id, c>> \notin doubled' =>
                            /\ Count(c, ask'[p]) = Count(c, secrets'[ask'[p].id])
                            /\ \A r \in Ask : ask'[r].id = ask'[p].id /\ c \in Counter(ask'[r].op)
                                                 => r = p
    BY Zenon DEF AskCounts
  <2>1. p # q /\ ask'[p] = ask[p] /\ ask[p].id # 0
    BY <1>3, DoneFacts
  <2>2. ask[p].id \in Rows /\ ask[p].id \in Id /\ Counter(ask[p].op) \subseteq Column
    BY <1>6, <2>1, CountFacts
  <2>3. ASSUME NEW c \in Column PROVE Count(c, ask'[p]) =< Did(c, ask[p].id)'
    <3>1. Did(c, ask[p].id)' = Did(c, ask[p].id) \/ Did(c, ask[p].id)' = Did(c, ask[p].id) + 1
      BY <1>4, <2>1, <2>2
    <3>2. Count(c, ask[p]) =< Did(c, ask[p].id)
      BY <2>1 DEF CountInv, AskCounts
    <3>3. Count(c, ask[p]) \in Nat /\ Did(c, ask[p].id) \in Nat
      BY <1>8, <2>2
    <3> QED
      BY <2>1, <3>1, <3>2, <3>3
  <2>4. ASSUME NEW c \in Counter(ask[p].op), <<ask[p].id, c>> \notin doubled
        PROVE  /\ Count(c, ask[p]) = Count(c, secrets'[ask[p].id])
               /\ \A r \in Ask : ask'[r].id = ask[p].id /\ c \in Counter(ask'[r].op) => r = p
    <3>1. /\ Count(c, ask[p]) = Count(c, secrets[ask[p].id])
          /\ \A r \in Ask : ask[r].id = ask[p].id /\ c \in Counter(ask[r].op) => r = p
      BY <2>1, <2>4 DEF CountInv, AskCounts
    <3>2. ~(n = ask[p].id /\ c \in Counter(ask[q].op))
      BY <1>7, <2>1, <3>1
    <3>3. Count(c, secrets'[ask[p].id]) = Count(c, secrets[ask[p].id])
      BY <1>5, <1>6, <2>2, <3>2
    <3>4. \A r \in Ask : ask'[r].id = ask[p].id => ask'[r] = ask[r]
      BY <1>3, <2>1, DoneFacts
    <3> QED
      BY <3>1, <3>3, <3>4
  <2> QED
    BY <1>2, <2>1, <2>3, <2>4
<1>11. NothingDone'
  BY <1>2, <1>3, <1>6 DEF CountInv, NothingDone, Id
<1> QED
  BY <1>9, <1>10, <1>11 DEF CountInv

\* The usage count and the key version never say more than was done, and exactly what was done
\* unless two requests were at the counter (secrets_handlers.go:229, 287, 354).
THEOREM CountsCorrect == VaultSpec => []CountsUnlessRaced
<1>1. VaultInit => CountInv
  <2> SUFFICES ASSUME VaultInit PROVE CountInv
    OBVIOUS
  <2>1. Rows = {} /\ \A q \in Ask : ask[q].id = 0
    BY DoneFacts DEF VaultInit, Rows
  <2> QED
    BY <2>1 DEF VaultInit, CountInv, RowCounts, AskCounts, NothingDone
<1>2. VaultInv /\ CountInv /\ [VaultNext]_vaultVars => VaultInv' /\ CountInv'
  BY NextInv, Steps, QuietSteps, QuietStep, LoadCounts, WriteCounts DEF VaultInv
<1> QED
  BY <1>1, <1>2, CountsOf, InitInv, PTL DEF VaultSpec

-----------------------------------------------------------------------------
(* Files: a job and its shape *)

JobSet  == [at : Stage, op : {"none", "apply", "rollback"}, content : Content,
            old : Content \cup {"empty", "torn"}, to : Name \cup {"none", "gone"},
            answer : {"none", "ok", "invalid", "error"}]
SaveSet == [at : {"idle", "waiting", "over"}, view : Content \cup {"none", "torn"}]
Work    == {"read", "valid", "opened", "written", "renamed", "restoring"}
Open    == {"opened", "restoring"}

\* What a stage says of the other fields of a job.
ShapeOf(j) ==
    /\ j.at \in Work \cup {"sent"} => j.op \in {"apply", "rollback"}
    /\ j.at \in {"read", "renamed", "restoring"} => j.op = "apply"
    /\ j.to = "none" <=> j.at \notin Open
    /\ j.at = "restoring" => j.to \in {"file", "gone"}

\* A request that has not begun has no job, and the file has a content, though maybe a broken one.
ShapeInv ==
    /\ \A q \in Save : ShapeOf(job[q]) /\ (save[q].at = "idle" => job[q].at = "none")
    /\ disk["file"] \in Content \cup {"empty", "torn"}

FilesInv == FilesTypeOK /\ ShapeInv

-----------------------------------------------------------------------------
(* Files: what becomes of a job *)

LEMMA NoJobFacts ==
    /\ NoJob \in JobSet
    /\ NoJob.at = "none" /\ NoJob.op = "none" /\ NoJob.to = "none"
  BY DEF NoJob, JobSet, Stage, Content

\* A stage is changed, or a stage and the file that is open, or the content that was read.
LEMMA JobChange ==
    ASSUME NEW j \in JobSet, NEW a \in Stage, NEW t \in Name \cup {"none", "gone"},
           NEW o \in Content \cup {"empty", "torn"}
    PROVE  /\ [j EXCEPT !.at = a] \in JobSet
           /\ [j EXCEPT !.to = t] \in JobSet
           /\ [j EXCEPT !.at = a, !.to = t] \in JobSet
           /\ [j EXCEPT !.at = a, !.old = o] \in JobSet
  BY DEF JobSet

LEMMA AnsweredFacts ==
    ASSUME FilesTypeOK, NEW q \in Save, NEW answer \in {"ok", "invalid", "error"}
    PROVE  /\ Answered(q, answer) \in JobSet
           /\ Answered(q, answer).at \in {"none", "answered"} /\ Answered(q, answer).to = "none"
           /\ Answered(q, answer).at = "answered" => save[q].at = "waiting"
<1>1. job[q].op \in {"none", "apply", "rollback"}
  BY DEF FilesTypeOK
<1> QED
  BY <1>1, NoJobFacts DEF Answered, NoJob, JobSet, Stage, Content

\* One job becomes another one.
JobBecomes(q, j) == job' \in [Save -> JobSet] /\ \A r \in Save : job'[r] = IF r = q THEN j ELSE job[r]

LEMMA JobExcept ==
    ASSUME FilesTypeOK, NEW q \in Save, NEW j \in JobSet, job' = [job EXCEPT ![q] = j]
    PROVE  JobBecomes(q, j)
  BY DEF FilesTypeOK, JobSet, JobBecomes

\* A command ends.
LEMMA ReplyEffect ==
    ASSUME FilesTypeOK, NEW q \in Save, NEW answer \in {"ok", "invalid", "error"},
           job' = Reply(q, answer)
    PROVE  JobBecomes(q, Answered(q, answer))
  BY AnsweredFacts, JobExcept DEF Reply

LEMMA Named == FilesTypeOK => \A q \in Save : job[q] \in JobSet /\ Tmp(q) \in {"apply.tmp", "rollback.tmp"}
  BY DEF FilesTypeOK, JobSet, Tmp

\* A file is opened.
LEMMA OpensEffect ==
    ASSUME FilesTypeOK, NEW q \in Save, NEW name \in Name, NEW stage \in Open, Opens(q, name, stage)
    PROVE  /\ \E j \in JobSet : /\ JobBecomes(q, j)
                                /\ j.at = stage /\ j.to = name /\ j.op = job[q].op
                                /\ j.content = job[q].content /\ j.old = job[q].old
           /\ disk' \in [Name -> Content \cup {"none", "empty", "torn"}]
           /\ disk'[name] = "empty" /\ \A n \in Name : n # name => disk'[n] = disk[n]
<1> DEFINE j == [job[q] EXCEPT !.at = stage, !.to = name]
<1>1. job' = [job EXCEPT ![q] = j]
  BY DEF Opens
<1>2. j \in JobSet
  BY Named, JobChange DEF Stage, Open, Name
<1>3. j.at = stage /\ j.to = name /\ j.op = job[q].op /\ j.content = job[q].content /\ j.old = job[q].old
  BY Named DEF JobSet
<1>4. JobBecomes(q, j)
  BY <1>1, <1>2, JobExcept
<1>5. /\ disk' \in [Name -> Content \cup {"none", "empty", "torn"}]
      /\ disk'[name] = "empty" /\ \A n \in Name : n # name => disk'[n] = disk[n]
  BY DEF Opens, FilesTypeOK
<1> QED
  BY <1>2, <1>3, <1>4, <1>5

\* A content is put into a file.
LEMMA PutEffect ==
    ASSUME FilesTypeOK, NEW name \in Name, NEW content \in Content \cup {"empty", "torn"}, Put(name, content)
    PROVE  /\ disk' \in [Name -> Content \cup {"none", "empty", "torn"}]
           /\ \A n \in Name : n # name => disk'[n] = disk[n]
           /\ disk'[name] \in {content, "torn"}
           /\ disk[name] = "empty" => disk'[name] = content
<1>1. PICK now \in {content} \cup (IF disk[name] = "empty" THEN {} ELSE {"torn"}) :
        disk' = [disk EXCEPT ![name] = now]
  BY DEF Put
<1>2. /\ now \in {content, "torn"} /\ now \in Content \cup {"none", "empty", "torn"}
      /\ disk[name] = "empty" => now = content
  BY <1>1
<1>3. disk \in [Name -> Content \cup {"none", "empty", "torn"}]
  BY DEF FilesTypeOK
<1> QED
  BY <1>1, <1>2, <1>3

\* A file loses its name: the jobs that have it open, or the one whose name it takes, notice.
LEMMA MovedEffect ==
    ASSUME FilesInv, NEW from \in {"apply.tmp", "rollback.tmp"}, NEW to \in {"file", "gone"}
    PROVE  /\ Moved(from, to) \in [Save -> JobSet]
           /\ \A r \in Save :
                /\ Moved(from, to)[r].at = job[r].at /\ Moved(from, to)[r].op = job[r].op
                /\ Moved(from, to)[r].old = job[r].old
                /\ Moved(from, to)[r].content = job[r].content
                /\ Moved(from, to)[r].to = IF job[r].to = from THEN to
                                           ELSE IF job[r].to = to THEN "gone" ELSE job[r].to
<1> SUFFICES ASSUME NEW r \in Save
             PROVE  /\ Moved(from, to)[r] \in JobSet
                    /\ Moved(from, to)[r].at = job[r].at /\ Moved(from, to)[r].op = job[r].op
                    /\ Moved(from, to)[r].old = job[r].old
                    /\ Moved(from, to)[r].content = job[r].content
                    /\ Moved(from, to)[r].to = IF job[r].to = from THEN to
                                               ELSE IF job[r].to = to THEN "gone" ELSE job[r].to
  <2>1. Moved(from, to) = [r \in Save |-> Moved(from, to)[r]]
    BY Zenon DEF Moved
  <2> QED
    BY <2>1
<1>1. job[r] \in JobSet
  BY Named DEF FilesInv
<1>2. CASE job[r].to = from
  <2>1. Moved(from, to)[r] = [job[r] EXCEPT !.to = to]
    BY <1>2 DEF Moved
  <2> QED
    BY <1>1, <1>2, <2>1 DEF JobSet, Name
<1>3. CASE job[r].to # from /\ job[r].to = to
  <2>1. Moved(from, to)[r] = [job[r] EXCEPT !.to = "gone"]
    BY <1>3 DEF Moved
  <2> QED
    BY <1>1, <1>3, <2>1 DEF JobSet, Name
<1>4. CASE job[r].to # from /\ job[r].to # to
  <2>1. Moved(from, to)[r] = job[r]
    BY <1>4 DEF Moved
  <2> QED
    BY <1>1, <1>4, <2>1
<1> QED
  BY <1>2, <1>3, <1>4

-----------------------------------------------------------------------------
(* Files: types and shapes *)

LEMMA InitFilesInv == FilesInit => FilesInv
<1> SUFFICES ASSUME FilesInit PROVE FilesInv
  OBVIOUS
<1>1. job \in [Save -> JobSet] /\ \A q \in Save : job[q] = NoJob
  BY NoJobFacts DEF FilesInit
<1>2. save \in [Save -> SaveSet]
  BY DEF FilesInit, SaveSet
<1>3. disk \in [Name -> Content \cup {"none", "empty", "torn"}] /\ disk["file"] = "original"
  BY DEF FilesInit, Content, Name
<1>4. FilesTypeOK
  BY <1>1, <1>2, <1>3 DEF FilesInit, FilesTypeOK, JobSet, SaveSet, Content
<1>5. ShapeInv
  BY <1>1, <1>3, NoJobFacts DEF ShapeInv, ShapeOf, Content, Work, Open
<1> QED
  BY <1>4, <1>5 DEF FilesInv

\* The backend's steps change requests, and jobs that are not at work.
LEMMA BackendInv ==
    ASSUME FilesInv,
           \/ FileLock \/ FileUnlock \/ FilesBackendDies
           \/ \E q \in Save : ReadContent(q) \/ Apply(q) \/ Rollback(q) \/ AnswerRead(q) \/ TimesOut(q)
    PROVE  /\ FilesInv' /\ UNCHANGED <<disk, good, excuse>>
           /\ \A q \in Save : job[q].at \in Work \/ job'[q].at \in Work => job'[q] = job[q]
<1> DEFINE Goal == /\ FilesInv' /\ UNCHANGED <<disk, good, excuse>>
                   /\ \A q \in Save : job[q].at \in Work \/ job'[q].at \in Work => job'[q] = job[q]
<1>0. /\ job \in [Save -> JobSet] /\ save \in [Save -> SaveSet]
      /\ \A q \in Save : save[q].at = "idle" => job[q].at = "none"
  BY DEF FilesInv, FilesTypeOK, ShapeInv, JobSet, SaveSet
<1> SUFFICES Goal
  OBVIOUS
\* What is to be shown of a step.
<1>1. ASSUME UNCHANGED <<disk, good, excuse>>, lock' \in BOOLEAN, fileVersions' \in SUBSET Save,
             job' \in [Save -> JobSet], save' \in [Save -> SaveSet],
             \A q \in Save : \/ job'[q] = job[q]
                             \/ job[q].at \notin Work /\ job'[q] = NoJob
                             \/ /\ job[q].at \notin Work /\ job'[q].at = "sent" /\ job'[q].to = "none"
                                /\ job'[q].op \in {"apply", "rollback"},
             \A q \in Save : save'[q].at = "idle" => job'[q].at = "none"
      PROVE  Goal
  <2>1. FilesTypeOK'
    BY <1>1 DEF FilesInv, FilesTypeOK, JobSet, SaveSet, Name, Content
  <2>2. \A q \in Save : job[q].at \in Work \/ job'[q].at \in Work => job'[q] = job[q]
    BY <1>1, NoJobFacts DEF Work
  <2>3. ShapeInv'
    BY <1>1, NoJobFacts DEF FilesInv, ShapeInv, ShapeOf, Work, Open, Content
  <2> QED
    BY <1>1, <2>1, <2>2, <2>3 DEF FilesInv
<1> HIDE DEF Goal
<1>2. CASE FileLock \/ FileUnlock
  BY <1>0, <1>1, <1>2 DEF FileLock, FileUnlock, FilesInv, FilesTypeOK
<1>3. CASE FilesBackendDies
  <2>1. \A q \in Save : /\ save'[q] \in SaveSet
                        /\ save'[q].at = "idle" => save[q].at = "idle"
    BY <1>0, <1>3 DEF FilesBackendDies, SaveSet
  <2>2. save' \in [Save -> SaveSet]
    BY <1>3, <2>1 DEF FilesBackendDies
  <2>3. /\ job' \in [Save -> JobSet]
        /\ \A q \in Save : job'[q] = job[q] \/ (job[q].at \notin Work /\ job'[q] = NoJob)
    BY <1>0, <1>3, NoJobFacts DEF FilesBackendDies, Work
  <2>4. UNCHANGED <<disk, good, excuse, fileVersions>> /\ lock' \in BOOLEAN
    BY <1>3 DEF FilesBackendDies
  <2>5. \A q \in Save : save'[q].at = "idle" => job'[q].at = "none"
    BY <1>0, <2>1, <2>3, NoJobFacts
  <2> QED
    BY <1>1, <2>2, <2>3, <2>4, <2>5 DEF FilesInv, FilesTypeOK
<1>4. ASSUME NEW q \in Save, ReadContent(q) PROVE Goal
  <2>1. save' \in [Save -> SaveSet] /\ \A r \in Save : save'[r].at = save[r].at
    BY <1>0, <1>4 DEF ReadContent, SaveSet
  <2> QED
    BY <1>0, <1>1, <1>4, <2>1 DEF ReadContent, FilesInv, FilesTypeOK
<1>5. ASSUME NEW q \in Save, NEW op \in {"apply", "rollback"}, NEW view \in Content \cup {"none", "torn"},
             NEW content \in Content, Command(q, op, view, content)
      PROVE  Goal
  <2> DEFINE j == [NoJob EXCEPT !.at = "sent", !.op = op, !.content = content]
             a == [at |-> "waiting", view |-> view]
  <2>1. job' = [job EXCEPT ![q] = j] /\ save' = [save EXCEPT ![q] = a]
    BY <1>5 DEF Command
  <2>2. j \in JobSet /\ j.at = "sent" /\ j.to = "none" /\ j.op = op
    BY DEF NoJob, JobSet, Stage, Content
  <2>3. a \in SaveSet /\ a.at = "waiting"
    BY DEF SaveSet
  <2> HIDE DEF j, a
  <2>4. job[q].at \notin Work
    BY <1>0, <1>5 DEF Command, Work
  <2>5. /\ job' \in [Save -> JobSet] /\ save' \in [Save -> SaveSet]
        /\ \A r \in Save : job'[r] = (IF r = q THEN j ELSE job[r]) /\ save'[r] = (IF r = q THEN a ELSE save[r])
    BY <1>0, <2>1, <2>2, <2>3
  <2>6. UNCHANGED <<lock, fileVersions, disk, good, excuse>>
    BY <1>5 DEF Command
  <2> QED
    BY <1>0, <1>1, <2>2, <2>3, <2>4, <2>5, <2>6 DEF FilesInv, FilesTypeOK
<1>6. ASSUME NEW q \in Save, Apply(q) PROVE Goal
  <2>1. save[q].view \in Content \cup {"none", "torn"} /\ q \in Content
    BY <1>0 DEF SaveSet, Content
  <2> QED
    BY <1>5, <1>6, <2>1 DEF Apply
<1>7. ASSUME NEW q \in Save, Rollback(q) PROVE Goal
  <2>1. fileVersions \subseteq Content
    BY DEF FilesInv, FilesTypeOK, Content
  <2> QED
    BY <1>5, <1>7, <2>1 DEF Rollback
<1>8. ASSUME NEW q \in Save, AnswerRead(q) PROVE Goal
  <2> DEFINE a == [at |-> "over", view |-> "none"]
  <2>1. a \in SaveSet /\ a.at = "over"
    BY DEF SaveSet
  <2>2. job' = [job EXCEPT ![q] = NoJob] /\ save' = [save EXCEPT ![q] = a] /\ job[q].at = "answered"
    BY <1>8 DEF AnswerRead
  <2> HIDE DEF a
  <2>3. /\ job' \in [Save -> JobSet] /\ save' \in [Save -> SaveSet]
        /\ \A r \in Save : job'[r] = (IF r = q THEN NoJob ELSE job[r])
                           /\ save'[r] = (IF r = q THEN a ELSE save[r])
    BY <1>0, <2>1, <2>2, NoJobFacts
  <2>4. UNCHANGED <<lock, disk, good, excuse>> /\ fileVersions' \in SUBSET Save
    <3>1. UNCHANGED <<lock, disk, good, excuse>>
      BY <1>8 DEF AnswerRead
    <3>2. fileVersions' = fileVersions \cup {q} \/ fileVersions' = fileVersions
      BY <1>8 DEF AnswerRead
    <3> QED
      BY <3>1, <3>2 DEF FilesInv, FilesTypeOK
  <2>5. \A r \in Save : job'[r] = job[r] \/ (job[r].at \notin Work /\ job'[r] = NoJob)
    BY <2>2, <2>3 DEF Work
  <2>6. \A r \in Save : save'[r].at = "idle" => job'[r].at = "none"
    BY <1>0, <2>1, <2>3
  <2>7. lock' \in BOOLEAN
    BY <2>4 DEF FilesInv, FilesTypeOK
  <2> QED
    BY <1>1, <2>3, <2>4, <2>5, <2>6, <2>7
<1>9. ASSUME NEW q \in Save, TimesOut(q) PROVE Goal
  <2>1. /\ save' \in [Save -> SaveSet] /\ save'[q].at = "over"
        /\ \A r \in Save : r # q => save'[r] = save[r]
    BY <1>0, <1>9 DEF TimesOut, SaveSet
  <2>2. /\ job' \in [Save -> JobSet]
        /\ \A r \in Save : job'[r] = job[r] \/ (r = q /\ job'[r] = NoJob /\ job[r].at \notin Work)
    BY <1>0, <1>9, NoJobFacts DEF TimesOut, Work
  <2>3. UNCHANGED <<lock, fileVersions, disk, good, excuse>>
    BY <1>9 DEF TimesOut
  <2> QED
    BY <1>0, <1>1, <2>1, <2>2, <2>3 DEF FilesInv, FilesTypeOK
<1> QED
  BY <1>2, <1>3, <1>4, <1>6, <1>7, <1>8, <1>9

-----------------------------------------------------------------------------
(* Files: the agent's steps *)

JobEnded(j)   == j.at \in {"none", "answered"} /\ j.to = "none"
Same(j, k) == j.op = k.op /\ j.content = k.content /\ j.old = k.old
Disk       == [Name -> Content \cup {"none", "empty", "torn"}]

LEMMA AtWork ==
    ASSUME FilesInv
    PROVE  /\ FilesTypeOK /\ job \in [Save -> JobSet] /\ disk \in Disk
           /\ \A q \in Save : ShapeOf(job[q]) /\ job[q] \in JobSet
           /\ \A q \in Save : Tmp(q) = IF job[q].op = "apply" THEN "apply.tmp" ELSE "rollback.tmp"
           /\ \A q \in Save : Tmp(q) \in Name /\ Tmp(q) # "file"
  BY DEF FilesInv, FilesTypeOK, ShapeInv, JobSet, Disk, Tmp, Name

\* A job ends.
LEMMA JobEnds ==
    ASSUME FilesInv, NEW q \in Save, NEW answer \in {"ok", "invalid", "error"}, job' = Reply(q, answer)
    PROVE  \E j \in JobSet : JobBecomes(q, j) /\ JobEnded(j)
  BY AtWork, AnsweredFacts, ReplyEffect DEF JobEnded

LEMMA ReadFileEffect ==
    ASSUME FilesInv, NEW q \in Save, ReadFile(q)
    PROVE  \E j \in JobSet :
              /\ job[q].at = "sent" /\ job[q].op = "apply" /\ JobBecomes(q, j)
              /\ \/ /\ j.at = "read" /\ j.op = "apply" /\ j.to = "none" /\ j.old = disk["file"]
                    /\ save[q].view \in {"none", disk["file"]}
                 \/ JobEnded(j)
              /\ excuse' = excuse \cup Meeting(q) /\ UNCHANGED <<lock, save, fileVersions, disk, good>>
<1>1. /\ job[q].at = "sent" /\ job[q].op = "apply" /\ excuse' = excuse \cup Meeting(q)
      /\ UNCHANGED <<lock, save, fileVersions, disk, good>>
      /\ job' = IF SameHash(q, disk["file"])
                THEN [job EXCEPT ![q].at = "read", ![q].old = disk["file"]]
                ELSE Reply(q, "error")
  BY DEF ReadFile
<1>2. CASE SameHash(q, disk["file"])
  <2> DEFINE j == [job[q] EXCEPT !.at = "read", !.old = disk["file"]]
  <2>1. disk["file"] \in Content \cup {"empty", "torn"}
    BY DEF FilesInv, ShapeInv
  <2>2. job[q] \in JobSet /\ job[q].to = "none"
    BY <1>1, AtWork DEF ShapeOf, Open
  <2>3. j \in JobSet
    BY <2>1, <2>2, JobChange DEF Stage
  <2>4. j.at = "read" /\ j.op = "apply" /\ j.to = "none" /\ j.old = disk["file"]
    BY <1>1, <2>2 DEF JobSet
  <2>5. job' = [job EXCEPT ![q] = j]
    BY <1>1, <1>2
  <2> HIDE DEF j
  <2>6. JobBecomes(q, j)
    BY <2>3, <2>5, AtWork, JobExcept
  <2> QED
    BY <1>1, <1>2, <2>3, <2>4, <2>6 DEF SameHash
<1>3. CASE ~SameHash(q, disk["file"])
  BY <1>1, <1>3, JobEnds
<1> QED
  BY <1>2, <1>3

\* The content of a job is valid.
LEMMA JobGoesOn ==
    ASSUME FilesInv, NEW q \in Save, job' = [job EXCEPT ![q].at = "valid"], job[q].to = "none"
    PROVE  \E j \in JobSet : JobBecomes(q, j) /\ j.at = "valid" /\ j.to = "none" /\ Same(j, job[q])
<1> DEFINE j == [job[q] EXCEPT !.at = "valid"]
<1>1. j \in JobSet
  BY AtWork, JobChange DEF Stage
<1>2. j.at = "valid" /\ j.to = "none" /\ Same(j, job[q])
  BY AtWork DEF JobSet, Same
<1>3. job' = [job EXCEPT ![q] = j]
  OBVIOUS
<1> HIDE DEF j
<1> QED
  BY <1>1, <1>2, <1>3, AtWork, JobExcept

LEMMA StartRollbackEffect ==
    ASSUME FilesInv, NEW q \in Save, StartRollback(q)
    PROVE  \E j \in JobSet :
              /\ job[q].at = "sent" /\ job[q].op = "rollback" /\ JobBecomes(q, j)
              /\ j.at = "valid" /\ j.to = "none" /\ Same(j, job[q])
              /\ excuse' = excuse \cup Meeting(q) /\ UNCHANGED <<lock, save, fileVersions, disk, good>>
<1>1. /\ job[q].at = "sent" /\ job[q].op = "rollback" /\ job' = [job EXCEPT ![q].at = "valid"]
      /\ excuse' = excuse \cup Meeting(q) /\ UNCHANGED <<lock, save, fileVersions, disk, good>>
  BY DEF StartRollback
<1>2. job[q].to = "none"
  BY <1>1, AtWork DEF ShapeOf, Open
<1> QED
  BY <1>1, <1>2, JobGoesOn

LEMMA ValidateEffect ==
    ASSUME FilesInv, NEW q \in Save, Validate(q)
    PROVE  \E j \in JobSet :
              /\ job[q].at = "read" /\ JobBecomes(q, j)
              /\ (j.at = "valid" /\ j.to = "none" /\ Same(j, job[q])) \/ JobEnded(j)
              /\ UNCHANGED <<lock, save, fileVersions, disk, good, excuse>>
<1>1. /\ job[q].at = "read" /\ UNCHANGED <<lock, save, fileVersions, disk, good, excuse>>
      /\ job' = [job EXCEPT ![q].at = "valid"] \/ job' = Reply(q, "invalid")
  BY DEF Validate, Verdicts
<1>2. job[q].to = "none"
  BY <1>1, AtWork DEF ShapeOf, Open
<1> QED
  BY <1>1, <1>2, JobGoesOn, JobEnds

LEMMA OpenTmpEffect ==
    ASSUME FilesInv, NEW q \in Save, OpenTmp(q)
    PROVE  \E j \in JobSet :
              /\ job[q].at = "valid" /\ JobBecomes(q, j)
              /\ j.at = "opened" /\ j.to = Tmp(q) /\ Same(j, job[q])
              /\ disk' \in Disk /\ disk'[Tmp(q)] = "empty"
              /\ \A n \in Name : n # Tmp(q) => disk'[n] = disk[n]
              /\ UNCHANGED <<lock, save, fileVersions, good, excuse>>
<1>1. /\ job[q].at = "valid" /\ Opens(q, Tmp(q), "opened")
      /\ UNCHANGED <<lock, save, fileVersions, good, excuse>>
  BY DEF OpenTmp
<1> QED
  BY <1>1, AtWork, OpensEffect DEF Open, Same, Disk

LEMMA WriteTmpEffect ==
    ASSUME FilesInv, NEW q \in Save, WriteTmp(q)
    PROVE  \E j \in JobSet :
              /\ job[q].at = "opened" /\ JobBecomes(q, j)
              /\ j.at = "written" /\ j.to = "none" /\ Same(j, job[q])
              /\ disk' \in Disk
              /\ \A n \in Name : n # job[q].to => disk'[n] = disk[n]
              /\ job[q].to \in Name => disk'[job[q].to] \in {job[q].content, "torn"}
              /\ job[q].to \in Name /\ disk[job[q].to] = "empty" => disk'[job[q].to] = job[q].content
              /\ UNCHANGED <<lock, save, fileVersions, good, excuse>>
<1> DEFINE j == [job[q] EXCEPT !.at = "written", !.to = "none"]
<1>1. /\ job[q].at = "opened" /\ UNCHANGED <<lock, save, fileVersions, good, excuse>>
      /\ job' = [job EXCEPT ![q] = j]
      /\ IF job[q].to = "gone" THEN UNCHANGED disk ELSE Put(job[q].to, job[q].content)
  BY DEF WriteTmp
<1>2. j \in JobSet
  BY AtWork, JobChange DEF Stage
<1>3. j.at = "written" /\ j.to = "none" /\ Same(j, job[q])
  BY AtWork DEF JobSet, Same
<1> HIDE DEF j
<1>4. JobBecomes(q, j)
  BY <1>1, <1>2, AtWork, JobExcept
<1>5. job[q].to \in Name \cup {"gone"} /\ job[q].content \in Content
  BY <1>1, AtWork DEF ShapeOf, Open, JobSet
<1>6. CASE job[q].to = "gone"
  <2>1. "gone" \notin Name
    BY DEF Name
  <2> QED
    BY <1>1, <1>2, <1>3, <1>4, <1>6, <2>1, AtWork
<1>7. CASE job[q].to \in Name
  <2>1. Put(job[q].to, job[q].content)
    BY <1>1, <1>7 DEF Name
  <2>2. /\ disk' \in Disk /\ \A n \in Name : n # job[q].to => disk'[n] = disk[n]
        /\ disk'[job[q].to] \in {job[q].content, "torn"}
        /\ disk[job[q].to] = "empty" => disk'[job[q].to] = job[q].content
    BY <1>5, <1>7, <2>1, PutEffect, AtWork DEF Disk
  <2> QED
    BY <1>1, <1>2, <1>3, <1>4, <2>2
<1> QED
  BY <1>5, <1>6, <1>7

LEMMA FailsEffect ==
    ASSUME FilesInv, NEW q \in Save, Fails(q)
    PROVE  \E j \in JobSet :
              /\ job[q].at \in {"read", "valid", "opened"} /\ JobBecomes(q, j) /\ JobEnded(j)
              /\ UNCHANGED <<lock, save, fileVersions, disk, good, excuse>>
  BY JobEnds DEF Fails

\* A job has moved from one of its files to another; the others may have lost theirs.
Moves(q, j, from, to) ==
    /\ job' \in [Save -> JobSet] /\ job'[q] = j
    /\ \A r \in Save : r # q =>
          /\ job'[r].at = job[r].at /\ Same(job'[r], job[r])
          /\ job'[r].to = IF job[r].to = from THEN to ELSE IF job[r].to = to THEN "gone" ELSE job[r].to

LEMMA MovesEffect ==
    ASSUME FilesInv, NEW q \in Save, NEW j \in JobSet, NEW to \in {"file", "gone"},
           job' = [Moved(Tmp(q), to) EXCEPT ![q] = j]
    PROVE  Moves(q, j, Tmp(q), to)
<1>1. Tmp(q) \in {"apply.tmp", "rollback.tmp"}
  BY DEF Tmp
<1> HIDE DEF Moves
<1> QED
  BY <1>1, MovedEffect DEF Moves, Same

LEMMA RenameTmpEffect ==
    ASSUME FilesInv, NEW q \in Save, RenameTmp(q)
    PROVE  \E j \in JobSet :
              /\ job[q].at = "written" /\ Moves(q, j, Tmp(q), "file")
              /\ \/ /\ job[q].op = "apply" /\ j.at = "renamed" /\ j.to = "none" /\ Same(j, job[q])
                    /\ good' = good
                 \/ job[q].op = "rollback" /\ JobEnded(j) /\ good' = job[q].content
              /\ disk' \in Disk /\ disk[Tmp(q)] # "none" /\ disk'["file"] = disk[Tmp(q)]
              /\ \A n \in Name : n \notin {"file", Tmp(q)} => disk'[n] = disk[n]
              /\ UNCHANGED <<lock, save, fileVersions, excuse>>
<1> DEFINE moved == Moved(Tmp(q), "file")
           j == IF job[q].op = "apply" THEN [moved[q] EXCEPT !.at = "renamed"] ELSE Answered(q, "ok")
<1>1. /\ job[q].at = "written" /\ disk[Tmp(q)] # "none"
      /\ disk' = [disk EXCEPT !["file"] = disk[Tmp(q)], ![Tmp(q)] = "none"]
      /\ good' = IF job[q].op = "rollback" THEN job[q].content ELSE good
      /\ UNCHANGED <<lock, save, fileVersions, excuse>>
  BY DEF RenameTmp
<1>2. Tmp(q) \in {"apply.tmp", "rollback.tmp"} /\ job[q].op \in {"apply", "rollback"}
  BY <1>1, AtWork DEF Tmp, ShapeOf, Work
<1>3. /\ moved \in [Save -> JobSet] /\ moved[q].at = job[q].at /\ Same(moved[q], job[q])
      /\ moved[q].to = "none"
  <2>1. job[q].to = "none"
    BY <1>1, AtWork DEF ShapeOf, Open
  <2> QED
    BY <1>2, <2>1, MovedEffect DEF Same
<1>4. job' = [moved EXCEPT ![q] = j]
  <2>1. job' = [moved EXCEPT ![q] = IF job[q].op = "apply" THEN [moved[q] EXCEPT !.at = "renamed"]
                                                           ELSE Answered(q, "ok")]
    BY <1>3 DEF RenameTmp
  <2> QED
    BY <2>1
<1>5. /\ j \in JobSet
      /\ \/ job[q].op = "apply" /\ j.at = "renamed" /\ j.to = "none" /\ Same(j, job[q])
         \/ job[q].op = "rollback" /\ JobEnded(j)
  <2> HIDE DEF moved
  <2>1. CASE job[q].op = "apply"
    <3>1. moved[q] \in JobSet /\ j = [moved[q] EXCEPT !.at = "renamed"]
      BY <1>3, <2>1
    <3>2. j \in JobSet
      BY <3>1, JobChange, ZenonT(30) DEF Stage
    <3>3. j.at = "renamed" /\ j.to = "none" /\ Same(j, job[q])
      BY <1>3, <3>1 DEF JobSet, Same
    <3> QED
      BY <2>1, <3>2, <3>3
  <2>2. CASE job[q].op = "rollback"
    BY <2>2, AnsweredFacts, AtWork DEF JobEnded
  <2> QED
    BY <1>2, <2>1, <2>2
<1>6. Moves(q, j, Tmp(q), "file")
  <2> HIDE DEF j
  <2> QED
    BY <1>4, <1>5, MovesEffect
<1>7. /\ disk' \in Disk /\ disk'["file"] = disk[Tmp(q)]
      /\ \A n \in Name : n \notin {"file", Tmp(q)} => disk'[n] = disk[n]
  <2>1. disk \in Disk
    BY AtWork
  <2> QED
    BY <1>1, <1>2, <2>1 DEF Disk, Name
<1> HIDE DEF j
<1> QED
  BY <1>1, <1>5, <1>6, <1>7

LEMMA RenameFailsEffect ==
    ASSUME FilesInv, NEW q \in Save, RenameFails(q)
    PROVE  \E j \in JobSet :
              /\ job[q].at = "written" /\ Moves(q, j, Tmp(q), "gone") /\ JobEnded(j)
              /\ disk' \in Disk /\ \A n \in Name : n # Tmp(q) => disk'[n] = disk[n]
              /\ UNCHANGED <<lock, save, fileVersions, good, excuse>>
<1>1. /\ job[q].at = "written" /\ disk' = [disk EXCEPT ![Tmp(q)] = "none"]
      /\ job' = [Moved(Tmp(q), "gone") EXCEPT ![q] = Answered(q, "error")]
      /\ UNCHANGED <<lock, save, fileVersions, good, excuse>>
  BY DEF RenameFails
<1>2. Answered(q, "error") \in JobSet /\ JobEnded(Answered(q, "error"))
  BY AnsweredFacts, AtWork DEF JobEnded
<1>3. disk' \in Disk /\ \A n \in Name : n # Tmp(q) => disk'[n] = disk[n]
  BY <1>1, AtWork DEF Disk
<1> QED
  BY <1>1, <1>2, <1>3, MovesEffect

LEMMA HealthyEffect ==
    ASSUME FilesInv, NEW q \in Save, Healthy(q)
    PROVE  \E j \in JobSet :
              /\ job[q].at = "renamed" /\ JobBecomes(q, j) /\ JobEnded(j) /\ good' = job[q].content
              /\ UNCHANGED <<lock, save, fileVersions, disk, excuse>>
  BY JobEnds DEF Healthy

LEMMA UnhealthyEffect ==
    ASSUME FilesInv, NEW q \in Save, Unhealthy(q)
    PROVE  \E j \in JobSet :
              /\ job[q].at = "renamed" /\ JobBecomes(q, j)
              /\ j.at = "restoring" /\ j.to = "file" /\ Same(j, job[q])
              /\ disk' \in Disk /\ disk'["file"] = "empty"
              /\ \A n \in Name : n # "file" => disk'[n] = disk[n]
              /\ UNCHANGED <<lock, save, fileVersions, good, excuse>>
<1>1. /\ job[q].at = "renamed" /\ Opens(q, "file", "restoring")
      /\ UNCHANGED <<lock, save, fileVersions, good, excuse>>
  BY DEF Unhealthy
<1>2. "file" \in Name /\ "restoring" \in Open
  BY DEF Name, Open
<1> QED
  BY <1>1, <1>2, AtWork, OpensEffect DEF Same, Disk

LEMMA RestoreEffect ==
    ASSUME FilesInv, NEW q \in Save, Restore(q)
    PROVE  \E j \in JobSet :
              /\ job[q].at = "restoring" /\ JobBecomes(q, j) /\ JobEnded(j)
              /\ disk' \in Disk /\ \A n \in Name : n # "file" => disk'[n] = disk[n]
              /\ job[q].to = "gone" => disk' = disk
              /\ job[q].to # "gone" => disk'["file"] \in {job[q].old, "torn"}
              /\ job[q].to # "gone" /\ disk["file"] = "empty" => disk'["file"] = job[q].old
              /\ UNCHANGED <<lock, save, fileVersions, good, excuse>>
<1>1. /\ job[q].at = "restoring" /\ job' = Reply(q, "error")
      /\ IF job[q].to = "gone" THEN UNCHANGED disk ELSE Put("file", job[q].old)
      /\ UNCHANGED <<lock, save, fileVersions, good, excuse>>
  BY DEF Restore
<1>2. PICK j \in JobSet : JobBecomes(q, j) /\ JobEnded(j)
  BY <1>1, JobEnds
<1>3. CASE job[q].to = "gone"
  BY <1>1, <1>2, <1>3, AtWork
<1>4. CASE job[q].to # "gone"
  <2>1. job[q].old \in Content \cup {"empty", "torn"} /\ "file" \in Name
    BY AtWork DEF JobSet, Name
  <2>2. /\ disk' \in Disk /\ \A n \in Name : n # "file" => disk'[n] = disk[n]
        /\ disk'["file"] \in {job[q].old, "torn"}
        /\ disk["file"] = "empty" => disk'["file"] = job[q].old
    BY <1>1, <1>4, <2>1, AtWork, PutEffect DEF Disk
  <2> QED
    BY <1>1, <1>2, <1>4, <2>2
<1> QED
  BY <1>3, <1>4

LEMMA RestoreFailsEffect ==
    ASSUME FilesInv, NEW q \in Save, RestoreFails(q)
    PROVE  \E j \in JobSet :
              /\ job[q].at = "restoring" /\ JobBecomes(q, j) /\ JobEnded(j)
              /\ excuse' = excuse \cup {"cut", "cut restore"}
              /\ UNCHANGED <<lock, save, fileVersions, disk, good>>
  BY JobEnds DEF RestoreFails

LEMMA DiesEffect ==
    ASSUME FilesInv, FilesAgentDies
    PROVE  /\ job' \in [Save -> JobSet] /\ \A q \in Save : job'[q] = NoJob
           /\ excuse \subseteq excuse' /\ excuse' \subseteq excuse \cup {"cut", "cut restore"}
           /\ (\E q \in Save : job[q].at \in Work) => "cut" \in excuse'
           /\ (\E q \in Save : job[q].at = "restoring") => "cut restore" \in excuse'
           /\ UNCHANGED <<lock, save, fileVersions, disk, good>>
  BY NoJobFacts, AtWork DEF FilesAgentDies, Working, Work, JobSet, Stage

\* What is to be shown of a step of the agent.
LEMMA AgentStep ==
    ASSUME FilesInv, UNCHANGED <<lock, save, fileVersions>>,
           job' \in [Save -> JobSet], disk' \in Disk, good' \in Content,
           excuse' \subseteq excuse \cup {"met", "met its like", "cut", "cut restore"},
           disk'["file"] \in Content \cup {"empty", "torn"},
           \A q \in Save : ShapeOf(job'[q]),
           \A q \in Save : job[q].at = "none" => job'[q].at = "none"
    PROVE  FilesInv'
<1>1. excuse' \in SUBSET {"met", "met its like", "cut", "cut restore"}
  BY DEF FilesInv, FilesTypeOK
<1>2. FilesTypeOK'
  BY <1>1 DEF FilesInv, FilesTypeOK, JobSet, Disk, Name, Content
<1>3. ShapeInv'
  <2>1. save' = save
    OBVIOUS
  <2>2. \A q \in Save : ShapeOf(job'[q]) /\ (save'[q].at = "idle" => job'[q].at = "none")
    BY <2>1 DEF FilesInv, ShapeInv
  <2>3. disk'["file"] \in Content' \cup {"empty", "torn"}
    BY DEF Content
  <2> QED
    BY <2>2, <2>3, Zenon DEF ShapeInv, ShapeOf
<1> QED
  BY <1>2, <1>3 DEF FilesInv

LEMMA Goods == FilesInv => good \in Content /\ disk["file"] \in Content \cup {"empty", "torn"}
  BY DEF FilesInv, FilesTypeOK, ShapeInv

LEMMA EndedShape == \A j \in JobSet : JobEnded(j) => ShapeOf(j)
  BY DEF JobEnded, ShapeOf, Work, Open

\* The steps that change one job, and not the file.
LEMMA OneJobInv ==
    ASSUME FilesInv, NEW q \in Save, NEW j \in JobSet, JobBecomes(q, j), ShapeOf(j), job[q].at # "none",
           UNCHANGED <<lock, save, fileVersions>>, disk' \in Disk,
           disk'["file"] \in Content \cup {"empty", "torn"}, good' \in Content,
           excuse' \subseteq excuse \cup {"met", "met its like", "cut", "cut restore"}
    PROVE  FilesInv'
<1>1. \A r \in Save : ShapeOf(job'[r]) /\ (job[r].at = "none" => job'[r].at = "none")
  BY AtWork DEF JobBecomes
<1> QED
  BY <1>1, AgentStep DEF JobBecomes

LEMMA MovesInv ==
    ASSUME FilesInv, NEW q \in Save, NEW j \in JobSet, NEW to \in {"file", "gone"}, Moves(q, j, Tmp(q), to),
           ShapeOf(j), job[q].at # "none",
           UNCHANGED <<lock, save, fileVersions, excuse>>, disk' \in Disk, good' \in Content,
           disk'["file"] \in Content \cup {"empty", "torn"}
    PROVE  FilesInv'
<1>1. \A r \in Save : job[r].to = Tmp(q) => job[r].at \in Open /\ job[r].at # "restoring"
  BY AtWork DEF ShapeOf, Open, Tmp
<1>2. ASSUME NEW r \in Save PROVE ShapeOf(job'[r]) /\ (job[r].at = "none" => job'[r].at = "none")
  <2>1. CASE r = q
    BY <2>1 DEF Moves
  <2>2. CASE r # q
    BY <1>1, <2>2, AtWork DEF Moves, Same, ShapeOf, Tmp
  <2> QED
    BY <2>1, <2>2
<1>3. job' \in [Save -> JobSet]
  BY DEF Moves
<1> QED
  BY <1>2, <1>3, AgentStep

LEMMA AgentInv ==
    ASSUME FilesInv, NEW q \in Save,
           \/ ReadFile(q) \/ StartRollback(q) \/ Validate(q) \/ Fails(q)
           \/ OpenTmp(q) \/ WriteTmp(q) \/ RenameTmp(q) \/ RenameFails(q)
           \/ Healthy(q) \/ Unhealthy(q) \/ Restore(q) \/ RestoreFails(q)
    PROVE  FilesInv'
<1>0. /\ Meeting(q) \subseteq {"met", "met its like"} /\ disk \in Disk /\ good \in Content
      /\ disk["file"] \in Content \cup {"empty", "torn"} /\ ShapeOf(job[q]) /\ job[q] \in JobSet
      /\ Tmp(q) \in Name /\ Tmp(q) # "file" /\ "file" \in Name
  BY AtWork, Goods DEF Meeting, Name
<1>1. CASE ReadFile(q)
  BY <1>0, <1>1, ReadFileEffect, EndedShape, OneJobInv DEF ShapeOf, Work, Open
<1>2. CASE StartRollback(q)
  <2>1. PICK j \in JobSet :
          /\ job[q].at = "sent" /\ job[q].op = "rollback" /\ JobBecomes(q, j)
          /\ j.at = "valid" /\ j.to = "none" /\ Same(j, job[q])
          /\ excuse' = excuse \cup Meeting(q) /\ UNCHANGED <<lock, save, fileVersions, disk, good>>
    BY <1>2, StartRollbackEffect
  <2>2. ShapeOf(j)
    BY <2>1 DEF ShapeOf, Work, Open, Same
  <2> QED
    BY <1>0, <2>1, <2>2, OneJobInv
<1>3. CASE Validate(q)
  BY <1>0, <1>3, ValidateEffect, EndedShape, OneJobInv DEF ShapeOf, Work, Open, Same
<1>4. CASE Fails(q)
  BY <1>0, <1>4, FailsEffect, EndedShape, OneJobInv
<1>5. CASE OpenTmp(q)
  <2>1. PICK j \in JobSet :
          /\ job[q].at = "valid" /\ JobBecomes(q, j) /\ j.at = "opened" /\ j.to = Tmp(q) /\ Same(j, job[q])
          /\ disk' \in Disk /\ disk'["file"] = disk["file"]
          /\ UNCHANGED <<lock, save, fileVersions, good, excuse>>
    BY <1>0, <1>5, OpenTmpEffect
  <2>2. ShapeOf(j)
    BY <1>0, <2>1 DEF ShapeOf, Work, Open, Same, Tmp
  <2> QED
    BY <1>0, <2>1, <2>2, OneJobInv
<1>6. CASE WriteTmp(q)
  <2>1. PICK j \in JobSet :
          /\ job[q].at = "opened" /\ JobBecomes(q, j) /\ j.at = "written" /\ j.to = "none" /\ Same(j, job[q])
          /\ disk' \in Disk /\ \A n \in Name : n # job[q].to => disk'[n] = disk[n]
          /\ job[q].to \in Name => disk'[job[q].to] \in {job[q].content, "torn"}
          /\ UNCHANGED <<lock, save, fileVersions, good, excuse>>
    BY <1>6, WriteTmpEffect
  <2>2. ShapeOf(j)
    BY <1>0, <2>1 DEF ShapeOf, Work, Open, Same
  <2>3. job[q].content \in Content
    BY <1>0 DEF JobSet
  <2>4. disk'["file"] \in Content \cup {"empty", "torn"}
    BY <1>0, <2>1, <2>3
  <2> QED
    BY <1>0, <2>1, <2>2, <2>4, OneJobInv
<1>7. CASE RenameTmp(q)
  <2>1. PICK j \in JobSet :
          /\ job[q].at = "written" /\ Moves(q, j, Tmp(q), "file")
          /\ \/ /\ job[q].op = "apply" /\ j.at = "renamed" /\ j.to = "none" /\ Same(j, job[q])
                /\ good' = good
             \/ job[q].op = "rollback" /\ JobEnded(j) /\ good' = job[q].content
          /\ disk' \in Disk /\ disk[Tmp(q)] # "none" /\ disk'["file"] = disk[Tmp(q)]
          /\ UNCHANGED <<lock, save, fileVersions, excuse>>
    BY <1>7, RenameTmpEffect
  <2>2. ShapeOf(j)
    BY <2>1, EndedShape DEF ShapeOf, Work, Open, Same
  <2>3. good' \in Content
    BY <1>0, <2>1 DEF JobSet
  <2>4. disk'["file"] \in Content \cup {"empty", "torn"}
    BY <1>0, <2>1 DEF Disk
  <2> QED
    BY <2>1, <2>2, <2>3, <2>4, MovesInv
<1>8. CASE RenameFails(q)
  <2>1. PICK j \in JobSet :
          /\ job[q].at = "written" /\ Moves(q, j, Tmp(q), "gone") /\ JobEnded(j)
          /\ disk' \in Disk /\ disk'["file"] = disk["file"]
          /\ UNCHANGED <<lock, save, fileVersions, good, excuse>>
    BY <1>0, <1>8, RenameFailsEffect
  <2> QED
    BY <1>0, <2>1, EndedShape, MovesInv
<1>9. CASE Healthy(q)
  <2>1. job[q].content \in Content
    BY <1>0 DEF JobSet
  <2> QED
    BY <1>0, <1>9, <2>1, HealthyEffect, EndedShape, OneJobInv
<1>10. CASE Unhealthy(q)
  <2>1. PICK j \in JobSet :
          /\ job[q].at = "renamed" /\ JobBecomes(q, j)
          /\ j.at = "restoring" /\ j.to = "file" /\ Same(j, job[q])
          /\ disk' \in Disk /\ disk'["file"] = "empty"
          /\ UNCHANGED <<lock, save, fileVersions, good, excuse>>
    BY <1>10, UnhealthyEffect
  <2>2. ShapeOf(j)
    BY <1>0, <2>1 DEF ShapeOf, Work, Open, Same
  <2> QED
    BY <1>0, <2>1, <2>2, OneJobInv
<1>11. CASE Restore(q)
  <2>1. PICK j \in JobSet :
          /\ job[q].at = "restoring" /\ JobBecomes(q, j) /\ JobEnded(j) /\ disk' \in Disk
          /\ disk'["file"] \in {disk["file"], job[q].old, "torn"}
          /\ UNCHANGED <<lock, save, fileVersions, good, excuse>>
    BY <1>0, <1>11, RestoreEffect
  <2>2. job[q].old \in Content \cup {"empty", "torn"}
    BY <1>0 DEF JobSet
  <2> QED
    BY <1>0, <2>1, <2>2, EndedShape, OneJobInv
<1>12. CASE RestoreFails(q)
  BY <1>0, <1>12, RestoreFailsEffect, EndedShape, OneJobInv
<1> QED
  BY <1>1, <1>2, <1>3, <1>4, <1>5, <1>6, <1>7, <1>8, <1>9, <1>10, <1>11, <1>12

LEMMA DiesInv == FilesInv /\ FilesAgentDies => FilesInv'
<1> SUFFICES ASSUME FilesInv, FilesAgentDies PROVE FilesInv'
  OBVIOUS
<1>1. ShapeOf(NoJob) /\ NoJob.at = "none"
  BY NoJobFacts, EndedShape DEF JobEnded
<1> QED
  BY <1>1, DiesEffect, AtWork, Goods, AgentStep

AgentMoves(q) ==
    \/ ReadFile(q) \/ StartRollback(q) \/ Validate(q) \/ Fails(q)
    \/ OpenTmp(q) \/ WriteTmp(q) \/ RenameTmp(q) \/ RenameFails(q)
    \/ Healthy(q) \/ Unhealthy(q) \/ Restore(q) \/ RestoreFails(q)

\* A step is one of the backend, or of one goroutine of the agent, or the agent's end.
LEMMA FileSteps ==
    ASSUME [FilesNext]_fileVars
    PROVE  \/ \/ FileLock \/ FileUnlock \/ FilesBackendDies
              \/ \E q \in Save : ReadContent(q) \/ Apply(q) \/ Rollback(q) \/ AnswerRead(q) \/ TimesOut(q)
           \/ \E q \in Save : AgentMoves(q)
           \/ FilesAgentDies
           \/ UNCHANGED fileVars
  BY DEF FilesNext, AgentMoves

LEMMA NextFilesInv == FilesInv /\ [FilesNext]_fileVars => FilesInv'
<1> SUFFICES ASSUME FilesInv, [FilesNext]_fileVars PROVE FilesInv'
  OBVIOUS
<1>1. CASE UNCHANGED fileVars
  BY <1>1 DEF fileVars, FilesInv, FilesTypeOK, ShapeInv, ShapeOf, Work, Open, Content, Name, Stage
<1>2. ASSUME NEW q \in Save, AgentMoves(q) PROVE FilesInv'
  BY <1>2, AgentInv DEF AgentMoves
<1> QED
  BY <1>1, <1>2, FileSteps, BackendInv, DiesInv

\* The state always has its type (Files.tla, FilesTypeOK).
THEOREM FilesTypeCorrect == FilesSpec => []FilesTypeOK
<1>1. FilesInv => FilesTypeOK
  BY DEF FilesInv
<1> QED
  BY <1>1, InitFilesInv, NextFilesInv, PTL DEF FilesSpec

-----------------------------------------------------------------------------
(* Files: the file is whole *)

Clean      == excuse \cap {"met its like", "cut restore"} = {}
Mending(q) == job[q].at = "restoring" /\ job[q].to = "file"

\* No two commands of a kind are at work, ...
AloneInv == \A q \in Save, r \in Save :
    job[q].at \in Work /\ job[r].at \in Work /\ job[q].op = job[r].op => q = r

\* ... so that a temporary file is that of the one command of its kind, ...
TmpInv == \A q \in Save :
    /\ job[q].at = "opened" => job[q].to = Tmp(q) /\ disk[Tmp(q)] = "empty"
    /\ job[q].at = "written" => disk[Tmp(q)] = job[q].content

\* ... and only the writing back of what an apply has read leaves the file empty for a time.
FileInv ==
    /\ \A q \in Save : job[q].at \in Work /\ job[q].op = "apply" => job[q].old \in Content
    /\ \A q \in Save : Mending(q) => disk["file"] = "empty"
    /\ (\A q \in Save : ~Mending(q)) => disk["file"] \in Content

WholeInv == Clean => AloneInv /\ TmpInv /\ FileInv

LEMMA OtherTmp ==
    ASSUME FilesInv, AloneInv, NEW q \in Save, NEW r \in Save, q # r,
           job[q].at \in Work, job[r].at \in Work
    PROVE  Tmp(q) # Tmp(r)
  BY AtWork DEF AloneInv, ShapeOf

\* A step of one job that leaves every file as it is, and does not begin to restore.
LEMMA QuietWhole ==
    ASSUME FilesInv, AloneInv, TmpInv, FileInv, NEW q \in Save, NEW j \in JobSet, JobBecomes(q, j),
           disk' = disk,
           j.at \in Work =>
              /\ j.at \in {"read", "valid"}
              /\ \A r \in Save : r # q /\ job[r].at \in Work => job[r].op # j.op
              /\ j.op = "apply" => j.old \in Content,
           ~Mending(q)
    PROVE  AloneInv' /\ TmpInv' /\ FileInv'
<1>1. \A r \in Save : job'[r] = IF r = q THEN j ELSE job[r]
  BY DEF JobBecomes
<1>2. AloneInv'
  BY <1>1 DEF AloneInv
<1>3. \A r \in Save : r # q => Tmp(r)' = Tmp(r)
  BY <1>1 DEF Tmp
<1>4. TmpInv'
  BY <1>1, <1>3 DEF TmpInv, Work
<1>5. FileInv'
  BY <1>1 DEF FileInv, Mending, Work, Content
<1> QED
  BY <1>2, <1>4, <1>5

LEMMA AgentWhole ==
    ASSUME FilesInv, WholeInv, NEW q \in Save, AgentMoves(q)
    PROVE  WholeInv'
<1> DEFINE Goal == AloneInv' /\ TmpInv' /\ FileInv'
<1> SUFFICES ASSUME Clean' PROVE Goal
  BY DEF WholeInv
<1> USE DEF JobEnded
<1>1. CASE ReadFile(q)
  <2>1. PICK j \in JobSet :
          /\ job[q].at = "sent" /\ job[q].op = "apply" /\ JobBecomes(q, j)
          /\ \/ j.at = "read" /\ j.op = "apply" /\ j.to = "none" /\ j.old = disk["file"]
             \/ JobEnded(j)
          /\ excuse' = excuse \cup Meeting(q) /\ disk' = disk
    BY <1>1, ReadFileEffect
  <2>2. Clean /\ ~\E r \in Working : job[r].op = job[q].op
    BY <2>1 DEF Clean, Meeting
  <2>3. \A r \in Save : job[r].at \in Work => job[r].op # "apply"
    BY <2>1, <2>2 DEF Working, Work
  <2>4. \A r \in Save : ~Mending(r)
    BY <2>3, AtWork DEF Mending, ShapeOf, Work
  <2>5. disk["file"] \in Content
    BY <2>2, <2>4 DEF WholeInv, FileInv
  <2> QED
    BY <2>1, <2>2, <2>3, <2>4, <2>5, QuietWhole DEF WholeInv, Work
<1>2. CASE StartRollback(q)
  <2>1. PICK j \in JobSet :
          /\ job[q].at = "sent" /\ job[q].op = "rollback" /\ JobBecomes(q, j)
          /\ j.at = "valid" /\ Same(j, job[q])
          /\ excuse' = excuse \cup Meeting(q) /\ disk' = disk
    BY <1>2, StartRollbackEffect
  <2>2. Clean /\ ~\E r \in Working : job[r].op = job[q].op
    BY <2>1 DEF Clean, Meeting
  <2>3. \A r \in Save : job[r].at \in Work => job[r].op # "rollback"
    BY <2>1, <2>2 DEF Working, Work
  <2>4. j.op = "rollback" /\ ~Mending(q)
    BY <2>1 DEF Same, Mending
  <2> QED
    BY <2>1, <2>2, <2>3, <2>4, QuietWhole DEF WholeInv, Work
<1>3. CASE Validate(q)
  <2>1. PICK j \in JobSet :
          /\ job[q].at = "read" /\ JobBecomes(q, j)
          /\ (j.at = "valid" /\ j.to = "none" /\ Same(j, job[q])) \/ JobEnded(j)
          /\ excuse' = excuse /\ disk' = disk
    BY <1>3, ValidateEffect
  <2>2. Clean /\ AloneInv /\ TmpInv /\ FileInv
    BY <2>1 DEF Clean, WholeInv
  <2>3. j.at \in Work => /\ j.at = "valid"
                         /\ \A r \in Save : r # q /\ job[r].at \in Work => job[r].op # j.op
                         /\ j.op = "apply" => j.old \in Content
    BY <2>1, <2>2 DEF AloneInv, FileInv, Same, Work
  <2>4. ~Mending(q)
    BY <2>1 DEF Mending
  <2> QED
    BY <2>1, <2>2, <2>3, <2>4, QuietWhole
<1>4. CASE Fails(q) \/ Healthy(q)
  <2>1. PICK j \in JobSet : /\ job[q].at # "restoring" /\ JobBecomes(q, j) /\ JobEnded(j)
                            /\ excuse' = excuse /\ disk' = disk
    BY <1>4, FailsEffect, HealthyEffect
  <2>2. Clean /\ AloneInv /\ TmpInv /\ FileInv /\ ~Mending(q) /\ j.at \notin Work
    BY <2>1 DEF Clean, WholeInv, Mending, Work
  <2> QED
    BY <2>1, <2>2, QuietWhole
\* The steps below are those of a job at work that changes a file.
<1>5. ASSUME NEW j \in JobSet, job[q].at \in Work, Clean, AloneInv, TmpInv, FileInv,
             job' \in [Save -> JobSet], job'[q] = j, j.at \in Work => Same(j, job[q]),
             \A r \in Save : r # q => job'[r].at = job[r].at /\ Same(job'[r], job[r])
      PROVE  /\ AloneInv'
             /\ \A r \in Save : job'[r].at \in Work /\ job'[r].op = "apply" => job'[r].old \in Content
             /\ \A r \in Save : r # q => Tmp(r)' = Tmp(r)
             /\ \A r \in Save : job[r].at \in Work /\ r # q => Tmp(r) # Tmp(q)
  <2>1. \A r \in Save : job'[r].at \in Work => job[r].at \in Work /\ Same(job'[r], job[r])
    BY <1>5
  <2>2. AloneInv'
    BY <1>5, <2>1 DEF AloneInv, Same
  <2>3. \A r \in Save : job'[r].at \in Work /\ job'[r].op = "apply" => job'[r].old \in Content
    BY <1>5, <2>1 DEF FileInv, Same
  <2>4. \A r \in Save : r # q => Tmp(r)' = Tmp(r)
    BY <1>5 DEF Tmp, Same
  <2> QED
    BY <1>5, <2>2, <2>3, <2>4, OtherTmp
<1>6. CASE OpenTmp(q)
  <2>1. PICK j \in JobSet :
          /\ job[q].at = "valid" /\ JobBecomes(q, j) /\ j.at = "opened" /\ j.to = Tmp(q) /\ Same(j, job[q])
          /\ disk'[Tmp(q)] = "empty" /\ \A n \in Name : n # Tmp(q) => disk'[n] = disk[n]
          /\ excuse' = excuse
    BY <1>6, OpenTmpEffect
  <2>2. Clean /\ AloneInv /\ TmpInv /\ FileInv
    BY <2>1 DEF Clean, WholeInv
  <2>3. /\ job' \in [Save -> JobSet] /\ \A r \in Save : job'[r] = IF r = q THEN j ELSE job[r]
    BY <2>1 DEF JobBecomes
  <2>4. /\ AloneInv'
        /\ \A r \in Save : job'[r].at \in Work /\ job'[r].op = "apply" => job'[r].old \in Content
        /\ \A r \in Save : r # q => Tmp(r)' = Tmp(r)
        /\ \A r \in Save : job[r].at \in Work /\ r # q => Tmp(r) # Tmp(q)
    BY <1>5, <2>1, <2>2, <2>3 DEF Same, Work
  <2>5. Tmp(q)' = Tmp(q) /\ disk'["file"] = disk["file"]
    BY <2>1, <2>3, AtWork DEF Tmp, Same, Name
  <2>6. TmpInv'
    BY <2>1, <2>2, <2>3, <2>4, <2>5, AtWork DEF TmpInv, Work
  <2>7. FileInv'
    BY <2>1, <2>2, <2>3, <2>4, <2>5 DEF FileInv, Mending, Content
  <2> QED
    BY <2>4, <2>6, <2>7
<1>7. CASE WriteTmp(q)
  <2>1. PICK j \in JobSet :
          /\ job[q].at = "opened" /\ JobBecomes(q, j) /\ j.at = "written" /\ j.to = "none" /\ Same(j, job[q])
          /\ \A n \in Name : n # job[q].to => disk'[n] = disk[n]
          /\ job[q].to \in Name /\ disk[job[q].to] = "empty" => disk'[job[q].to] = job[q].content
          /\ excuse' = excuse
    BY <1>7, WriteTmpEffect
  <2>2. Clean /\ AloneInv /\ TmpInv /\ FileInv
    BY <2>1 DEF Clean, WholeInv
  <2>3. /\ job' \in [Save -> JobSet] /\ \A r \in Save : job'[r] = IF r = q THEN j ELSE job[r]
    BY <2>1 DEF JobBecomes
  <2>4. /\ AloneInv'
        /\ \A r \in Save : job'[r].at \in Work /\ job'[r].op = "apply" => job'[r].old \in Content
        /\ \A r \in Save : r # q => Tmp(r)' = Tmp(r)
        /\ \A r \in Save : job[r].at \in Work /\ r # q => Tmp(r) # Tmp(q)
    BY <1>5, <2>1, <2>2, <2>3 DEF Same, Work
  <2>5. job[q].to = Tmp(q) /\ disk'[Tmp(q)] = job[q].content
    BY <2>1, <2>2, AtWork DEF TmpInv
  <2>6. Tmp(q)' = Tmp(q) /\ disk'["file"] = disk["file"]
    BY <2>1, <2>3, <2>5, AtWork DEF Tmp, Same, Name
  <2>7. TmpInv'
    BY <2>1, <2>2, <2>3, <2>4, <2>5, <2>6, AtWork DEF TmpInv, Work, Same
  <2>8. FileInv'
    BY <2>1, <2>2, <2>3, <2>4, <2>6 DEF FileInv, Mending, Content
  <2> QED
    BY <2>4, <2>7, <2>8
<1>8. CASE RenameTmp(q)
  <2>1. PICK j \in JobSet :
          /\ job[q].at = "written" /\ Moves(q, j, Tmp(q), "file")
          /\ (j.at = "renamed" /\ j.to = "none" /\ Same(j, job[q])) \/ JobEnded(j)
          /\ disk'["file"] = disk[Tmp(q)]
          /\ \A n \in Name : n \notin {"file", Tmp(q)} => disk'[n] = disk[n]
          /\ excuse' = excuse
    BY <1>8, RenameTmpEffect
  <2>2. Clean /\ AloneInv /\ TmpInv /\ FileInv
    BY <2>1 DEF Clean, WholeInv
  <2>3. /\ job' \in [Save -> JobSet] /\ job'[q] = j
        /\ \A r \in Save : r # q => /\ job'[r].at = job[r].at /\ Same(job'[r], job[r])
                                    /\ job'[r].to = IF job[r].to = Tmp(q) THEN "file"
                                                    ELSE IF job[r].to = "file" THEN "gone" ELSE job[r].to
    BY <2>1 DEF Moves
  <2>4. /\ AloneInv'
        /\ \A r \in Save : job'[r].at \in Work /\ job'[r].op = "apply" => job'[r].old \in Content
        /\ \A r \in Save : r # q => Tmp(r)' = Tmp(r)
        /\ \A r \in Save : job[r].at \in Work /\ r # q => Tmp(r) # Tmp(q)
    BY <1>5, <2>1, <2>2, <2>3 DEF Same, Work
  <2>5. disk'["file"] \in Content
    <3>1. disk[Tmp(q)] = job[q].content
      BY <2>1, <2>2 DEF TmpInv
    <3> QED
      BY <2>1, <3>1, AtWork DEF JobSet
  <2>6. \A r \in Save : job'[r].at = "restoring" => job'[r].to # "file"
    <3> SUFFICES ASSUME NEW r \in Save, job'[r].at = "restoring" PROVE job'[r].to # "file"
      OBVIOUS
    <3>1. r # q /\ job[r].at = "restoring"
      BY <2>1, <2>3
    <3>2. job[r].to \in {"file", "gone"} /\ Tmp(q) \notin {"file", "gone"}
      BY <3>1, AtWork DEF ShapeOf, Tmp
    <3> QED
      BY <2>3, <3>1, <3>2
  <2>7. TmpInv'
    <3> SUFFICES ASSUME NEW r \in Save
                 PROVE  /\ job'[r].at = "opened" => job'[r].to = Tmp(r)' /\ disk'[Tmp(r)'] = "empty"
                        /\ job'[r].at = "written" => disk'[Tmp(r)'] = job'[r].content
      BY Zenon DEF TmpInv
    <3>1. CASE job'[r].at \in {"opened", "written"}
      <4>1. r # q /\ job[r].at = job'[r].at /\ job[r].at \in Work /\ Same(job'[r], job[r])
        BY <2>1, <2>3, <3>1 DEF Work
      <4>2. Tmp(r)' = Tmp(r) /\ Tmp(r) # Tmp(q) /\ Tmp(r) # "file" /\ Tmp(r) \in Name
        BY <2>4, <4>1, AtWork
      <4>3. disk'[Tmp(r)] = disk[Tmp(r)]
        BY <2>1, <4>2
      <4>4. job[r].at = "opened" => job'[r].to = Tmp(r)
        BY <2>2, <2>3, <4>1, <4>2 DEF TmpInv
      <4> QED
        BY <2>2, <4>1, <4>2, <4>3, <4>4 DEF TmpInv, Same
    <3> QED
      BY <3>1
  <2>8. FileInv'
    BY <2>4, <2>5, <2>6 DEF FileInv, Mending, Content
  <2> QED
    BY <2>4, <2>7, <2>8
<1>9. CASE RenameFails(q)
  <2>1. PICK j \in JobSet :
          /\ job[q].at = "written" /\ Moves(q, j, Tmp(q), "gone") /\ JobEnded(j)
          /\ \A n \in Name : n # Tmp(q) => disk'[n] = disk[n]
          /\ excuse' = excuse
    BY <1>9, RenameFailsEffect
  <2>2. Clean /\ AloneInv /\ TmpInv /\ FileInv
    BY <2>1 DEF Clean, WholeInv
  <2>3. /\ job' \in [Save -> JobSet] /\ job'[q] = j
        /\ \A r \in Save : r # q => /\ job'[r].at = job[r].at /\ Same(job'[r], job[r])
                                    /\ job'[r].to = IF job[r].to = Tmp(q) THEN "gone"
                                                    ELSE IF job[r].to = "gone" THEN "gone" ELSE job[r].to
    BY <2>1 DEF Moves
  <2>4. /\ AloneInv'
        /\ \A r \in Save : job'[r].at \in Work /\ job'[r].op = "apply" => job'[r].old \in Content
        /\ \A r \in Save : r # q => Tmp(r)' = Tmp(r)
        /\ \A r \in Save : job[r].at \in Work /\ r # q => Tmp(r) # Tmp(q)
    BY <1>5, <2>1, <2>2, <2>3 DEF Same, Work
  <2>5. disk'["file"] = disk["file"]
    BY <2>1, AtWork DEF Name
  <2>6. \A r \in Save : Mending(r)' <=> Mending(r)
    BY <2>1, <2>3, AtWork DEF Mending, Tmp
  <2>7. TmpInv'
    <3> SUFFICES ASSUME NEW r \in Save
                 PROVE  /\ job'[r].at = "opened" => job'[r].to = Tmp(r)' /\ disk'[Tmp(r)'] = "empty"
                        /\ job'[r].at = "written" => disk'[Tmp(r)'] = job'[r].content
      BY Zenon DEF TmpInv
    <3>1. CASE job'[r].at \in {"opened", "written"}
      <4>1. r # q /\ job[r].at = job'[r].at /\ job[r].at \in Work /\ Same(job'[r], job[r])
        BY <2>1, <2>3, <3>1 DEF Work
      <4>2. Tmp(r)' = Tmp(r) /\ Tmp(r) # Tmp(q) /\ Tmp(r) # "gone" /\ Tmp(r) \in Name
        BY <2>4, <4>1, AtWork DEF Tmp
      <4>3. disk'[Tmp(r)] = disk[Tmp(r)]
        BY <2>1, <4>2
      <4>4. job[r].at = "opened" => job'[r].to = Tmp(r)
        BY <2>2, <2>3, <4>1, <4>2 DEF TmpInv
      <4> QED
        BY <2>2, <4>1, <4>2, <4>3, <4>4 DEF TmpInv, Same
    <3> QED
      BY <3>1
  <2>8. FileInv'
    BY <2>2, <2>4, <2>5, <2>6 DEF FileInv, Content
  <2> QED
    BY <2>4, <2>7, <2>8
<1>10. CASE Unhealthy(q)
  <2>1. PICK j \in JobSet :
          /\ job[q].at = "renamed" /\ JobBecomes(q, j)
          /\ j.at = "restoring" /\ j.to = "file" /\ Same(j, job[q])
          /\ disk'["file"] = "empty" /\ \A n \in Name : n # "file" => disk'[n] = disk[n]
          /\ excuse' = excuse
    BY <1>10, UnhealthyEffect
  <2>2. Clean /\ AloneInv /\ TmpInv /\ FileInv
    BY <2>1 DEF Clean, WholeInv
  <2>3. /\ job' \in [Save -> JobSet] /\ \A r \in Save : job'[r] = IF r = q THEN j ELSE job[r]
    BY <2>1 DEF JobBecomes
  <2>4. /\ AloneInv'
        /\ \A r \in Save : job'[r].at \in Work /\ job'[r].op = "apply" => job'[r].old \in Content
        /\ \A r \in Save : r # q => Tmp(r)' = Tmp(r)
    BY <1>5, <2>1, <2>2, <2>3 DEF Same, Work
  <2>5. TmpInv'
    BY <2>1, <2>2, <2>3, <2>4, AtWork DEF TmpInv
  <2>6. FileInv'
    BY <2>1, <2>3, <2>4 DEF FileInv, Mending, Content
  <2> QED
    BY <2>4, <2>5, <2>6
<1>11. CASE Restore(q)
  <2>1. PICK j \in JobSet :
          /\ job[q].at = "restoring" /\ JobBecomes(q, j) /\ JobEnded(j)
          /\ \A n \in Name : n # "file" => disk'[n] = disk[n]
          /\ job[q].to = "gone" => disk' = disk
          /\ job[q].to # "gone" /\ disk["file"] = "empty" => disk'["file"] = job[q].old
          /\ excuse' = excuse
    BY <1>11, RestoreEffect
  <2>2. Clean /\ AloneInv /\ TmpInv /\ FileInv
    BY <2>1 DEF Clean, WholeInv
  <2>3. /\ job' \in [Save -> JobSet] /\ \A r \in Save : job'[r] = IF r = q THEN j ELSE job[r]
    BY <2>1 DEF JobBecomes
  <2>4. /\ AloneInv'
        /\ \A r \in Save : job'[r].at \in Work /\ job'[r].op = "apply" => job'[r].old \in Content
        /\ \A r \in Save : r # q => Tmp(r)' = Tmp(r)
    BY <1>5, <2>1, <2>2, <2>3 DEF Same, Work
  <2>5. TmpInv'
    BY <2>1, <2>2, <2>3, <2>4, AtWork DEF TmpInv
  <2>6. \A r \in Save : ~Mending(r)'
    <3>1. \A r \in Save : r # q => job[r].at # "restoring"
      BY <2>1, <2>2, AtWork DEF AloneInv, ShapeOf, Work
    <3> QED
      BY <2>1, <2>3, <3>1 DEF Mending
  <2>7. disk'["file"] \in Content
    <3>1. CASE job[q].to = "gone"
      <4>1. \A r \in Save : ~Mending(r)
        BY <2>1, <2>2, <3>1, AtWork DEF AloneInv, ShapeOf, Work, Mending
      <4> QED
        BY <2>1, <2>2, <3>1, <4>1 DEF FileInv
    <3>2. CASE job[q].to = "file"
      <4>1. job[q].old \in Content /\ disk["file"] = "empty"
        BY <2>1, <2>2, <3>2, AtWork DEF FileInv, Mending, ShapeOf, Work
      <4> QED
        BY <2>1, <3>2, <4>1
    <3> QED
      BY <2>1, <3>1, <3>2, AtWork DEF ShapeOf
  <2>8. FileInv'
    BY <2>4, <2>6, <2>7 DEF FileInv, Content
  <2> QED
    BY <2>4, <2>5, <2>8
<1>12. CASE RestoreFails(q)
  BY <1>12, RestoreFailsEffect DEF Clean
<1> QED
  BY <1>1, <1>2, <1>3, <1>4, <1>6, <1>7, <1>8, <1>9, <1>10, <1>11, <1>12 DEF AgentMoves

\* A step that leaves the disk, and every job that is at work.
Aside ==
    /\ UNCHANGED <<disk, good, excuse>>
    /\ \A q \in Save : job'[q] = job[q] \/ (job[q].at \notin Work /\ job'[q].at \notin Work)

LEMMA AsideSteps ==
    ASSUME FilesInv,
           \/ UNCHANGED fileVars
           \/ \/ FileLock \/ FileUnlock \/ FilesBackendDies
              \/ \E q \in Save : ReadContent(q) \/ Apply(q) \/ Rollback(q) \/ AnswerRead(q) \/ TimesOut(q)
    PROVE  Aside
<1>1. CASE UNCHANGED fileVars
  BY <1>1 DEF fileVars, Aside
<1>2. CASE \/ FileLock \/ FileUnlock \/ FilesBackendDies
           \/ \E q \in Save : ReadContent(q) \/ Apply(q) \/ Rollback(q) \/ AnswerRead(q) \/ TimesOut(q)
  <2>1. /\ UNCHANGED <<disk, good, excuse>>
        /\ \A q \in Save : job[q].at \in Work \/ job'[q].at \in Work => job'[q] = job[q]
    BY <1>2, BackendInv
  <2> QED
    BY <2>1 DEF Aside
<1> QED
  BY <1>1, <1>2

LEMMA AsideWhole == WholeInv /\ Aside => WholeInv'
<1> SUFFICES ASSUME WholeInv, Aside, Clean' PROVE AloneInv' /\ TmpInv' /\ FileInv'
  BY DEF WholeInv
<1>1. Clean /\ AloneInv /\ TmpInv /\ FileInv
  BY DEF Aside, Clean, WholeInv
<1>2. /\ UNCHANGED <<disk, excuse>>
      /\ \A q \in Save : job'[q] = job[q] \/ (job[q].at \notin Work /\ job'[q].at \notin Work)
  BY DEF Aside
<1>3. AloneInv'
  BY <1>1, <1>2 DEF AloneInv
<1>4. TmpInv'
  BY <1>1, <1>2 DEF TmpInv, Tmp, Work
<1>5. FileInv'
  BY <1>1, <1>2 DEF FileInv, Mending, Work, Content
<1> QED
  BY <1>3, <1>4, <1>5

LEMMA DiesWhole == FilesInv /\ WholeInv /\ FilesAgentDies => WholeInv'
<1> SUFFICES ASSUME FilesInv, WholeInv, FilesAgentDies, Clean' PROVE AloneInv' /\ TmpInv' /\ FileInv'
  BY DEF WholeInv
<1>1. /\ \A q \in Save : job'[q] = NoJob
      /\ excuse \subseteq excuse' /\ disk' = disk
      /\ (\E q \in Save : job[q].at = "restoring") => "cut restore" \in excuse'
  BY DiesEffect
<1>2. Clean /\ \A q \in Save : ~Mending(q)
  BY <1>1 DEF Clean, Mending
<1>3. disk'["file"] \in Content
  BY <1>1, <1>2 DEF WholeInv, FileInv
<1>4. AloneInv' /\ TmpInv'
  BY <1>1, NoJobFacts DEF AloneInv, TmpInv, Work
<1>5. FileInv'
  BY <1>1, <1>3, NoJobFacts DEF FileInv, Mending, Work, Content
<1> QED
  BY <1>4, <1>5

LEMMA NextWhole == FilesInv /\ WholeInv /\ [FilesNext]_fileVars => WholeInv'
<1> SUFFICES ASSUME FilesInv, WholeInv, [FilesNext]_fileVars PROVE WholeInv'
  OBVIOUS
<1>1. Aside \/ (\E q \in Save : AgentMoves(q)) \/ FilesAgentDies
  BY FileSteps, AsideSteps
<1> QED
  BY <1>1, AsideWhole, AgentWhole, DiesWhole

LEMMA InitWhole == FilesInit => WholeInv
<1> SUFFICES ASSUME FilesInit PROVE WholeInv
  OBVIOUS
<1>1. \A q \in Save : job[q] = NoJob
  BY DEF FilesInit
<1>2. disk["file"] \in Content
  BY DEF FilesInit, Name, Content
<1> QED
  BY <1>1, <1>2, NoJobFacts DEF WholeInv, AloneInv, TmpInv, FileInv, Mending, Work

\* The service finds a whole content at every moment, but while an apply writes back what it has
\* found, and after that was cut short or two commands of one kind have met
\* (main.go:1136-1155, 1175-1180).
THEOREM WholeFileCorrect == FilesSpec => []WholeFile
<1>1. WholeInv => WholeFile
  BY DEF WholeInv, Clean, FileInv, Mending, WholeFile
<1>2. FilesSpec => [](FilesInv /\ WholeInv)
  BY InitFilesInv, NextFilesInv, InitWhole, NextWhole, PTL DEF FilesSpec
<1> QED
  BY <1>1, <1>2, PTL

-----------------------------------------------------------------------------
(* Files: the file is what the newest command that succeeded has made it *)

Before == {"read", "valid", "opened", "written"}

\* While nobody has met anybody: what the one job at work has read, a page has seen and the file
\* has in it are the last good content, until the job puts its own content into the file.
GoodJob(j, view, file, last) ==
    /\ j.op = "apply" => j.old = last
    /\ j.at \in Before => file = last
    /\ j.at \in Before /\ j.op = "apply" /\ view # "none" => file = view
    /\ j.at = "renamed" => file = j.content
    /\ j.at = "restoring" => j.to = "file"

GoodInv == excuse = {} =>
    /\ \A q \in Save, r \in Save : job[q].at \in Work /\ job[r].at \in Work => q = r
    /\ \A q \in Save : job[q].at \in Work => GoodJob(job[q], save[q].view, disk["file"], good)
    /\ (\A q \in Save : job[q].at \notin Work) => disk["file"] = good

\* The one job that is at work, or sets to work, makes a step.
LEMMA SoleStep ==
    ASSUME FilesInv, NEW q \in Save, NEW j \in JobSet, job'[q] = j,
           \A r \in Save : r # q => job[r].at \notin Work /\ job'[r].at = job[r].at,
           j.at \in Work => GoodJob(j, save[q].view, disk'["file"], good'),
           j.at \notin Work => disk'["file"] = good', save' = save
    PROVE  GoodInv'
<1>1. \A r \in Save, s \in Save : job'[r].at \in Work /\ job'[s].at \in Work => r = s
  OBVIOUS
<1>2. \A r \in Save : job'[r].at \in Work => GoodJob(job'[r], save'[r].view, disk'["file"], good')
  OBVIOUS
<1>3. (\A r \in Save : job'[r].at \notin Work) => disk'["file"] = good'
  OBVIOUS
<1> QED
  BY <1>1, <1>2, <1>3, Zenon DEF GoodInv

\* Who sets to work has met nobody, or is excused.
LEMMA SetsToWork ==
    ASSUME FilesInv, GoodInv, NEW q \in Save, job[q].at = "sent", excuse' = excuse \cup Meeting(q),
           excuse' = {}
    PROVE  /\ excuse = {} /\ disk["file"] = good
           /\ \A r \in Save : job[r].at \notin Work
<1>1. excuse = {} /\ Working = {}
  BY DEF Meeting
<1>2. \A r \in Save : job[r].at \notin Work
  BY <1>1 DEF Working, Work
<1> QED
  BY <1>1, <1>2 DEF GoodInv

\* Who is at work is alone.
LEMMA AtWorkAlone ==
    ASSUME FilesInv, WholeInv, GoodInv, NEW q \in Save, job[q].at \in Work, excuse = {}
    PROVE  /\ GoodJob(job[q], save[q].view, disk["file"], good)
           /\ \A r \in Save : r # q => job[r].at \notin Work
           /\ TmpInv /\ FileInv
  BY DEF GoodInv, WholeInv, Clean

LEMMA AgentGood ==
    ASSUME FilesInv, WholeInv, GoodInv, NEW q \in Save, AgentMoves(q)
    PROVE  GoodInv'
<1> SUFFICES ASSUME excuse' = {} PROVE GoodInv'
  BY DEF GoodInv
<1>1. CASE ReadFile(q)
  <2>1. PICK j \in JobSet :
          /\ job[q].at = "sent" /\ job[q].op = "apply" /\ JobBecomes(q, j)
          /\ \/ /\ j.at = "read" /\ j.op = "apply" /\ j.to = "none" /\ j.old = disk["file"]
                /\ save[q].view \in {"none", disk["file"]}
             \/ JobEnded(j)
          /\ excuse' = excuse \cup Meeting(q) /\ disk' = disk /\ good' = good /\ save' = save
    BY <1>1, ReadFileEffect
  <2>2. disk["file"] = good /\ \A r \in Save : job[r].at \notin Work
    BY <2>1, SetsToWork
  <2>3. job'[q] = j /\ \A r \in Save : r # q => job[r].at \notin Work /\ job'[r].at = job[r].at
    BY <2>1, <2>2 DEF JobBecomes
  <2>4. j.at \in Work => GoodJob(j, save[q].view, disk'["file"], good')
    BY <2>1, <2>2 DEF GoodJob, Before, JobEnded, Work
  <2> QED
    BY <2>1, <2>2, <2>3, <2>4, SoleStep
<1>2. CASE StartRollback(q)
  <2>1. PICK j \in JobSet :
          /\ job[q].at = "sent" /\ job[q].op = "rollback" /\ JobBecomes(q, j)
          /\ j.at = "valid" /\ Same(j, job[q])
          /\ excuse' = excuse \cup Meeting(q) /\ disk' = disk /\ good' = good /\ save' = save
    BY <1>2, StartRollbackEffect
  <2>2. disk["file"] = good /\ \A r \in Save : job[r].at \notin Work
    BY <2>1, SetsToWork
  <2>3. job'[q] = j /\ \A r \in Save : r # q => job[r].at \notin Work /\ job'[r].at = job[r].at
    BY <2>1, <2>2 DEF JobBecomes
  <2>4. GoodJob(j, save[q].view, disk'["file"], good') /\ j.at \in Work
    BY <2>1, <2>2 DEF GoodJob, Before, Same, Work
  <2> QED
    BY <2>1, <2>3, <2>4, SoleStep
\* A job at work, which is alone, becomes another one.
<1>3. ASSUME NEW j \in JobSet, job[q].at \in Work, JobBecomes(q, j)
      PROVE  job'[q] = j /\ \A r \in Save : r # q => job'[r].at = job[r].at
  BY <1>3 DEF JobBecomes
<1>4. CASE Validate(q)
  <2>1. PICK j \in JobSet :
          /\ job[q].at = "read" /\ JobBecomes(q, j)
          /\ (j.at = "valid" /\ j.to = "none" /\ Same(j, job[q])) \/ JobEnded(j)
          /\ excuse' = excuse /\ disk' = disk /\ good' = good /\ save' = save
    BY <1>4, ValidateEffect
  <2>2. /\ GoodJob(job[q], save[q].view, disk["file"], good) /\ job[q].at \in Work
        /\ \A r \in Save : r # q => job[r].at \notin Work
    BY <2>1, AtWorkAlone DEF Work
  <2>3. j.at \in Work => GoodJob(j, save[q].view, disk'["file"], good')
    BY <2>1, <2>2 DEF GoodJob, Before, JobEnded, Same, Work
  <2>4. disk'["file"] = good'
    BY <2>1, <2>2 DEF GoodJob, Before
  <2> QED
    BY <1>3, <2>1, <2>2, <2>3, <2>4, SoleStep
<1>5. CASE Fails(q) \/ Healthy(q)
  <2>1. PICK j \in JobSet :
          /\ \/ job[q].at \in Before /\ good' = good
             \/ job[q].at = "renamed" /\ good' = job[q].content
          /\ JobBecomes(q, j) /\ JobEnded(j)
          /\ excuse' = excuse /\ disk' = disk /\ save' = save
    BY <1>5, FailsEffect, HealthyEffect DEF Before
  <2>2. /\ GoodJob(job[q], save[q].view, disk["file"], good) /\ job[q].at \in Work
        /\ \A r \in Save : r # q => job[r].at \notin Work
    BY <2>1, AtWorkAlone DEF Work, Before
  <2>3. disk'["file"] = good' /\ j.at \notin Work
    BY <2>1, <2>2 DEF GoodJob, JobEnded, Work
  <2> QED
    BY <1>3, <2>1, <2>2, <2>3, SoleStep
<1>6. CASE OpenTmp(q) \/ WriteTmp(q)
  <2>1. PICK j \in JobSet :
          /\ job[q].at \in {"valid", "opened"} /\ JobBecomes(q, j)
          /\ j.at \in {"opened", "written"} /\ Same(j, job[q])
          /\ \A n \in Name : n \notin {Tmp(q), job[q].to} => disk'[n] = disk[n]
          /\ job[q].at = "opened" \/ job[q].to = "none"
          /\ excuse' = excuse /\ good' = good /\ save' = save
    BY <1>6, OpenTmpEffect, WriteTmpEffect, AtWork DEF ShapeOf, Open
  <2>2. /\ GoodJob(job[q], save[q].view, disk["file"], good) /\ job[q].at \in Work
        /\ \A r \in Save : r # q => job[r].at \notin Work
        /\ TmpInv
    BY <2>1, AtWorkAlone DEF Work
  <2>3. disk'["file"] = disk["file"]
    <3>1. job[q].to # "file" /\ Tmp(q) # "file" /\ "file" \in Name
      BY <2>1, <2>2, AtWork DEF TmpInv, Name
    <3> QED
      BY <2>1, <3>1
  <2>4. GoodJob(j, save[q].view, disk'["file"], good') /\ j.at \in Work
    BY <2>1, <2>2, <2>3 DEF GoodJob, Before, Same, Work
  <2> QED
    BY <1>3, <2>1, <2>2, <2>4, SoleStep
<1>7. CASE RenameTmp(q)
  <2>1. PICK j \in JobSet :
          /\ job[q].at = "written" /\ Moves(q, j, Tmp(q), "file")
          /\ \/ /\ job[q].op = "apply" /\ j.at = "renamed" /\ Same(j, job[q])
                /\ good' = good
             \/ job[q].op = "rollback" /\ JobEnded(j) /\ good' = job[q].content
          /\ disk'["file"] = disk[Tmp(q)]
          /\ excuse' = excuse /\ save' = save
    BY <1>7, RenameTmpEffect
  <2>2. /\ GoodJob(job[q], save[q].view, disk["file"], good)
        /\ \A r \in Save : r # q => job[r].at \notin Work
        /\ TmpInv
    BY <2>1, AtWorkAlone DEF Work
  <2>3. disk'["file"] = job[q].content
    BY <2>1, <2>2 DEF TmpInv
  <2>4. job'[q] = j /\ \A r \in Save : r # q => job'[r].at = job[r].at
    BY <2>1 DEF Moves
  <2>5. j.at \in Work => GoodJob(j, save[q].view, disk'["file"], good')
    BY <2>1, <2>2, <2>3 DEF GoodJob, Before, JobEnded, Same, Work
  <2>6. j.at \notin Work => disk'["file"] = good'
    BY <2>1, <2>3 DEF Work
  <2> QED
    BY <2>1, <2>2, <2>4, <2>5, <2>6, SoleStep
<1>8. CASE RenameFails(q)
  <2>1. PICK j \in JobSet :
          /\ job[q].at = "written" /\ Moves(q, j, Tmp(q), "gone") /\ JobEnded(j)
          /\ \A n \in Name : n # Tmp(q) => disk'[n] = disk[n]
          /\ excuse' = excuse /\ good' = good /\ save' = save
    BY <1>8, RenameFailsEffect
  <2>2. /\ GoodJob(job[q], save[q].view, disk["file"], good)
        /\ \A r \in Save : r # q => job[r].at \notin Work
    BY <2>1, AtWorkAlone DEF Work
  <2>3. disk'["file"] = good' /\ j.at \notin Work
    BY <2>1, <2>2, AtWork DEF GoodJob, Before, JobEnded, Work, Name
  <2>4. job'[q] = j /\ \A r \in Save : r # q => job'[r].at = job[r].at
    BY <2>1 DEF Moves
  <2> QED
    BY <2>1, <2>2, <2>3, <2>4, SoleStep
<1>9. CASE Unhealthy(q)
  <2>1. PICK j \in JobSet :
          /\ job[q].at = "renamed" /\ JobBecomes(q, j)
          /\ j.at = "restoring" /\ j.to = "file" /\ Same(j, job[q])
          /\ excuse' = excuse /\ good' = good /\ save' = save
    BY <1>9, UnhealthyEffect
  <2>2. /\ GoodJob(job[q], save[q].view, disk["file"], good) /\ job[q].at \in Work
        /\ \A r \in Save : r # q => job[r].at \notin Work
    BY <2>1, AtWorkAlone DEF Work
  <2>3. GoodJob(j, save[q].view, disk'["file"], good') /\ j.at \in Work
    BY <2>1, <2>2 DEF GoodJob, Before, Same, Work
  <2> QED
    BY <1>3, <2>1, <2>2, <2>3, SoleStep
<1>10. CASE Restore(q)
  <2>1. PICK j \in JobSet :
          /\ job[q].at = "restoring" /\ JobBecomes(q, j) /\ JobEnded(j)
          /\ job[q].to # "gone" /\ disk["file"] = "empty" => disk'["file"] = job[q].old
          /\ excuse' = excuse /\ good' = good /\ save' = save
    BY <1>10, RestoreEffect
  <2>2. /\ GoodJob(job[q], save[q].view, disk["file"], good) /\ job[q].at \in Work
        /\ \A r \in Save : r # q => job[r].at \notin Work
        /\ FileInv
    BY <2>1, AtWorkAlone DEF Work
  <2>3. job[q].to = "file" /\ job[q].op = "apply" /\ job[q].old = good
    BY <2>1, <2>2, AtWork DEF GoodJob, ShapeOf
  <2>4. disk["file"] = "empty"
    BY <2>1, <2>2, <2>3 DEF FileInv, Mending
  <2>5. disk'["file"] = good' /\ j.at \notin Work
    BY <2>1, <2>3, <2>4 DEF JobEnded, Work
  <2> QED
    BY <1>3, <2>1, <2>2, <2>5, SoleStep
<1>11. CASE RestoreFails(q)
  BY <1>11, RestoreFailsEffect
<1> QED
  BY <1>1, <1>2, <1>4, <1>5, <1>6, <1>7, <1>8, <1>9, <1>10, <1>11 DEF AgentMoves

\* What a page has seen does not change while the agent is at its request.
LEMMA ViewStays ==
    ASSUME FilesInv,
           \/ UNCHANGED fileVars
           \/ \/ FileLock \/ FileUnlock \/ FilesBackendDies
              \/ \E q \in Save : ReadContent(q) \/ Apply(q) \/ Rollback(q) \/ AnswerRead(q) \/ TimesOut(q),
           NEW r \in Save, job[r].at \in Work
    PROVE  save'[r].view = save[r].view
<1>1. save \in [Save -> SaveSet] /\ save[r].at # "idle"
  BY DEF FilesInv, FilesTypeOK, ShapeInv, SaveSet, Work
<1>2. CASE UNCHANGED fileVars \/ FileLock \/ FileUnlock
  BY <1>2 DEF fileVars, FileLock, FileUnlock
<1>3. CASE FilesBackendDies
  BY <1>1, <1>3 DEF FilesBackendDies, SaveSet
<1>4. ASSUME NEW q \in Save, ReadContent(q) \/ Apply(q) \/ Rollback(q) PROVE save'[r].view = save[r].view
  <2>1. save[q].at = "idle" /\ \A p \in Save : p # q => save'[p] = save[p]
    <3>1. save \in [Save -> SaveSet]
      BY <1>1
    <3>2. CASE ReadContent(q)
      BY <3>1, <3>2 DEF ReadContent
    <3>3. CASE Apply(q)
      BY <3>1, <3>3 DEF Apply, Command
    <3>4. CASE Rollback(q)
      BY <3>1, <3>4 DEF Rollback, Command
    <3> QED
      BY <1>4, <3>2, <3>3, <3>4
  <2> QED
    BY <1>1, <2>1
<1>5. ASSUME NEW q \in Save, AnswerRead(q) PROVE save'[r].view = save[r].view
  <2>1. job[q].at = "answered" /\ \A p \in Save : p # q => save'[p] = save[p]
    BY <1>1, <1>5 DEF AnswerRead
  <2> QED
    BY <2>1 DEF Work
<1>6. ASSUME NEW q \in Save, TimesOut(q) PROVE save'[r].view = save[r].view
  BY <1>1, <1>6 DEF TimesOut, SaveSet
<1> QED
  BY <1>2, <1>3, <1>4, <1>5, <1>6

LEMMA NextGood == FilesInv /\ WholeInv /\ GoodInv /\ [FilesNext]_fileVars => GoodInv'
<1> SUFFICES ASSUME FilesInv, WholeInv, GoodInv, [FilesNext]_fileVars, excuse' = {} PROVE GoodInv'
  BY DEF GoodInv
<1>1. CASE \/ UNCHANGED fileVars
           \/ \/ FileLock \/ FileUnlock \/ FilesBackendDies
              \/ \E q \in Save : ReadContent(q) \/ Apply(q) \/ Rollback(q) \/ AnswerRead(q) \/ TimesOut(q)
  <2>1. Aside
    BY <1>1, AsideSteps
  <2>2. \A r \in Save : job[r].at \in Work => save'[r].view = save[r].view
    BY <1>1, ViewStays
  <2>3. /\ excuse = {} /\ disk' = disk /\ good' = good
        /\ \A r \in Save : job'[r].at \in Work => job[r].at \in Work /\ job'[r] = job[r]
        /\ \A r \in Save : job[r].at \in Work => job'[r] = job[r]
    BY <2>1 DEF Aside
  <2>4. \A q \in Save, r \in Save : job'[q].at \in Work /\ job'[r].at \in Work => q = r
    BY <2>3 DEF GoodInv
  <2>5. \A q \in Save : job'[q].at \in Work => GoodJob(job'[q], save'[q].view, disk'["file"], good')
    BY <2>2, <2>3 DEF GoodInv
  <2>6. (\A q \in Save : job'[q].at \notin Work) => disk'["file"] = good'
    BY <2>3 DEF GoodInv
  <2> QED
    BY <2>4, <2>5, <2>6, Zenon DEF GoodInv
<1>2. CASE FilesAgentDies
  <2>1. /\ \A q \in Save : job'[q].at = "none" /\ job[q].at \notin Work
        /\ disk' = disk /\ good' = good /\ excuse = {}
    BY <1>2, DiesEffect, NoJobFacts
  <2> QED
    BY <2>1 DEF GoodInv, Work
<1> QED
  BY <1>1, <1>2, FileSteps, AgentGood

LEMMA InitGood == FilesInit => GoodInv
<1> SUFFICES ASSUME FilesInit PROVE GoodInv
  OBVIOUS
<1>1. \A q \in Save : job[q].at = "none"
  BY NoJobFacts DEF FilesInit
<1>2. disk["file"] = good
  BY DEF FilesInit, Name
<1> QED
  BY <1>1, <1>2 DEF GoodInv, Work

LEMMA FilesAlways == FilesSpec => [](FilesInv /\ WholeInv /\ GoodInv)
  BY InitFilesInv, NextFilesInv, InitWhole, NextWhole, InitGood, NextGood, PTL DEF FilesSpec

\* When the agent is at no command the file is what the newest successful one has made it, unless
\* commands met or the agent ended at one (main.go:1102-1155).
THEOREM LastGoodCorrect == FilesSpec => []FileIsLastGood
<1>1. FilesInv /\ GoodInv => FileIsLastGood
  BY AtWork DEF GoodInv, FileIsLastGood, Working, Work, FilesInv, FilesTypeOK, Stage
<1> QED
  BY <1>1, FilesAlways, PTL

\* An apply does not undo a change its page has not seen, unless it has met another command
\* (file_ops_handlers.go:227-234, main.go:1109-1112).
THEOREM NoLostUpdateCorrect == FilesSpec => NoLostUpdate
<1>1. ASSUME GoodInv
      PROVE  \A q \in Save :
                job[q].op = "apply" /\ job[q].at = "written" /\ job'[q].at = "renamed"
                   /\ save[q].view # "none" /\ excuse = {} => disk["file"] = save[q].view
  BY <1>1 DEF GoodInv, GoodJob, Before, Work
<1>2. FilesSpec => []GoodInv
  BY FilesAlways, PTL
<1> QED
  BY <1>1, <1>2, PTL DEF NoLostUpdate

-----------------------------------------------------------------------------
(* The components together *)

\* A behaviour of the panel is one of each of its components: a step of the panel is a step of
\* the component that is looked at, and leaves what the others keep alone.
THEOREM PanelIsItsParts ==
    Spec => VersionsSpec /\ FirewallSpec /\ VaultSpec /\ FilesSpec /\ CertificatesSpec
<1>1. Init => VersionsInit /\ FirewallInit /\ VaultInit /\ FilesInit /\ CertificatesInit
  BY Zenon DEF Init
<1>2. [Next]_vars => [VersionsNext]_versionVars
  BY DEF Next, vars
<1>3. [Next]_vars => [FirewallNext]_fwVars
  BY DEF Next, vars
<1>4. [Next]_vars => [VaultNext]_vaultVars
  BY DEF Next, vars
<1>5. [Next]_vars => [FilesNext]_fileVars
  BY DEF Next, vars
<1>6. [Next]_vars => [CertificatesNext]_certVars
  BY DEF Next, vars
<1> QED
  BY <1>1, <1>2, <1>3, <1>4, <1>5, <1>6, PTL
     DEF Spec, VersionsSpec, FirewallSpec, VaultSpec, FilesSpec, CertificatesSpec

\* The component that is looked at is one of the five for good.
LEMMA OneOfTheParts ==
    Spec => [](part \in {"versions", "firewall", "vault", "files", "certificates"})
<1>1. Init => part \in {"versions", "firewall", "vault", "files", "certificates"}
  BY DEF Init
<1>2. part \in {"versions", "firewall", "vault", "files", "certificates"} /\ [Next]_vars
         => (part \in {"versions", "firewall", "vault", "files", "certificates"})'
  BY DEF Next, vars
<1> QED
  BY <1>1, <1>2, PTL DEF Spec

\* Every variable of the panel keeps its type.
THEOREM PanelTypeCorrect == Spec => []PanelTypeOK
<1>1. ASSUME part \in {"versions", "firewall", "vault", "files", "certificates"},
             VersionsTypeOK, FirewallTypeOK, VaultTypeOK, FilesTypeOK, CertificatesTypeOK
      PROVE  PanelTypeOK
  BY <1>1 DEF PanelTypeOK
<1> QED
  BY <1>1, OneOfTheParts, PanelIsItsParts, VersionsTypeCorrect, FirewallTypeCorrect,
     VaultTypeCorrect, FilesTypeCorrect, CertificatesTypeCorrect, PTL

\* Each component keeps in the panel what it promises alone.
THEOREM PanelKeepsPromises ==
    Spec => /\ []VersionsSound
            /\ []PanelMatchesHost /\ RollbackUndoes
            /\ []RevokedForGood /\ []CountsUnlessRaced /\ []ExpiredIsRevoked
            /\ []WholeFile /\ []FileIsLastGood /\ NoLostUpdate
            /\ []HostHasTheRow /\ []HistoryHasPrevious /\ []OneFailure
  BY PanelIsItsParts, VersionsCorrect, PanelMatchesHostAlways, RollbackUndoesAlways,
     RevokedCorrect, CountsCorrect, ExpiredCorrect, WholeFileCorrect, LastGoodCorrect,
     NoLostUpdateCorrect, HostHasTheRowAlways, HistoryHasPreviousAlways, OneFailureAlways,
     PTL

=============================================================================
