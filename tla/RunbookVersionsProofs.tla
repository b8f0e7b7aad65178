----------------------- MODULE RunbookVersionsProofs -----------------------
(***************************************************************************)
(* Proofs about RunbookVersions, for any number of requests.               *)
(***************************************************************************)
EXTENDS RunbookVersions, TLAPS

-----------------------------------------------------------------------------
(* Types *)

\* Every variable of the versions keeps its type.
THEOREM VersionsTypeCorrect == VersionsSpec => []VersionsTypeOK
<1>1. VersionsInit => VersionsTypeOK
  <2> SUFFICES ASSUME VersionsInit PROVE VersionsTypeOK
    OBVIOUS
  <2>1. versions \in Seq(Nat) /\ owed \subseteq Nat
    BY DEF VersionsInit
  <2>2. raced \in BOOLEAN
    BY Zenon DEF VersionsInit
  <2>3. runbook = "none" /\ latest = 0 /\ remover = "idle" /\ creator = "idle"
    BY Zenon DEF VersionsInit
  <2>4. edit \in [Edit -> {"idle", "saving", "returning", "inserted", "done"}]
    BY Zenon DEF VersionsInit
  <2>5. number \in [Edit -> Nat]
    <3>1. [d \in Edit |-> 0] \in [Edit -> Nat]
      OBVIOUS
    <3> QED
      BY <3>1, Zenon DEF VersionsInit
  <2> QED
    BY <2>1, <2>2, <2>3, <2>4, <2>5 DEF VersionsTypeOK
<1>2. VersionsTypeOK /\ [VersionsNext]_versionVars => VersionsTypeOK'
  <2> SUFFICES ASSUME VersionsTypeOK, [VersionsNext]_versionVars PROVE VersionsTypeOK'
    OBVIOUS
  <2> USE DEF VersionsTypeOK
  <2>1. ASSUME NEW d \in Edit, LoadRunbook(d) PROVE VersionsTypeOK'
    <3>1. \E k \in {"saving", "returning"} : edit' = [edit EXCEPT ![d] = k]
      BY <2>1 DEF LoadRunbook
    <3>2. raced' \in BOOLEAN
      BY <2>1, Zenon DEF LoadRunbook
    <3> QED
      BY <2>1, <3>1, <3>2 DEF LoadRunbook
  <2>2. ASSUME NEW d \in Edit, InsertVersion(d) PROVE VersionsTypeOK'
    BY <2>2 DEF InsertVersion
  <2>3. ASSUME NEW d \in Edit, SetLatest(d) PROVE VersionsTypeOK'
    BY <2>3 DEF SetLatest
  <2>4. CASE DeleteVersions
    <3>1. versions' = <<>> \/ versions' = versions
      BY <2>4 DEF DeleteVersions
    <3>2. <<>> \in Seq(Nat)
      OBVIOUS
    <3>3. versions' \in Seq(Nat)
      BY <3>1, <3>2, Zenon
    <3>4. remover' = "versions" /\ UNCHANGED <<runbook, latest, creator, edit, number, owed, raced>>
      BY <2>4 DEF DeleteVersions
    <3> QED
      BY <3>3, <3>4
  <2>5. CASE DeleteExecutions
    BY <2>5 DEF DeleteExecutions
  <2>6. CASE DeleteRunbook
    BY <2>6 DEF DeleteRunbook
  <2>7. CASE RequestsDie
    <3>1. raced' \in BOOLEAN
      BY <2>7, Zenon DEF RequestsDie
    <3>2. edit' \in [Edit -> {"idle", "saving", "returning", "inserted", "done"}]
      BY <2>7 DEF RequestsDie
    <3> QED
      BY <2>7, <3>1, <3>2 DEF RequestsDie
  <2>8. CASE UNCHANGED versionVars
    BY <2>8 DEF versionVars
  <2>9. CASE CreateRunbook
    BY <2>9 DEF CreateRunbook
  <2>10. CASE InsertFirst
    <3>1. CASE versions' = Append(versions, 1) /\ owed' = owed \ {1}
      <4>1. versions' \in Seq(Nat) /\ owed' \subseteq Nat
        BY <3>1
      <4> QED
        BY <2>10, <4>1 DEF InsertFirst
    <3>2. CASE UNCHANGED <<versions, owed>>
      BY <2>10, <3>2 DEF InsertFirst
    <3> QED
      BY <2>10, <3>1, <3>2 DEF InsertFirst
  <2>11. ASSUME NEW d \in Edit, InsertFails(d) PROVE VersionsTypeOK'
    BY <2>11 DEF InsertFails
  <2> QED
    BY <2>1, <2>2, <2>3, <2>4, <2>5, <2>6, <2>7, <2>8, <2>9, <2>10, <2>11 DEF VersionsNext
<1> QED
  BY <1>1, <1>2, PTL DEF VersionsSpec

-----------------------------------------------------------------------------
(* The latest version is stored *)

\* The numbers that are stored, or will never be and are known to be missing.
Known == Stored \cup owed

\* What an edit has computed goes on from what is known, and is known before it is latest.
LatestInv ==
    /\ creator = "idle" =>
          /\ runbook = "none" /\ latest = 0 /\ versions = <<>> /\ remover = "idle"
          /\ \A d \in Edit : edit[d] = "idle"
    /\ creator = "runbook" /\ remover = "idle" => 1 \in owed
    /\ remover = "idle" =>
          /\ creator = "idle" \/ runbook = "live"
          /\ \A n \in 1..latest : n \in Known
          /\ \A d \in Edit : edit[d] \in {"saving", "returning"} =>
                \A n \in 1..number[d] : n = number[d] \/ n \in Known
          /\ \A d \in Edit : edit[d] = "inserted" => \A n \in 1..number[d] : n \in Known

\* What is appended is stored with all that was.
LEMMA StoredAppend ==
    ASSUME NEW n \in Nat, versions \in Seq(Nat), versions' = Append(versions, n)
    PROVE  Stored' = Stored \cup {n}
<1>1. Len(versions') = Len(versions) + 1 /\ Len(versions) \in Nat
  OBVIOUS
<1>2. \A m \in 1..Len(versions) : versions'[m] = versions[m]
  OBVIOUS
<1>3. versions'[Len(versions) + 1] = n
  OBVIOUS
<1> QED
  BY <1>1, <1>2, <1>3 DEF Stored

LEMMA LatestInvInductive ==
    ASSUME VersionsTypeOK, LatestInv, [VersionsNext]_versionVars
    PROVE  LatestInv'
<1>1. ASSUME NEW d \in Edit, LoadRunbook(d) PROVE LatestInv'
  <2>1. /\ \E k \in {"saving", "returning"} : edit' = [edit EXCEPT ![d] = k]
        /\ number' = [number EXCEPT ![d] = latest + 1] /\ latest \in Nat
        /\ UNCHANGED <<runbook, latest, versions, creator, remover, owed>>
    BY <1>1 DEF LoadRunbook, VersionsTypeOK
  <2>2. /\ number'[d] = latest + 1 /\ edit'[d] # "inserted"
        /\ \A e \in Edit : e # d => edit'[e] = edit[e] /\ number'[e] = number[e]
    BY <2>1 DEF VersionsTypeOK
  <2>3. \A n \in 1..number'[d] : n = number'[d] \/ n \in 1..latest
    BY <2>1, <2>2
  <2>4. Known' = Known
    BY <2>1 DEF Known, Stored
  <2>5. creator # "idle"
    BY <1>1 DEF LoadRunbook, LatestInv
  <2> QED
    BY <2>1, <2>2, <2>3, <2>4, <2>5 DEF LatestInv
<1>2. ASSUME NEW d \in Edit, InsertVersion(d) PROVE LatestInv'
  <2>1. /\ versions' = Append(versions, number[d]) /\ versions \in Seq(Nat) /\ number[d] \in Nat
        /\ edit[d] \in {"saving", "returning"} /\ edit' = [edit EXCEPT ![d] = "inserted"]
        /\ UNCHANGED <<runbook, latest, creator, number, remover, owed>>
    BY <1>2 DEF InsertVersion, VersionsTypeOK
  <2>2. Known' = Known \cup {number[d]}
    BY <2>1, StoredAppend DEF Known
  <2>3. creator # "idle"
    BY <2>1 DEF LatestInv
  <2> QED
    BY <2>1, <2>2, <2>3 DEF LatestInv, VersionsTypeOK
<1>3. ASSUME NEW d \in Edit, SetLatest(d) PROVE LatestInv'
  <2>1. /\ edit[d] = "inserted" /\ edit' = [edit EXCEPT ![d] = "done"]
        /\ latest' \in {number[d], latest}
        /\ UNCHANGED <<runbook, versions, creator, number, remover, owed>>
    BY <1>3 DEF SetLatest
  <2>2. Known' = Known /\ creator # "idle"
    BY <2>1 DEF LatestInv, Known, Stored
  <2> QED
    BY <2>1, <2>2 DEF LatestInv, VersionsTypeOK
<1>4. CASE DeleteVersions
  <2>1. runbook = "live" /\ remover' = "versions" /\ creator' = creator
    BY <1>4 DEF DeleteVersions
  <2> QED
    BY <2>1 DEF LatestInv
<1>5. CASE DeleteExecutions
  BY <1>5 DEF DeleteExecutions, LatestInv
<1>6. CASE DeleteRunbook
  <2>1. remover # "idle" /\ remover' = "done"
        /\ UNCHANGED <<latest, versions, creator, edit>>
        /\ runbook' \in {"deleted", runbook}
    BY <1>6 DEF DeleteRunbook
  <2> QED
    BY <2>1, <1>6 DEF DeleteRunbook, LatestInv
<1>7. CASE RequestsDie
  <2>1. /\ creator' = (IF creator = "runbook" THEN "done" ELSE creator)
        /\ remover' = "idle" <=> remover = "idle"
        /\ UNCHANGED <<runbook, latest, versions, number, owed>>
        /\ \A d \in Edit : edit'[d] = "done" \/ (edit'[d] = edit[d] /\ d \notin UnderWay)
        /\ \A d \in Edit : edit[d] = "idle" => edit'[d] = "idle"
    BY <1>7 DEF RequestsDie, UnderWay
  <2>2. Known' = Known
    BY <2>1 DEF Known, Stored
  <2> QED
    BY <2>1, <2>2 DEF LatestInv, UnderWay
<1>8. CASE UNCHANGED versionVars
  BY <1>8 DEF versionVars, LatestInv, Known, Stored
<1>9. CASE CreateRunbook
  <2>1. /\ creator = "idle" /\ creator' = "runbook" /\ runbook' = "live" /\ latest' = 1
        /\ owed' = {1} /\ UNCHANGED <<edit, number, remover>>
    BY <1>9 DEF CreateRunbook
  <2>2. \A d \in Edit : edit'[d] = "idle"
    BY <2>1 DEF LatestInv
  <2>3. 1 \in Known'
    BY <2>1 DEF Known
  <2> QED
    BY <2>1, <2>2, <2>3 DEF LatestInv
<1>10. CASE InsertFirst
  <2>1. /\ creator = "runbook" /\ creator' = "done"
        /\ UNCHANGED <<runbook, latest, edit, number, remover>>
    BY <1>10 DEF InsertFirst
  <2>2. Known \subseteq Known'
    <3>1. CASE versions' = Append(versions, 1) /\ owed' = owed \ {1}
      BY <3>1, StoredAppend DEF Known, VersionsTypeOK
    <3>2. CASE UNCHANGED <<versions, owed>>
      BY <3>2 DEF Known, Stored
    <3> QED
      BY <1>10, <3>1, <3>2 DEF InsertFirst
  <2> QED
    BY <2>1, <2>2 DEF LatestInv
<1>11. ASSUME NEW d \in Edit, InsertFails(d) PROVE LatestInv'
  <2>1. /\ edit[d] \in {"saving", "returning"} /\ creator # "idle"
        /\ UNCHANGED <<runbook, latest, versions, creator, number, remover>>
    BY <1>11 DEF InsertFails, LatestInv
  <2>2. CASE edit' = [edit EXCEPT ![d] = "done"] /\ owed' = owed
    BY <2>1, <2>2 DEF LatestInv, Known, Stored, VersionsTypeOK
  <2>3. CASE edit' = [edit EXCEPT ![d] = "inserted"] /\ owed' = owed \cup {number[d]}
    <3>1. Known' = Known \cup {number[d]}
      BY <2>1, <2>3 DEF Known, Stored
    <3> QED
      BY <2>1, <2>3, <3>1 DEF LatestInv, VersionsTypeOK
  <2> QED
    BY <1>11, <2>2, <2>3 DEF InsertFails
<1> QED
  BY <1>1, <1>2, <1>3, <1>4, <1>5, <1>6, <1>7, <1>8, <1>9, <1>10, <1>11 DEF VersionsNext

-----------------------------------------------------------------------------
(* A number names one version *)

Positions == 1..Len(versions)

\* While no two edits have met, there is one under way at most, and its number is above all
\* that are stored; when there is none, latest_version is not below any. A version 1 that is
\* still to come is below the number of every edit, and not there yet.
NumberInv ==
    ~raced =>
        /\ \A d, e \in UnderWay : d = e
        /\ \A d \in Edit : edit[d] \in {"saving", "returning"} =>
              \A n \in Positions : versions[n] < number[d]
        /\ \A d \in Edit : edit[d] = "inserted" => \A n \in Positions : versions[n] <= number[d]
        /\ (\A d \in Edit : edit[d] # "inserted") /\ runbook = "live" =>
              \A n \in Positions : versions[n] <= latest
        /\ \A m, n \in Positions : versions[m] = versions[n] => m = n
        /\ creator = "runbook" =>
              /\ latest > 0 /\ \A n \in Positions : versions[n] # 1
              /\ \A d \in UnderWay : number[d] > 1

LEMMA NumberInvInductive ==
    ASSUME VersionsTypeOK, LatestInv, NumberInv, [VersionsNext]_versionVars
    PROVE  NumberInv'
<1> SUFFICES ASSUME ~raced' PROVE NumberInv'
  BY DEF NumberInv
<1>1. ASSUME NEW d \in Edit, LoadRunbook(d) PROVE NumberInv'
  <2>1. /\ ~raced /\ UnderWay = {} /\ runbook = "live"
        /\ number' = [number EXCEPT ![d] = latest + 1]
        /\ UNCHANGED <<runbook, latest, versions, creator>>
    BY <1>1 DEF LoadRunbook
  <2>2. PICK k \in {"saving", "returning"} : edit' = [edit EXCEPT ![d] = k]
    BY <1>1 DEF LoadRunbook
  <2>3. UnderWay' = {d}
    BY <2>1, <2>2 DEF UnderWay, VersionsTypeOK
  <2>4. \A n \in Positions : versions[n] <= latest /\ versions[n] \in Nat
    BY <2>1 DEF NumberInv, VersionsTypeOK, Positions, UnderWay
  <2>5. \A e \in Edit : edit'[e] # "inserted" /\ (edit'[e] \in {"saving", "returning"} => e = d)
    BY <2>1, <2>2 DEF UnderWay, VersionsTypeOK
  <2>6. number'[d] = latest + 1 /\ latest \in Nat /\ Positions' = Positions
    BY <2>1 DEF VersionsTypeOK, Positions
  <2>7. \A n \in Positions : versions'[n] < number'[d]
    BY <2>1, <2>4, <2>6
  <2>8. creator = "runbook" => number'[d] > 1 /\ latest > 0 /\ \A n \in Positions : versions[n] # 1
    BY <2>1, <2>6 DEF NumberInv
  <2>9. \A m, n \in Positions : versions[m] = versions[n] => m = n
    BY <2>1 DEF NumberInv
  <2> QED
    BY <2>1, <2>3, <2>4, <2>5, <2>6, <2>7, <2>8, <2>9 DEF NumberInv
<1>2. ASSUME NEW d \in Edit, InsertVersion(d) PROVE NumberInv'
  <2>1. /\ ~raced /\ edit[d] \in {"saving", "returning"}
        /\ edit' = [edit EXCEPT ![d] = "inserted"]
        /\ versions' = Append(versions, number[d])
        /\ UNCHANGED <<runbook, latest, creator, number>>
    BY <1>2 DEF InsertVersion
  <2>2. UnderWay = {d} /\ UnderWay' = {d}
    BY <2>1 DEF UnderWay, NumberInv, VersionsTypeOK
  <2>3. /\ Len(versions) \in Nat /\ Len(versions') = Len(versions) + 1
        /\ \A n \in 1..Len(versions) : versions'[n] = versions[n] /\ versions[n] \in Nat
        /\ versions'[Len(versions) + 1] = number[d] /\ number[d] \in Nat
    BY <2>1 DEF VersionsTypeOK
  <2>4. \A n \in Positions : versions[n] < number[d]
    BY <2>1 DEF NumberInv
  <2>5. \A e \in Edit : edit'[e] \notin {"saving", "returning"} /\ (edit'[e] = "inserted" => e = d)
    BY <2>1, <2>2 DEF UnderWay, VersionsTypeOK
  <2>6. \A n \in Positions' : versions'[n] <= number'[d]
    BY <2>1, <2>3, <2>4 DEF Positions
  <2>7. \A m, n \in Positions' : versions'[m] = versions'[n] => m = n
    <3>1. \A m, n \in Positions : versions[m] = versions[n] => m = n
      BY <2>1 DEF NumberInv
    <3> QED
      BY <2>3, <2>4, <3>1 DEF Positions
  <2>8. creator = "runbook" =>
            number[d] > 1 /\ latest > 0 /\ \A n \in Positions' : versions'[n] # 1
    <3>1. creator = "runbook" =>
              number[d] > 1 /\ latest > 0 /\ \A n \in Positions : versions[n] # 1
      BY <2>1, <2>2 DEF NumberInv
    <3> QED
      BY <2>3, <3>1 DEF Positions
  <2> QED
    <3>1. UnderWay' = {d} /\ edit'[d] = "inserted" /\ number' = number
      BY <2>1, <2>2 DEF VersionsTypeOK
    <3>2. \A e \in Edit : edit'[e] = "inserted" => \A n \in Positions' : versions'[n] <= number'[e]
      BY <2>5, <2>6
    <3>3. creator' = "runbook" => latest' > 0 /\ \A e \in UnderWay' : number'[e] > 1
      BY <2>1, <2>8, <3>1
    <3> QED
      BY <2>1, <2>5, <2>7, <2>8, <3>1, <3>2, <3>3 DEF NumberInv
<1>3. ASSUME NEW d \in Edit, SetLatest(d) PROVE NumberInv'
  <2>1. /\ ~raced /\ edit[d] = "inserted" /\ edit' = [edit EXCEPT ![d] = "done"]
        /\ latest' = IF runbook = "live" THEN number[d] ELSE latest
        /\ UNCHANGED <<runbook, versions, creator, number>>
    BY <1>3 DEF SetLatest
  <2>2. UnderWay = {d} /\ UnderWay' = {}
    BY <2>1 DEF UnderWay, NumberInv, VersionsTypeOK
  <2>3. \A e \in Edit : edit'[e] \notin {"saving", "returning", "inserted"}
    BY <2>2 DEF UnderWay
  <2>4. creator = "runbook" =>
            number[d] > 1 /\ latest > 0 /\ \A n \in Positions : versions[n] # 1
    BY <2>1, <2>2 DEF NumberInv
  <2>5. creator = "runbook" => latest' > 0
    BY <2>1, <2>4 DEF VersionsTypeOK
  <2> QED
    BY <2>1, <2>2, <2>3, <2>4, <2>5 DEF NumberInv, Positions
<1>4. CASE DeleteVersions
  <2>1. versions' \in {<<>>, versions} /\ UNCHANGED <<runbook, latest, creator, edit, number, raced>>
    BY <1>4 DEF DeleteVersions
  <2>2. UnderWay' = UnderWay
    BY <2>1 DEF UnderWay
  <2>3. Positions' = {} \/ (Positions' = Positions /\ versions' = versions)
    BY <2>1 DEF Positions
  <2> QED
    BY <2>1, <2>2, <2>3 DEF NumberInv
<1>5. CASE DeleteExecutions
  BY <1>5 DEF DeleteExecutions, NumberInv, Positions, UnderWay
<1>6. CASE DeleteRunbook
  <2>1. /\ UNCHANGED <<latest, versions, creator, edit, number, raced>>
        /\ runbook' = "live" => runbook = "live"
    BY <1>6 DEF DeleteRunbook
  <2> QED
    BY <2>1 DEF NumberInv, Positions, UnderWay
<1>7. CASE RequestsDie
  <2>1. ~raced /\ UnderWay = {} /\ UNCHANGED <<runbook, latest, versions, number>>
        /\ creator' # "runbook"
    BY <1>7 DEF RequestsDie
  <2>2. edit' = edit
    BY <1>7, <2>1 DEF RequestsDie, VersionsTypeOK
  <2> QED
    BY <2>1, <2>2 DEF NumberInv, Positions, UnderWay
<1>8. CASE UNCHANGED versionVars
  BY <1>8 DEF versionVars, NumberInv, Positions, UnderWay
<1>9. CASE CreateRunbook
  <2>1. /\ versions = <<>> /\ versions' = versions /\ latest' = 1 /\ edit' = edit
        /\ \A d \in Edit : edit[d] = "idle"
    BY <1>9 DEF CreateRunbook, LatestInv
  <2>2. Positions' = {} /\ UnderWay' = {}
    BY <2>1 DEF Positions, UnderWay
  <2> QED
    BY <2>1, <2>2 DEF NumberInv
<1>10. CASE InsertFirst
  <2>1. /\ ~raced /\ creator = "runbook" /\ creator' = "done"
        /\ UNCHANGED <<runbook, latest, edit, number, raced>>
    BY <1>10 DEF InsertFirst
  <2>2. CASE UNCHANGED versions
    BY <2>1, <2>2 DEF NumberInv, Positions, UnderWay
  <2>3. CASE versions' = Append(versions, 1)
    <3>1. /\ Len(versions) \in Nat /\ Len(versions') = Len(versions) + 1
          /\ \A n \in Positions : versions'[n] = versions[n]
          /\ versions'[Len(versions) + 1] = 1
      BY <2>3 DEF VersionsTypeOK, Positions
    <3>2. Positions' = Positions \cup {Len(versions) + 1}
      BY <3>1 DEF Positions
    <3>3. latest > 0 /\ latest \in Nat /\ \A n \in Positions : versions[n] # 1
      BY <2>1 DEF NumberInv, VersionsTypeOK
    <3>4. \A d \in UnderWay : number[d] > 1 /\ number[d] \in Nat
      BY <2>1 DEF NumberInv, VersionsTypeOK, UnderWay
    <3>5. UnderWay' = UnderWay
      BY <2>1 DEF UnderWay
    <3>6. \A m, n \in Positions' : versions'[m] = versions'[n] => m = n
      BY <2>1, <3>1, <3>2, <3>3 DEF NumberInv
    <3>7. \A d \in Edit : edit'[d] \in {"saving", "returning"} =>
              \A n \in Positions' : versions'[n] < number'[d]
      BY <2>1, <3>1, <3>2, <3>4 DEF NumberInv, UnderWay
    <3>8. \A d \in Edit : edit'[d] = "inserted" => \A n \in Positions' : versions'[n] <= number'[d]
      BY <2>1, <3>1, <3>2, <3>4 DEF NumberInv, UnderWay
    <3>9. (\A d \in Edit : edit'[d] # "inserted") /\ runbook' = "live" =>
              \A n \in Positions' : versions'[n] <= latest'
      BY <2>1, <3>1, <3>2, <3>3, <3>5 DEF NumberInv
    <3>10. \A d, e \in UnderWay' : d = e
      BY <2>1, <3>5 DEF NumberInv
    <3> QED
      BY <2>1, <3>6, <3>7, <3>8, <3>9, <3>10 DEF NumberInv
  <2> QED
    BY <1>10, <2>2, <2>3 DEF InsertFirst
<1>11. ASSUME NEW d \in Edit, InsertFails(d) PROVE NumberInv'
  <2>1. /\ ~raced /\ edit[d] \in {"saving", "returning"}
        /\ UNCHANGED <<runbook, latest, versions, creator, number>>
    BY <1>11 DEF InsertFails
  <2>2. PICK k \in {"inserted", "done"} : edit' = [edit EXCEPT ![d] = k]
    BY <1>11 DEF InsertFails
  <2>3. UnderWay = {d} /\ UnderWay' \subseteq {d}
    BY <2>1, <2>2 DEF UnderWay, NumberInv, VersionsTypeOK
  <2>4. \A n \in Positions : versions[n] < number[d] /\ versions[n] \in Nat /\ number[d] \in Nat
    BY <2>1 DEF NumberInv, VersionsTypeOK, Positions
  <2>5. Positions' = Positions
    BY <2>1 DEF Positions
  <2>6. \A e \in Edit : edit'[e] \notin {"saving", "returning"} /\ (edit'[e] = "inserted" => e = d)
    BY <2>1, <2>2, <2>3 DEF UnderWay, VersionsTypeOK
  <2>7. runbook = "live" => \A n \in Positions : versions[n] <= latest
    BY <2>1, <2>3 DEF NumberInv, UnderWay
  <2> QED
    BY <2>1, <2>3, <2>4, <2>5, <2>6, <2>7 DEF NumberInv
<1> QED
  BY <1>1, <1>2, <1>3, <1>4, <1>5, <1>6, <1>7, <1>8, <1>9, <1>10, <1>11 DEF VersionsNext

-----------------------------------------------------------------------------
(* Theorem *)

\* From the first statement that creates it, a runbook nobody began to delete has its latest
\* version and all before it, but for the gaps that the ignored errors and a creation cut short
\* leave, through any number of edits that overlap or are cut short; and a number names one
\* definition until two edits have overlapped or one did not set latest_version.
THEOREM VersionsCorrect == VersionsSpec => []VersionsSound
<1>1. VersionsInit => LatestInv /\ NumberInv
  BY DEF VersionsInit, LatestInv, NumberInv, Known, Stored, Positions, UnderWay
<1>2. VersionsTypeOK /\ LatestInv /\ NumberInv /\ [VersionsNext]_versionVars => LatestInv' /\ NumberInv'
  BY LatestInvInductive, NumberInvInductive
<1>3. LatestInv /\ NumberInv => VersionsSound
  BY DEF LatestInv, NumberInv, VersionsSound, LatestIsStored, SavedIsFound, Known, Positions
<1> QED
  BY <1>1, <1>2, <1>3, VersionsTypeCorrect, PTL DEF VersionsSpec

=============================================================================
