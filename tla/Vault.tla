------------------------------- MODULE Vault -------------------------------
(***************************************************************************)
(* The secrets of one server that have one name: no index keeps names      *)
(* unique, so that a secret created again shadows the older ones.  Every   *)
(* request on a secret reads its row and then writes some of its columns   *)
(* in one statement; a worker revokes once a minute what has expired,      *)
(* reading first and writing row after row.                                *)
(*                                                                         *)
(* A value stands for the columns that encrypt it, which are always        *)
(* written together.  Every value a user enters is a new one.              *)
(***************************************************************************)
EXTENDS Naturals, Sequences, FiniteSets

CONSTANTS
    Ask,          \* requests on secrets
    MaxSecrets    \* bound on the secrets of the name

ASSUME VaultAssumption == MaxSecrets \in Nat

VARIABLES
    secrets,      \* the rows, in the order of their ids
    nextValue,    \* the value a user enters next
    ask,          \* where a request is, and the row it has read
    todo,         \* ids the worker has still to revoke in this tick
    seen,         \* history: ids the worker found in this tick
    renewed,      \* history: ids updated or rotated since it looked
    dead,         \* history: values that were in a revoked row
    uses,         \* history: how often a secret was revealed or injected
    rotations,    \* history: how often it was rotated
    doubled       \* history: <<id, column>> of counters two requests were at

vaultVars == <<secrets, nextValue, ask, todo, seen, renewed, dead, uses, rotations, doubled>>

-----------------------------------------------------------------------------
Id     == 1..MaxSecrets
Expiry == {"never", "future", "past"}
Secret == [value : Nat, version : Nat, used : Nat, revoked : BOOLEAN, expiry : Expiry]

NotAsked == [op |-> "idle", id |-> 0, used |-> 0, version |-> 0]
Done == [NotAsked EXCEPT !.op = "over"]

VaultTypeOK ==
    /\ secrets \in Seq(Secret) /\ Len(secrets) \in 0..MaxSecrets
    /\ nextValue \in Nat
    /\ ask \in [Ask -> [op : {"idle", "over", "update", "rotate", "revoke", "reveal", "inject"},
                        id : 0..MaxSecrets, used : Nat, version : Nat]]
    /\ todo \in SUBSET Id /\ seen \in SUBSET Id /\ renewed \in SUBSET Id
    /\ dead \in SUBSET Nat
    /\ uses \in [Id -> Nat] /\ rotations \in [Id -> Nat]
    /\ doubled \in SUBSET (Id \X {"used", "version"})

VaultInit ==
    /\ secrets = <<>>
    /\ nextValue = 1
    /\ ask = [q \in Ask |-> NotAsked]
    /\ todo = {} /\ seen = {} /\ renewed = {}
    /\ dead = {}
    /\ uses = [n \in Id |-> 0] /\ rotations = [n \in Id |-> 0]
    /\ doubled = {}

-----------------------------------------------------------------------------
(* Requests *)

\* The expiry is not looked at, and may be in the past.
CreateSecret(q) ==
    /\ ask[q] = NotAsked
    /\ Len(secrets) < MaxSecrets
    /\ \E expiry \in Expiry :
          secrets' = Append(secrets, [value |-> nextValue, version |-> 1, used |-> 0,
                                      revoked |-> FALSE, expiry |-> expiry])
    /\ nextValue' = nextValue + 1
    /\ ask' = [ask EXCEPT ![q] = Done]
    /\ UNCHANGED <<todo, seen, renewed, dead, uses, rotations, doubled>>

\* The counter a request writes back, one higher than it has read it.
Counter(op) ==
    CASE op \in {"reveal", "inject"} -> {"used"} [] op = "rotate" -> {"version"} [] OTHER -> {}

\* A request reads the row n.
Load(q, op, n) ==
    /\ ask[q] = NotAsked
    /\ ask' = [ask EXCEPT ![q] = [op |-> op, id |-> n, used |-> secrets[n].used,
                                  version |-> secrets[n].version]]
    /\ doubled' = doubled \cup {<<n, c>> : c \in Counter(op) \cap
                                UNION {Counter(ask[r].op) : r \in {s \in Ask : ask[s].id = n}}}
    /\ UNCHANGED <<secrets, nextValue, todo, seen, renewed, dead, uses, rotations>>

LoadToChange(q) ==
    \E n \in 1..Len(secrets), op \in {"update", "rotate", "revoke"} : Load(q, op, n)

\* A revoked secret is not shown; one that has expired is.
LoadToReveal(q) ==
    \E n \in 1..Len(secrets) : ~secrets[n].revoked /\ Load(q, "reveal", n)

\* resolveSecretValue takes the newest secret of the name, or none.
Resolve(q) ==
    LET n == Len(secrets) IN
    /\ n > 0 /\ ~secrets[n].revoked /\ secrets[n].expiry # "past"
    /\ Load(q, "inject", n)

\* The statement of a request changes its row to one of these.
\* A wrong variant: a new value or a new expiry makes a revoked secret good again.
UpdatedAndGood(row) ==
    {[value |-> value, version |-> row.version, used |-> row.used, revoked |-> FALSE,
      expiry |-> expiry] : value \in {row.value, nextValue}, expiry \in Expiry}

\* A wrong variant: an expiry that is not given is the zero time.
UpdatedToZero(row) ==
    {[value |-> value, version |-> row.version, used |-> row.used, revoked |-> row.revoked,
      expiry |-> expiry] : value \in {row.value, nextValue}, expiry \in {"zero", "future", "past"}}

\* A value that is not given stays; an expiry that is not given is none.
Updated(row) ==
    {[value |-> value, version |-> row.version, used |-> row.used, revoked |-> row.revoked,
      expiry |-> expiry] : value \in {row.value, nextValue}, expiry \in Expiry}

\* A wrong variant: a rotation is not a new version if the secret was revoked.
RotatedQuietly(row, read) ==
    [value |-> nextValue, version |-> IF row.revoked THEN row.version ELSE read.version + 1,
     used |-> row.used, revoked |-> FALSE, expiry |-> row.expiry]

\* The expiry is not changed.
Rotated(row, read) ==
    [value |-> nextValue, version |-> read.version + 1, used |-> row.used, revoked |-> FALSE,
     expiry |-> row.expiry]

Write(q) ==
    LET read == ask[q]
        n    == read.id IN
    /\ n # 0
    /\ \E row \in CASE read.op = "update" -> Updated(secrets[n])
                    [] read.op = "rotate" -> {Rotated(secrets[n], read)}
                    [] read.op = "revoke" -> {[secrets[n] EXCEPT !.revoked = TRUE]}
                    [] OTHER -> {[secrets[n] EXCEPT !.used = read.used + 1]} :
          /\ secrets' = [secrets EXCEPT ![n] = row]
          /\ nextValue' = IF row.value = nextValue THEN nextValue + 1 ELSE nextValue
          /\ dead' = IF row.revoked THEN dead \cup {row.value} ELSE dead
    /\ renewed' = IF read.op \in {"update", "rotate"} THEN renewed \cup {n} ELSE renewed
    /\ uses' = IF Counter(read.op) = {"used"} THEN [uses EXCEPT ![n] = @ + 1] ELSE uses
    /\ rotations' = IF read.op = "rotate" THEN [rotations EXCEPT ![n] = @ + 1] ELSE rotations
    /\ ask' = [ask EXCEPT ![q] = Done]
    /\ UNCHANGED <<todo, seen, doubled>>

-----------------------------------------------------------------------------
(* Time, the worker, and the end of the process *)

Expires(n) ==
    /\ secrets[n].expiry = "future"
    /\ secrets' = [secrets EXCEPT ![n].expiry = "past"]
    /\ UNCHANGED <<nextValue, ask, todo, seen, renewed, dead, uses, rotations, doubled>>

\* A wrong variant: only a secret that was never rotated is looked at.
DueOnce == {n \in 1..Len(secrets) : secrets[n].expiry = "past" /\ ~secrets[n].revoked
                                    /\ secrets[n].version = 1}

Due == {n \in 1..Len(secrets) : secrets[n].expiry = "past" /\ ~secrets[n].revoked}

\* rotateExpiredSecretsTick reads what is due ...
Tick ==
    /\ todo = {}
    /\ todo' = Due
    /\ seen' = {n \in 1..Len(secrets) : secrets[n].expiry = "past" /\ ~secrets[n].revoked}
    /\ renewed' = {}
    /\ UNCHANGED <<secrets, nextValue, ask, dead, uses, rotations, doubled>>

\* ... and revokes row after row, whatever became of the row since.
RevokeExpired ==
    \E n \in todo :
        /\ secrets' = [secrets EXCEPT ![n].revoked = TRUE]
        /\ dead' = dead \cup {secrets[n].value}
        /\ todo' = todo \ {n}
        /\ UNCHANGED <<nextValue, ask, seen, renewed, uses, rotations, doubled>>

VaultDies ==
    /\ ask' = [q \in Ask |-> IF ask[q].id = 0 THEN ask[q] ELSE Done]
    /\ todo' = {} /\ seen' = {}
    /\ UNCHANGED <<secrets, nextValue, renewed, dead, uses, rotations, doubled>>

VaultNext ==
    \/ \E q \in Ask :
        CreateSecret(q) \/ LoadToChange(q) \/ LoadToReveal(q) \/ Resolve(q) \/ Write(q)
    \/ \E n \in 1..Len(secrets) : Expires(n)
    \/ Tick \/ RevokeExpired \/ VaultDies

VaultSpec == VaultInit /\ [][VaultNext]_vaultVars

-----------------------------------------------------------------------------
(* Properties *)

\* A value that was in a revoked row, by a user or by the worker, is never again in a row that
\* can be revealed or injected, however revocations, updates, rotations and ticks interleave:
\* only a rotation lifts a revocation, and it brings a new value
\* (secrets_handlers.go:223-231, 255, 383).
RevokedForGood ==
    \A n \in 1..Len(secrets) : ~secrets[n].revoked => secrets[n].value \notin dead

\* The usage count and the key version never say more than was done, and exactly what was done
\* unless two requests had read the counter before either wrote it
\* (secrets_handlers.go:229, 287, 354).
CountsUnlessRaced ==
    \A n \in 1..Len(secrets) :
        /\ secrets[n].used <= uses[n]
        /\ secrets[n].version <= 1 + rotations[n]
        /\ <<n, "used">> \notin doubled => secrets[n].used = uses[n]
        /\ <<n, "version">> \notin doubled => secrets[n].version = 1 + rotations[n]

\* What was expired and not revoked when the worker looked is revoked when its tick has come
\* past it, unless a user renewed it since; a rotation does not take a secret from the worker,
\* which finds it again in the next tick (secrets_handlers.go:379-388).
ExpiredIsRevoked ==
    \A n \in seen \ (todo \cup renewed) : secrets[n].revoked

=============================================================================
