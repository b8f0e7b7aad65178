# NovexPanel: a verification project

NovexPanel is a panel for servers. A **backend** (Go, `src/backend`) keeps users, servers,
deploys, runbooks, secrets and certificates in a database, answers the HTTP API of the
**frontend** (`src/frontend`), and holds one WebSocket to every **agent**
(`src/backend/cmd/agent`), the program that runs on each managed server and carries out what
the backend asks: commands, deploys in docker containers, terminals, runbooks, files and
firewall rules. The frontend also holds a WebSocket per browser, over which metrics, logs and
terminals are streamed.

The project models the parts where goroutines, processes and messages meet, checks them with
TLC on small instances, and proves the properties that matter most with TLAPS for every value
of the constants. The repository has no tests of these parts.

## 1. The system

### Components, their state and their operations

| Component | Source | State | Operations | What makes it correct |
|---|---|---|---|---|
| Agent hub | `internal/app/hub.go`, `ws_handlers.go`, `auth_handlers.go` | map of agents by server, pending requests and result channel of each connection, `online` column | handshake, `RegisterAgent`, `UnregisterAgent`, `KickServer`, `RequestAgent`, `completeRequest`, `failPending` | requests go to a live connection; one honest outcome per request; no goroutine blocks; `online` tells the truth |
| Terminals | `hub.go`, `ws_handlers.go`, agent `main.go` | map of sessions in the hub and in each site, shells of each agent | `OpenTerminal`, `CloseTerminal`, `RemoveSite`, `openTerminal`, `closeTerminal`, `closeAllTerminals` | the maps agree; input finds its shell; a shell does not outlive its browser |
| Site hub | `hub.go`, `ws_handlers.go` | sites, subscribers of metrics, deploys and runbooks | subscribe, unsubscribe, broadcast, `RemoveSite` | subscriptions and their mirror agree; a site that is gone leaves nothing |
| Deploys | `deploy_handlers.go`, `server_handlers.go`, `ws_handlers.go`, agent `main.go` | row of the deploy, its log, the run and the container on the agent | create, legacy create, redeploy, stop, delete, `deploy_log`, `deploy_result`, `deploy_complete` | the row says what docker has; a run is reported; deleted means gone |
| Runbooks | `runbook_handlers.go`, agent `main.go` | runbook, versions, executions, steps | create, version, go back, delete, execute, rollback, three messages of the agent | a row says what happened; what is pending is owed; version numbers are unique, and the latest is stored |
| Files | `file_ops_handlers.go`, agent `main.go` | locks with expiry, versions, the file and its temporary files | lock, unlock, read, apply, rollback | the service finds a whole file; a failed apply leaves no trace; no change is lost unseen |
| Secrets | `secrets_handlers.go` | secrets, expiry, audit | create, update, rotate, revoke, reveal, inject, minute worker | a revoked value is never given out again; the worker misses nothing; counters count |
| Firewall | `network_handlers.go`, `firewall_utils.go`, agent `firewall.go` | rules of the rows and rules of the host, snapshots | create, update, delete, quick, expose, rollback | row and host agree after each request; a rollback undoes one change |
| Certificates and domains | `domains_handlers.go`, `tls_workers.go`, agent `certs.go` | binding, certificate, history of bundles, next renewal; the installed files and what certbot keeps | create, expose, delete, issue, install, renew, roll back, backoff | the host has the bundle of the row; a rollback finds the bundle before |
| Authentication, tokens | `auth_handlers.go` | users, sessions, agent tokens | register, login, refresh, create and revoke tokens | a revoked token has no connection |
| Rate limiter, middleware | `security_middleware.go` | counter and end of window by key | `Allow`, `RetryAfter`, cleanup | at most the limit in a window |
| The rest | settings, GitHub, services, AI guard, auto-heal, storage, frontend | rows | one statement each | |

### How they interact

An HTTP handler is a goroutine. It reads and writes rows, and reaches an agent only through
`Hub.RequestAgent`, which writes a command to the agent's connection and waits on a channel
until the connection's read loop delivers the answer, or a timer fires. The read loop of a
connection also applies what the agent says unasked: metrics, deploy logs and results,
runbook steps and results, terminal output. So a row of a deploy is written by handlers and by
the read loops of every connection the agent ever had, with no lock between them but the
database's statements.

### What is hard

* Connections of one agent overlap: the old handler cleans up after the new one registered.
* A timer fires while the answer is being delivered; a command whose answer was given up
  is carried out all the same.
* Handlers read a row, wait for an agent for seconds, and write what follows from what they read.
* Runs of a deploy are goroutines of the agent that know nothing of each other and share a
  container name; results are sent once, over whatever connection there is.
* Either process may end at any time. Nothing is resumed.

The hazards are listed with their lines in `PROJECT.json`.

## 2. The modules

### AgentCall, AgentHub, AgentHubProofs, MCAgentHub

`AgentCall` is what a caller of `RequestAgent` may rely on. A call is begun and returns one outcome, and its
command is started at most once. An answer of the agent ("ok", "refused") is given only for a command that was started; "offline" and
"sendError" are said only of a command that is never started; "timeout", "dropped" and a crash say nothing: the command
may have been started, and, since it may still be in the socket when the timer fires, it may also be started **after**
the call returned. A caller that took an error for "it did not happen" would be wrong, and the contract says exactly when.

`AgentHub` is the code. A connection `c` has a handler (`pc[c]`) that goes through the
handshake (load, create or update the row), `RegisterAgent` in three steps as in the code (the
map under `Hub.mu`, then `failPending` and `Close` of the old client, outside of the lock),
the read loop, and the deferred cleanup (`UnregisterAgent`, `SetOffline`). `pending[c]` is the
map under `pendingMu`; `chan[r]` is the channel of capacity one. A thread that has taken
entries out of a map holds them in `batch` until it sends. A caller `r` goes through `PickAgent`, `Enroll`,
`SendCommand`, `Receive`, `Expire`, `ForgetExpired`. `SendCommand` is the write of `hub.go:217` and no more: the command is then in
`sent`, and the agent reads and starts it in a step of its own (`AgentStarts`), at any time, also when nobody waits. Tokens are revoked, connections break, the
backend restarts.

| Run | Question | Instance |
|---|---|---|
| `hub_safety` | are routing, the column and the channels consistent | one server, three connections, one call |
| `hub_call` | does the hub implement `AgentCall`, does every call return and every handler finish | two connections, one call, one restart, fairness |
| `hub_offline` | is an offline server out of reach (it is not) | three connections |

Three connections are enough for an old handler, its successor and the successor's
successor to be in every phase at once; one call meets every one of them.

### Deploys, DeploysProofs, MCDeploys

The row of each deploy (`row`: status, the runs whose lines the log holds, the run whose address is
shown), each handler (`pc`), the runs on the agent (`runner`), cleanups (`job`), containers,
and the messages of each connection (`wire`) with the message its read loop has in hand
(`reader`). Every step writes the database once or runs one docker command, so handlers, runs, cleanups and
read loops interleave between them. `RequestAgent` is used through its contract: it
returns the answer, or an error at any time. An update of a row that is gone does nothing (`Updates`);
a read loop reads the row and writes it in two steps (`ReadLog` and `ApplyLog`, `ReadResult` and
`ApplyResult`).

`trouble` is a history variable, written and read by nothing but properties: the deploys
hit by a completion that was lost, a command given up while the agent had it, a crash, two operations
at once, or messages of one deploy under way on two connections. `HonestAtRest` and
`RunReported` speak of the others, and of every deploy until trouble strikes. `HonestAtRest` leaves out, too, a deploy whose
container name contains another's or is contained in one (it is not `Alone`): a stop of the other takes its container and leaves its row
at "running". That is `deploy_lookalike` again. Losing a log line or a `deploy_result` is
no trouble: `deploy_complete` makes up for it, and the properties hold.

| Run | Question | Instance |
|---|---|---|
| `deploy_safety` | is the row honest, do deleted deploys stay deleted | create, redeploy and delete of one deploy in any interleaving, one connection |
| `deploy_live` | is every run reported | create and stop, a log line each, two connections, one crash, fairness |
| `deploy_delete` | is a deleted deploy gone from the host (it is not) | create and delete |
| `deploy_lookalike` | does a stop spare other deploys (it does not) | two deploys whose container names share a beginning |

Two runs of one deploy are what it takes for runs to race for the container name; a third one meets
no state the second does not.

`MaxLogs`, `MaxLinks` and `MaxCrashes` bound the lines of a run, the connections
and the crashes; the constants of `AgentHub` that bound are `Conn` (connections ever opened) and `MaxCrashes`.

### Terminals, TerminalsProofs, MCTerminals

A page asks for a terminal; the hub draws a session, asks the agent to start a shell, and on its answer
puts the session into two maps: `terminals`, by session, and `active[i][v]`, by site and server. Each critical section of
`Hub.mu` is one action, and the `terminal_close` sent after the unlock is another (`SendClose`), so that a
connection may change in between. `site[i]` is where the goroutine of the page is: it reads nothing while it
waits for an agent. On the agent, `terminal_close` is carried out by the read loop (`ReadClose`) and
`run_terminal` by a goroutine that outlives its connection (`StartShell`, `ListShell`, `AnswerOpened`): the
shell runs before it is listed, and is listed before it is answered. The end of a connection takes two steps,
`AgentReadFails` (`closeAllTerminals`) and `AgentDisconnects` (`conn.Close`), because the deferred function of
`connectAndRun` runs them in that order and a goroutine may come between them. `hub[v]` says whether the hub's
client is that of the agent's newest connection: a new one may be up before the hub has registered it.

`NoOrphan` and `ClosedShellEnds` make two exceptions, each needed: requests that *failed* after the agent
had read them (the hub never tells the agent), and the shells in the history variable `missed`, which were listed between
`closeAllTerminals` and the end of the connection. Without the second TLC finds a shell that was answered over
the dying connection, is owned by a page, and survives the close of that page. No document says what should
happen in either case, so neither is a finding; both are among the hazards.

| Run | Question | Instance |
|---|---|---|
| `terminals` | do the maps agree, does a closed terminal leave a shell | one page, one agent, two sessions, three connections, one restart of the backend, fairness |

Two sessions are an old terminal and the one that takes its place; with three connections each may have been asked for over a connection
before the last, and the last may still end. `Session` is the number of calls of `OpenTerminal`, `MaxLinks` bounds the
connections of an agent, `MaxCrashes` the restarts. Sites share nothing but the hub's map, which the proofs cover for any
number of them.

### SiteHub, RunbookVersions, Runbooks, MCRunbooks, RunbookVersionsProofs, RunbooksProofs

`RunbookVersions` has what handlers do to the versions of one runbook from its creation on, one statement per action: insert the
runbook, which says at once that version 1 is its latest, and then version 1, whose error is ignored; load the
runbook, insert a version under the number that follows, set `latest_version`, go back to an older version,
delete. A creation that is cut short, or overtaken by an edit, leaves a latest version without a row, and so does going back to a version
when the insert of the new row fails. `owed` is history: these numbers, and they are the only ones `LatestIsStored` lets be missing.

`SiteHub` has the pages' goroutines and the hub's two books of subscriptions: a map of the hub by topic
(`subs`) and a set in each `SiteClient` (`mirror`), through which alone `RemoveSite` finds what to leave. The three
kinds of topic (servers, deploys, executions) run the same code over three maps and are one family here.

`Runbooks` extends both. A dry run is two statements, a pending row and its update to success, with a crash or a deletion
possible between. An execution `x` is a row (`status[x]`), a request (`call[x]`), a goroutine of the agent
(`run[x]`) and its messages. The handler of a connection takes a message through its statements one by one
(`Begin`, `WriteLastRun`, `CopySubscribers`, `SendToPage`), beside the request that waits for the acknowledgement and
writes the same row (`Refused`, `Accepted`). The agent starts the run before it acknowledges, and sends every message over
the connection it has at that moment. A step may hang (`run[x] = "hung"`): what cuts it off after sixty seconds kills bash only, and the
agent waits for whatever bash has started and still holds its output (`main.go:1416-1425`). `lost`, `early` and `crossed` are history: results that did not arrive, results that were
faster than their request, and runs that sent over two connections.

| Run | Question | Instance |
|---|---|---|
| `runbooks` | do rows and `last_run_status` say what happened, is what stays pending explained | two executions of any kind, one connection, the creation and the deletion |
| `runbook_page` | do the books of subscriptions agree, does a line follow the result, does an accepted run get its result | one execution, one page, one line, two connections, one crash, fairness |
| `runbook_result` | does a stored result stay (it does not) | one execution |

Two executions are one that ends and one that is rolled back, or two that race for `last_run_status`. A second
page would share nothing with the first but the copy of the subscribers, which a page may leave at any time already.

### Firewall, FirewallProofs

A request (`fw[c]`) takes a snapshot, writes the row, and sends a command (`cmd[c]`) that the agent carries
out with one call of ufw at a time (an update deletes a rule and adds another, a rollback resets and adds); then it compensates,
audits and returns. `op = "create"` stands for creating, quick rules and the rule of an exposed application. `RowsOf` and `host` are what
the panel shows and what the host has; `active` says whether ufw is enabled.

* A **key** is a rule as ufw sees it. The panel compares addresses as they are written, and `normalizeFirewallLocation` leaves
  10.0.0.5/8 and 10.0.0.0/8, or an address and the same with /32, as they are. The keys that can be written in more ways than one are
  `Manifold`: the panel does not refuse a second row of such a key, and the rule goes with the first of the two that is deleted.
* A **snapshot** asks the agent for two listings of ufw, whose exit codes nobody looks at. Where one of them fails the answer is a
  successful "not enabled" or "no rules" (`SnapshotHost` chooses), and a rollback to it clears the host. A snapshot keeps what the host had at that
  moment (`was`, history) beside what was listed, and so does `past`: `RollbackUndoes` compares the host with the rules it *had*, and
  `RollbackBlame` names what a failed listing, or one of a ufw that is not enabled, has lost.
* A snapshot parses the output of ufw and loses rules it cannot read: `Legible` are the others.
* A rollback ends with `ufw enable`, whose error is ignored: it succeeds with ufw enabled or not (`HostApplies`).
* A column with a default (`enabled`) is written as gorm writes it (`GormCreate`).

`blame` is history: the keys for which the code gives no promise, each with its reason in the comment of `PanelMatchesHost`. Two requests
at once are there as soon as they are about one rule or one row (`Collide`), and so is a key as soon as two rows have had it.

### Certificates, CertificatesProofs

One domain. `Actor` is a request of a user or the worker; `task` is how far it got, `install` what the agent does for it. A bundle comes from
certbot, which keeps it in a place of its own, or, for dns challenges, from acme.sh, which the agent lets install the key and then the
certificate **into the directory in use** before it answers (`AcmeIssue`, `AcmeInstallKey`, `AcmeInstallCertificate`). The request then has the
agent install what it was sent, the certificate and then the key, into the same files; so over dns they are written twice, in opposite orders, and
an issue that fails or is given up may have changed the host already. `onHost` has the installed certificate and key and the
bundle of certbot; without `force` certbot may answer with the bundle it has. The backend stores the certificate,
keeps the old bundle in the history, updates the row and the binding. The worker takes the certificates that are due in no order (`queue` is a set: the
query has no ORDER BY). `blemish` is history (two at the domain at once, an install or an issue that did not come through, the end of a process), as are
`newest`, `previous` and `reverted`.

The agent installs into a directory with dashes for the dots of the domain (`certs.go:195-203`), and the configuration of the proxy names one
with the dots (`domains_handlers.go:813, 825-826`). Nothing is ever installed where the proxy looks, so there is no promise about the two to check.
Exposing an application is followed to the end of its request, and what the proxy serves is left out.

### Panel, with Firewall, Certificates, RunbookVersions, Vault and Files; MCPanel, PanelProofs

Five components keep rows and something else in step, and share no variable with each other. `Panel` puts them under one
specification: `part` says which one moves, the others rest. Steps of two components commute, so
interleaving them would multiply states and add none of interest.

* **Vault.** Each request reads a row and writes it later (`Load`, `Write`); the worker selects what has expired and
  revokes it row by row. Values stand for the encrypted columns, drawn anew by creating, updating and rotating. `dead`, `uses`, `rotations`,
  `doubled`, `seen` and `renewed` are history.
* **Files.** One file: its lock, its recorded versions, the requests of pages (`save`), and the goroutines of the agent
  (`job`), which read, compare the hash, validate, write a temporary file in two steps, rename, ask the service, and write the old content back.
  Opening a file empties it, so `disk` may hold `"empty"` and `"torn"`. `good` and `excuse` are history.

| Run | Question | Instance |
|---|---|---|
| `panel` | the properties below, for requests that overlap, fail at any step, time out and are cut short | three edits; two firewall rules, one legible, the other with two ways to write it, three changes, two at once; four requests and two secrets; three saves, two jobs at once; two requests and the worker, two at once, two certificates, three bundles, four of the two together |

| Part | Properties |
|---|---|
| versions | `VersionsSound` |
| firewall | `PanelMatchesHost`, `RollbackUndoes` |
| vault | `RevokedForGood`, `CountsUnlessRaced`, `ExpiredIsRevoked` |
| files | `WholeFile`, `FileIsLastGood`, `NoLostUpdate` |
| certificates | `HostHasTheRow`, `HistoryHasPrevious`, `OneFailure` |

Two at once is what a race takes; the third request meets what the race left, and for the vault
the fourth is the reader of what a rotation, a revocation and an update have made. `MaxAtOnce`, `MaxJobs`, `MaxBusy` bound how many
requests are under way at a time, `MaxSecrets`, `MaxCerts`, `MaxBundles` the rows; `MaxBoth` bounds bundles
and certificates together. Requests of one kind are interchangeable, hence the symmetry; no liveness is checked there. `blame`, `excuse` and
`blemish` only grow, so `StillBound` bounds what is followed after them: nothing where they cover all that the properties promise; with one key
to blame, one request at a time that is about that key alone; with one blemish, three bundles and certificates together, which are what the
exception of `OneFailure` takes (a certificate, a bundle, the next one that a rollback takes back). The theorems have none of these bounds.

Two things a reader might not expect are the code's. A version of a file is recorded also for
a content the agent found invalid. The lock of a file is looked at by apply alone, not by rollback, and not again by
the agent.

### Fairness

Weak fairness of goroutines that can run: handlers, read loops, runs, cleanups, callers and
their timers. An agent whose connection is dead finds out (its read deadline passes); one whose connection carries
need not. Go schedules them and timers fire. Nothing is assumed of how long a step of a runbook takes: it may hang for ever, and `RunEnds`
promises a result only of a run that does not (`SendResult` is fair while the run is "running"; that a step hangs is a
choice of the model). In `deploy_live` a build is assumed to end: the commands of a deploy have timeouts, and one that hangs
beyond its own is not modelled. Nothing is assumed of the network, of the agent's answers, of users, or of crashes. Liveness is checked with TLC only: in `hub_call`, `deploy_live`, `terminals`
and `runbook_page`, none of which uses symmetry.

## 3. What the checks found

1. `hub_offline`: the cleanup of an old connection writes `online=false` after the new
   connection wrote `true`; the server stays offline in the panel although its agent is connected (`ws_handlers.go:131`).
2. `deploy_delete`: deleting a deploy that is being built deletes the row, and the build then starts the
   container (`cmd/agent/main.go:1909`).
3. `deploy_lookalike`: docker's name filter matches substrings, so stopping deploy 1 removes the
   container of deploy 10 (`cmd/agent/main.go:2413`).
4. `runbook_result`: a request whose acknowledgement came too late writes "failed" over the result that
   the run has reported by then (`runbook_handlers.go:461`).

The exceptions in `trouble`, `missed`, `early`, `blame`, `doubled`, `excuse` and `blemish` are disagreements too, of
which no document says what should happen. The ones a maintainer would want to know of: with messages on two
connections at once a deploy stays "building" after its result (`ws_handlers.go:238`); a result that is faster than its request leaves the
runbook "pending" (`runbook_handlers.go:471`); a rollback that never reached the agent stays pending (`runbook_handlers.go:510`); a
failed renewal plans a backoff that the worker never comes to, because it selects active certificates only (`tls_workers.go:29`,
stated as `OneFailure`); an exposed application whose rule the host refused has a row all the same (`domains_handlers.go:787`).

Of the same kind are steps whose failure the code takes for something else. Each is in the model, and an exception of the property named:

* A listing of ufw that fails is an empty one, and a rollback to it clears the host (`firewall.go:210, 245`; `RollbackUndoes`, through `RollbackBlame`).
  A rollback that could not enable ufw again is a success (`firewall.go:570-574`; no property is about `active`).
* Two rows whose addresses are written in two ways are one rule, which goes with the first of them (`firewall_utils.go:125-140`; `PanelMatchesHost`).
* Over dns, an issue that fails after acme.sh had a bundle has changed the installed files, and the row keeps the old bundle
  (`certs.go:112-121`; `HostHasTheRow`).
* A creation of a runbook that is cut short leaves a runbook whose latest version does not exist, and which therefore cannot be run until it is
  edited; going back to a version may do the same (`runbook_handlers.go:92, 333`; `LatestIsStored`, through `owed`).
* A step of a runbook that leaves a process behind has no result and no end (`main.go:1416-1425`; `RunEnds`).

The proxy of a domain is told to read its certificate from a directory into which nothing is installed (`domains_handlers.go:813, 825-826`
against `certs.go:195-203`). No order of steps matters to that, so no property is about it.

The proofs found what the instances had not. Each of these was a step at which an invariant did not hold:

* `HonestAtRest` was stated for every deploy. Its proof stopped at a cleanup that removes the container of another deploy, and
  TLC, asked about two deploys with such names, shows the row that stays "running"; hence `Alone`.
* An update that read a row before its key was changed, and one that read it after, are about one row and share no key. Both sets of keys are
  to blame; the instance with two rules had let every such pair meet in a key as well. Hence `Collide`.
* `FirewallAssumption` did not say that `"none"`, which stands for no key in a request, is no rule.
* The history of a certificate is a sequence of its bundles, and the copies the worker holds are a set. As a
  filtered sequence of all bundles, and as a sequence, they said the same and more than the code does.

## 4. What is proved

All proofs hold for any sets and bounds, from the named assumptions of the modules
(`ServerOfAssumption` and the like: constants are functions of the right type, the bounds are naturals, a deploy has one creating
operation).

`AgentHubProofs`:

* `TypeCorrect`. The invariant is `TypeOK` with `LocalsSet`: the local variables a goroutine is about to
  dereference are set. Without it `FailPending` of an unset client would leave the type.
* `RegistrationCorrect`, with two corollaries. `RegisteredIsServed`, `NoForgottenAgent` and `OnlineHasHandler` follow from an invariant that
  ties the map to the phases of the handlers: a client is in the map only between its own
  registration and its own cleanup, and one that was replaced is held by its successor.
* `SendersNeverBlock`. `ChannelInv`: a call's entry is in at most one map or one batch, and then its channel is
  empty.
* `HubImplementsAgentCall`. Every step of the hub is a step of `AgentCall` or a stutter under the
  mapping of `AgentHub`; `HonestInv` says that an answer under way tells what the agent did, and of a command in the
  socket that its caller waits or was told that nothing is known: it is what keeps a command said not to be sent from being started.

`DeploysProofs`:

* `TypeCorrect`: `TypeOK` is inductive as it stands.
* `DeletedStaysDeleted`, an action property, from `RowInv`: a deploy whose creation has not begun is absent, one
  that any handler has touched is not. Without it the creation of a deploy could follow its deletion.
* `ShownRunCorrect`, from `OutcomeInv`: every message under way and in hand is honest about docker.
* `HonestAtRestCorrect`, from `HonestInv`, a conjunction of five. `StageInv`: how far the handler and the agent can be with one
  operation at once. `MessageInv`: what is under way about a run is true of it. `OneInv`: a deploy without
  trouble has one operation at work, in its handler, on the agent or in the mail. `OrderInv`: the handler of that operation
  waits while the agent has its command, and a run sends over one connection, the completion last; so whatever a log line writes over the row,
  the completion is still to come. `RestInv`: from its reset a deploy belongs to the run to come until the completion of that is applied
  (`Deploying`), from the removal of its container to the stop or delete until that is in the row (`Removed`), and is `Settled`
  whenever nothing holds it. `HonestAtRest` says the last of this of deploys at rest only, and nothing of the way there.

`TerminalsProofs`, from `IInv`, a conjunction of `TypeOK` and four parts:

* `MapInv` ties the two maps to the phase of a site's goroutine: while it waits for an agent no session of it is
  half closed, and it waits for one session at a time. `MapsCorrect` is a conjunct of it; without these parts a session
  could come back into one map.
* `CallInv` ties a call to its answer: a session is asked for once, is answered only when its shell has been
  listed or has died, and is owned only when it was answered "ok". `RoutingCorrect` follows.
* `NetInv`: a shell that was answered over the newest connection is alive only while that connection's
  read loop is up, or it was missed; and a connection that carries and was asked over is the one the hub has.
* `OrphanInv`: a shell that was owned and is not is still to be told. `OrphansCorrect` follows with the others: its hard case is
  the loss of a connection with the close in it, where `NetInv` says that the read loop is still up to find it dead.

`RunbookVersionsProofs` (of `VersionsSpec`):

* `VersionsCorrect`, from two invariants. `LatestInv`: the number an edit is about to set has a row or is `owed`, and so has every number
  below the one it has read; without it setting `latest_version` could point at nothing. `NumberInv`: while nothing has
  raced, every stored number is at most the one that is read next, also those that the creation is still to store.

`FirewallProofs` (of `FirewallSpec`), from `FwInv`, a conjunction of five:

* `FirewallTypeCorrect`, from `FwTypeInv`: the types, and what the stage of a request says of its other fields and its command.
* `RowsInv`: a key that is not to blame has one row; the row a request has read is in the table as it was read;
  and two requests that collide have their keys in `blame`. It is what makes requests independent of each other.
* `PanelMatchesHostAlways`, from `RulesInv`. `PanelMatchesHost` is about keys at which nobody is. `RulesInv` says of the others what the
  host has: what the request wants, if its command has come back; what it wants once the command is carried out, if that is on its way; and
  a command nobody waits for any more can only touch what is to blame. A key no request has begun to change matches its rows (`Matches`).
* `RollbackUndoesAlways`, an action property, from `PastInv` (the audit holds the rules the host had before the newest change that succeeded) and
  `SeenInv`, which says how far a snapshot can be trusted: where nobody else was while it was taken, its rows agree with the rules the host had,
  and what it listed is short of these only by what `RollbackBlame` names.

`CertificatesProofs` (of `CertificatesSpec`), each with `CertTypeInv`, which has that what names a certificate names one that is there:

* `OneFailureAlways`, from `FailuresInv`: also the copies and the request of the worker have no failure unless there was a rollback.
* `HostHasTheRowAlways` and `HistoryHasPreviousAlways`, from `HostInv`: without a blemish one actor is at the domain and the others are `Away`,
  and of that one `Alone` says at every stage, those of acme.sh among them, which file the host has, which bundle its row, and what is in the history. The two
  properties are about the rest between requests and are not inductive.

`PanelProofs`, of `VaultSpec` (each with `VaultTypeOK`):

* `RevokedCorrect`, from `RevokedInv` and `ValueInv`: every value in use is older than the next one to be drawn and no
  two rows share one, so the value a rotation brings cannot be a dead one.
* `CountsCorrect`, from `CountInv`: what a request has read of a counter was true once, and is true still if it is alone at
  the counter. That is what makes the exactness survive the write.
* `ExpiredCorrect`: what the worker has still to do is among what it saw; what left the list is revoked, or renewed.

of `FilesSpec` (each with `FilesTypeOK` and `ShapeInv`, which ties the stage of a job to its other fields):

* `WholeFileCorrect`, from `WholeInv`: while no two of a kind have met there is one job of each kind at work
  (`AloneInv`), so a temporary file holds what its one job has put there (`TmpInv`), and the file is broken only under a
  job that writes it back (`FileInv`). `WholeFile` alone is not inductive, for a rename makes of the temporary file the file.
* `LastGoodCorrect`, from `GoodInv`: while nobody met, a job at work has read the last good content, and
  the file is that content until it renames.
* `NoLostUpdateCorrect`, an action property, from the same invariant: what a job that has compared hashes will replace is
  what its page has read.

and of the panel, from the theorems about its five parts:

* `PanelIsItsParts`: a behaviour of `Panel` is one of each component, for a step of the panel is a step of one and leaves what the others
  keep alone. `PanelTypeCorrect` and `PanelKeepsPromises` follow: the properties the run `panel` checks hold in it for every value of the constants.

`RunbooksProofs`:

* `RunnableCorrect`. Every step of `Runbooks` is one of `RunbookVersions` or leaves the versions alone, so the theorem about
  the versions carries over to executions, crashes and reconnections.
* `SubscribersCorrect`: with the types of the pages `SubscribersAgree` is inductive (`SiteInv`).
* `TypeCorrect`, from `RestTypeOK`: the types, and that a connection in use has a number and that a handler about to write
  `last_run_status` holds a result.
* `StatusCorrect` and `PendingCorrect`, from `RunInv`, stated of each execution and its mail (`MailOf`: what is
  on any connection about it). Nothing exists of an execution before its request is dispatched; what is on its way says what the run came to;
  an acknowledged run has begun; and a result that is owed has been stored, is on its way, or is lost. `HonestStatus` alone
  is not inductive, for the row is written from the mail.
* `LastRunCorrect`, from `LastInv`. `OwedInv` is the part that carries it: while nobody deletes the runbook, a run whose request is not over, or whose
  request has set `last_run_status` to pending, is `Owed` a result that is in the mail, with a handler, or known to be lost or early. So pending
  is overwritten, or explained.
* `NothingAfterCorrect`, from `LinesInv`, about each execution: all its mail is on the connection of its command unless it is crossed (`Routed`);
  no line stands behind a result, in the connection or with its handler (`Ordered`); and where a page has the result no
  line is left (`ToldLast`).

So each safety property of the passing runs, invariant or action property, is a theorem as well, and so is the refinement of `AgentCall`. Model-checked only are the
liveness properties `EveryCallReturns`, `HandlerFinishes`, `RunReported`, `RunEnds` and `ClosedShellEnds`, which need fairness and ENABLED and are
out of the prover's reach, and the violations of section 3.

## 5. Not modelled

* Errors of the database: a statement of the models succeeds. Statements of different handlers interleave.
* Encryption, hashing, parsing and formatting, what a build does for each kind of project, and the clock: timers may
  fire and things may expire at any time.
* A host that has iptables and no ufw, where adding a rule twice makes two of it.
* What the proxy serves. Certificates whose first name is that of another domain, and two domains whose names differ in dots and dashes
  only (a.b-c.d and a-b.c.d), which share a directory. An update of a domain, which writes columns nothing else reads and does not
  configure the proxy again; DNS and the providers' credentials.
* Locks of files of other paths and servers, which are independent of each other (the key of a lock is the server and the path in lower case, `file_ops_handlers.go:57-59`; its user is in the value).
* Deleting a server beside its agent's handshake, which needs the rows of every component under that server. The limits of requests, the backend's own
  terminal, and the other components listed as `not_modelled` in `PROJECT.json`, each with its reason: single
  statements on one row, reads, or one critical section.

## 6. Left to do

Deleting a server: what its handshake, its deploys and its runbooks write after the rows are gone.

Each module keeps data abstract and its constants assumed as weakly as the code
justifies, uses no RECURSIVE operator, and has one action per critical section, statement or message.
