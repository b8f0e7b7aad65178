---------------------------- MODULE Certificates ----------------------------
(***************************************************************************)
(* The certificate of one domain of a server.  A request (or the renewal   *)
(* worker) has the agent issue a bundle, has the agent install it, and     *)
(* then writes the rows: a history row with the bundle that was there, the *)
(* certificate, and the binding of the domain.  The rows are those that    *)
(* were read before the agent was asked, minutes ago.  Nothing keeps two   *)
(* of them apart.  A bundle comes from certbot, which leaves the installed *)
(* files alone, or (dns) from acme.sh, which the agent lets install into   *)
(* the same files before it answers.                                       *)
(*                                                                         *)
(* Every certificate is for the domain itself in the first place, so that  *)
(* the agent installs all of them into one directory, whose name has       *)
(* dashes for the dots of the domain.  A request that exposes an           *)
(* application ends with the agent's writing a configuration of the proxy; *)
(* the directory it names has the dots.  Nothing is ever installed there,  *)
(* so that what the proxy serves is not a matter of these rows.            *)
(***************************************************************************)
EXTENDS Naturals, SequencesExt

CONSTANTS
    Job,         \* requests about the domain
    Worker,      \* the renewal worker
    MaxCerts,    \* bound on the rows of certificates
    MaxBundles,  \* bound on the bundles that are issued
    MaxBoth,     \* bound on the two together
    MaxBusy      \* bound on the requests, the worker one of them, at one time

ASSUME CertificatesAssumption ==
    MaxCerts \in Nat /\ MaxBundles \in Nat /\ MaxBoth \in Nat /\ MaxBusy \in Nat
    /\ Worker \notin Job

VARIABLES
    certs,       \* rows of certificates of the domain, in the order of their ids
    history,     \* rows of the history: the bundles each certificate had, in the order of their ids
    binding,     \* the row of the domain that a request has inserted
    issued,      \* bundles issued so far
    onHost,      \* the bundles of the certificate and of the key that are installed, and the one
                 \* certbot keeps in a place of its own
    task,        \* where a request is, and what it has read
    install,     \* the goroutine of the agent that installs or configures for a request: of
                 \* cert_install, of acme.sh, or of file_apply
    queue,       \* certificates, as they were at the tick, the worker is still to renew
    newest,      \* history: the certificate that was written last
    previous,    \* history: the bundle a certificate had before its newest renewal
    reverted,    \* history: certificates that were rolled back
    blemish      \* history: what may have set the rows and the host apart

certVars == <<certs, history, binding, issued, onHost, task, install, queue, newest, previous,
              reverted, blemish>>

-----------------------------------------------------------------------------
(* Values *)

Actor  == Job \cup {Worker}
CertId == 1..MaxCerts
Bundle == 1..MaxBundles

\* A request: the request that inserted its binding, the certificate it is about or 0, the
\* bundle and the failures it has read of it, and the bundle it brings.
NoBinding == [status |-> "none", cert |-> 0]
Unused    == [at |-> "idle", op |-> "none", of |-> Worker, force |-> FALSE, cert |-> 0,
              old |-> 0, failures |-> 0, bundle |-> 0]
NoInstall == [at |-> "none", bundle |-> 0]

Certificate == [bundle : Bundle, active : BOOLEAN, due : BOOLEAN, failures : Nat]
Binding     == [status : {"none", "pending", "active", "error"}, cert : 0..MaxCerts]
Copy        == [cert : CertId, old : Bundle, failures : Nat]
Task        == [at : {"idle", "checked", "issuing", "acme", "installing", "install failed",
                      "installed", "kept", "bind", "configuring", "exposed", "over"},
                op : {"none", "create", "issue", "expose", "rollback", "renew"}, of : Actor,
                force : BOOLEAN, cert : 0..MaxCerts, old : 0..MaxBundles,
                failures : Nat, bundle : 0..MaxBundles]
Install     == [at : {"none", "sent", "half", "acme", "acme half", "proxy"}, bundle : 0..MaxBundles]

CertificatesTypeOK ==
    /\ certs \in Seq(Certificate)
    /\ history \in [CertId -> Seq(Bundle)]
    /\ binding \in [Job -> Binding]
    /\ issued \in 0..MaxBundles
    /\ onHost \in [cert : 0..MaxBundles, key : 0..MaxBundles, certbot : 0..MaxBundles]
    /\ task \in [Actor -> Task]
    /\ install \in [Actor -> Install]
    /\ queue \in SUBSET Copy
    /\ newest \in 0..MaxCerts
    /\ previous \in [CertId -> 0..MaxBundles]
    /\ reverted \in SUBSET CertId
    /\ blemish \in SUBSET {"met", "cut"}

CertificatesInit ==
    /\ certs = <<>> /\ history = [n \in CertId |-> <<>>]
    /\ binding = [q \in Job |-> NoBinding]
    /\ issued = 0
    /\ onHost = [cert |-> 0, key |-> 0, certbot |-> 0]
    /\ task = [q \in Actor |-> Unused]
    /\ install = [q \in Actor |-> NoInstall]
    /\ queue = {}
    /\ newest = 0
    /\ previous = [n \in CertId |-> 0]
    /\ reverted = {}
    /\ blemish = {}

rowVars  == <<certs, history, binding>>
pastVars == <<newest, previous, reverted>>

-----------------------------------------------------------------------------
(* The beginning of a request *)

\* Who is at the domain; the worker is from its tick on, when it reads the rows.
Busy == {q \in Actor : task[q].at \notin {"idle", "over"} \/ install[q].at # "none"}
        \cup (IF queue # {} THEN {Worker} ELSE {})

\* q meets who is there.
Meets(q) == blemish' = IF Busy \ {q} # {} THEN blemish \cup {"met"} ELSE blemish

Starts(q, what) ==
    /\ task[q].at = "idle" /\ Cardinality(Busy \ {q}) < MaxBusy
    /\ task' = [task EXCEPT ![q] = what]
    /\ Meets(q)

\* handleCreateDomain: the domain is not there yet ...
CheckDomain(q) ==
    /\ \A b \in Job : binding[b] = NoBinding
    /\ Starts(q, [Unused EXCEPT !.at = "checked", !.op = "create", !.of = q, !.force = TRUE])
    /\ UNCHANGED <<rowVars, issued, onHost, install, queue, pastVars>>

\* ... and is inserted, and active at once if no certificate is asked for.
InsertBinding(q) ==
    /\ task[q].at = "checked" /\ task[q].op = "create"
    /\ \E tls \in BOOLEAN :
          /\ binding' = [binding EXCEPT
                ![q] = [status |-> IF tls THEN "pending" ELSE "active", cert |-> 0]]
          /\ task' = [task EXCEPT ![q].at = IF tls THEN "issuing" ELSE "over"]
    /\ UNCHANGED <<certs, history, issued, onHost, install, queue, pastVars, blemish>>

\* The agent is asked to configure the proxy for the domain.
Configuring(b) == [Unused EXCEPT !.at = "configuring", !.op = "expose", !.of = b]
AsksToConfigure(q) == install' = [install EXCEPT ![q] = [at |-> "proxy", bundle |-> 0]]
Configures(q) ==
    /\ task' = [task EXCEPT ![q] = Configuring(task[q].of)]
    /\ AsksToConfigure(q)

\* The certificate of a binding, as it is now.
Read(n) == IF n = 0 THEN Unused ELSE [Unused EXCEPT !.cert = n, !.old = certs[n].bundle]

\* handleIssueOrRenewDomainCertificate; a renewal is forced.
LoadBinding(q) ==
    /\ \E b \in Job, force \in BOOLEAN :
          /\ binding[b] # NoBinding
          /\ Starts(q, [Read(binding[b].cert) EXCEPT !.at = "issuing", !.op = "issue", !.of = b,
                                                     !.force = force])
    /\ UNCHANGED <<rowVars, issued, onHost, install, queue, pastVars>>

\* handleExposeApp takes the domain that is there, and the certificate it has, if a new one is
\* asked for ...
LoadToExpose(q) ==
    \E b \in Job :
        /\ binding[b] # NoBinding
        /\ \/ /\ Starts(q, [Read(binding[b].cert) EXCEPT !.at = "issuing", !.op = "expose",
                                                          !.of = b, !.force = TRUE])
              /\ UNCHANGED install
           \/ Starts(q, Configuring(b)) /\ AsksToConfigure(q)
        /\ UNCHANGED <<rowVars, issued, onHost, queue, pastVars>>

\* ... or finds none, and inserts one.
CheckToExpose(q) ==
    /\ \A b \in Job : binding[b] = NoBinding
    /\ Starts(q, [Unused EXCEPT !.at = "checked", !.op = "expose", !.of = q, !.force = TRUE])
    /\ UNCHANGED <<rowVars, issued, onHost, install, queue, pastVars>>

InsertToExpose(q) ==
    /\ task[q].at = "checked" /\ task[q].op = "expose"
    /\ binding' = [binding EXCEPT ![q] = [status |-> "pending", cert |-> 0]]
    /\ \/ task' = [task EXCEPT ![q].at = "issuing"] /\ UNCHANGED install
       \/ Configures(q)
    /\ UNCHANGED <<certs, history, issued, onHost, queue, pastVars, blemish>>

\* A bundle is sent to be installed.
Installs(q, bundle) ==
    install' = [install EXCEPT ![q] = [at |-> "sent", bundle |-> bundle]]

\* handleRollbackDomainCertificate takes the newest bundle of the history.
LoadHistory(q) ==
    \E b \in Job :
        LET n == binding[b].cert
            bundle == Last(history[n]) IN
        /\ n # 0 /\ history[n] # <<>>
        /\ Starts(q, [Unused EXCEPT !.at = "installing", !.op = "rollback", !.cert = n,
                                    !.bundle = bundle])
        /\ Installs(q, bundle)
        /\ UNCHANGED <<rowVars, issued, onHost, queue, pastVars>>

\* A wrong variant: the worker also takes what it has failed to renew.
DueAnyway(row) == row.due

\* What the worker renews: an error is never taken again, whatever its next_renew_at says.
DueNow(row) == row.active /\ row.due

\* runTLSRenewalTick reads the rows ...
RenewalTick ==
    /\ task[Worker].at = "idle" /\ queue = {}
    /\ queue' = {[cert |-> n, old |-> certs[n].bundle, failures |-> certs[n].failures] :
                    n \in {m \in 1..Len(certs) : DueNow(certs[m])}}
    /\ queue' # {}
    /\ Meets(Worker)
    /\ UNCHANGED <<rowVars, issued, onHost, task, install, pastVars>>

\* ... and renews one after the other from the copies, in the order of the database.
RenewNext ==
    /\ \E copy \in queue :
          /\ Starts(Worker, [Unused EXCEPT !.at = "issuing", !.op = "renew", !.force = TRUE,
                                !.cert = copy.cert, !.old = copy.old, !.failures = copy.failures])
          /\ queue' = queue \ {copy}
    /\ UNCHANGED <<rowVars, issued, onHost, install, pastVars>>

\* One whose credentials cannot be read is left as it is.
SkipNext ==
    /\ task[Worker].at = "idle"
    /\ \E copy \in queue : queue' = queue \ {copy}
    /\ UNCHANGED <<rowVars, issued, onHost, task, install, pastVars, blemish>>

-----------------------------------------------------------------------------
(* The agent *)

Issuable(bundle) == bundle \in Bundle /\ bundle + Len(certs) <= MaxBoth

\* certbot issues a bundle; if it is not forced to, that may be the one it has. One it keeps from
\* a request that gave up is a new one to the next.
Certbot(force) ==
    {bundle \in {issued + 1} \cup (IF force THEN {} ELSE {onHost.certbot}) : Issuable(bundle)}

Issue(q) ==
    /\ task[q].at = "issuing"
    /\ \E bundle \in Certbot(task[q].force) :
          /\ issued' = IF bundle > issued THEN bundle ELSE issued
          /\ onHost' = [onHost EXCEPT !.certbot = bundle]
          /\ task' = [task EXCEPT ![q].at = "installing", ![q].bundle = bundle,
                                  ![q].force = FALSE]
          /\ Installs(q, bundle)
    /\ UNCHANGED <<rowVars, queue, pastVars, blemish>>

\* acme.sh issues one, a new one or none at all, ...
AcmeIssue(q) ==
    /\ task[q].at = "issuing" /\ Issuable(issued + 1)
    /\ issued' = issued + 1
    /\ task' = [task EXCEPT ![q].at = "acme", ![q].bundle = issued + 1, ![q].force = FALSE]
    /\ install' = [install EXCEPT ![q] = [at |-> "acme", bundle |-> issued + 1]]
    /\ UNCHANGED <<rowVars, onHost, queue, pastVars, blemish>>

\* ... and installs it, the key before the certificate, into the directory that is in use.
AcmeInstallKey(q) ==
    /\ install[q].at = "acme"
    /\ onHost' = [onHost EXCEPT !.key = install[q].bundle]
    /\ install' = [install EXCEPT ![q].at = "acme half"]
    /\ UNCHANGED <<rowVars, issued, task, queue, pastVars, blemish>>

\* The agent answers with the files, and the request, if it still waits, sends them back to be
\* installed.
AcmeInstallCertificate(q) ==
    /\ install[q].at = "acme half"
    /\ onHost' = [onHost EXCEPT !.cert = install[q].bundle]
    /\ IF task[q].at = "acme"
       THEN task' = [task EXCEPT ![q].at = "installing"] /\ Installs(q, install[q].bundle)
       ELSE install' = [install EXCEPT ![q] = NoInstall] /\ UNCHANGED task
    /\ UNCHANGED <<rowVars, issued, queue, pastVars, blemish>>

\* The certificate is written, and then its key; the chain is a matter of the certificate.
InstallCertificate(q) ==
    /\ install[q].at = "sent"
    /\ onHost' = [onHost EXCEPT !.cert = install[q].bundle]
    /\ install' = [install EXCEPT ![q].at = "half"]
    /\ UNCHANGED <<rowVars, issued, task, queue, pastVars, blemish>>

InstallKey(q) ==
    /\ install[q].at = "half"
    /\ onHost' = [onHost EXCEPT !.key = install[q].bundle]
    /\ install' = [install EXCEPT ![q] = NoInstall]
    /\ task' = IF task[q].at = "installing" THEN [task EXCEPT ![q].at = "installed"] ELSE task
    /\ UNCHANGED <<rowVars, issued, queue, pastVars, blemish>>

\* A file cannot be written, the connection ends, or the time is up (thirty seconds; 140 for
\* acme.sh); the agent may go on.
InstallFails(q) ==
    /\ task[q].at \in {"acme", "installing"}
    /\ task' = [task EXCEPT ![q].at = "install failed"]
    /\ \/ install' = [install EXCEPT ![q] = NoInstall]
       \/ UNCHANGED install
    /\ blemish' = blemish \cup {"cut"}
    /\ UNCHANGED <<rowVars, issued, onHost, queue, pastVars>>

-----------------------------------------------------------------------------
(* The end of a request: the rows *)

\* The worker is ready for the next; a request is over.
Ends(q) ==
    task' = [task EXCEPT ![q] = IF q = Worker THEN Unused ELSE [Unused EXCEPT !.at = "over"]]

\* storeTLSCertificate, for a binding that had no certificate.
StoreCertificate(q) ==
    /\ task[q].at = "installed" /\ task[q].op \in {"create", "issue", "expose"} /\ task[q].cert = 0
    /\ Len(certs) < MaxCerts /\ issued + Len(certs) < MaxBoth
    /\ certs' = Append(certs, [bundle |-> task[q].bundle, active |-> TRUE, due |-> FALSE,
                               failures |-> 0])
    /\ task' = [task EXCEPT ![q].at = "bind", ![q].cert = Len(certs) + 1]
    /\ newest' = Len(certs) + 1
    /\ UNCHANGED <<history, binding, issued, onHost, install, queue, previous, reverted, blemish>>

\* A wrong variant: the history gets the bundle that is new.
KeepNewBundle(q) ==
    /\ task[q].at = "installed" /\ task[q].op \in {"issue", "expose", "renew"} /\ task[q].cert # 0
    /\ history' = [history EXCEPT ![task[q].cert] = Append(@, task[q].bundle)]
    /\ task' = [task EXCEPT ![q].at = "kept", ![q].old = 0]
    /\ UNCHANGED <<certs, binding, issued, onHost, install, queue, pastVars, blemish>>

\* The bundle that was read goes to the history ...
KeepOldBundle(q) ==
    /\ task[q].at = "installed" /\ task[q].op \in {"issue", "expose", "renew"} /\ task[q].cert # 0
    /\ history' = [history EXCEPT ![task[q].cert] = Append(@, task[q].old)]
    /\ task' = [task EXCEPT ![q].at = "kept", ![q].old = 0]
    /\ UNCHANGED <<certs, binding, issued, onHost, install, queue, pastVars, blemish>>

\* A wrong variant: the row gets the new dates, and keeps its bundle.
UpdateDates(q) ==
    LET n == task[q].cert IN
    /\ task[q].at = "kept"
    /\ certs' = [certs EXCEPT ![n].active = TRUE, ![n].due = FALSE, ![n].failures = 0]
    /\ previous' = [previous EXCEPT ![n] = certs[n].bundle]
    /\ newest' = n
    /\ IF q = Worker THEN Ends(q) ELSE task' = [task EXCEPT ![q].at = "bind"]
    /\ UNCHANGED <<history, binding, issued, onHost, install, queue, reverted, blemish>>

\* ... and the new one to the row.
UpdateCertificate(q) ==
    LET n == task[q].cert IN
    /\ task[q].at = "kept"
    /\ certs' = [certs EXCEPT ![n] = [bundle |-> task[q].bundle, active |-> TRUE, due |-> FALSE,
                                      failures |-> 0]]
    /\ previous' = [previous EXCEPT ![n] = certs[n].bundle]
    /\ newest' = n
    /\ IF q = Worker THEN Ends(q) ELSE task' = [task EXCEPT ![q].at = "bind"]
    /\ UNCHANGED <<history, binding, issued, onHost, install, queue, reverted, blemish>>

\* A rollback says active again, and leaves the failures and the time of the next renewal.
RevertCertificate(q) ==
    LET n == task[q].cert IN
    /\ task[q].at = "installed" /\ task[q].op = "rollback"
    /\ certs' = [certs EXCEPT ![n].bundle = task[q].bundle, ![n].active = TRUE]
    /\ reverted' = reverted \cup {n}
    /\ newest' = n
    /\ Ends(q)
    /\ UNCHANGED <<history, binding, issued, onHost, install, queue, previous, blemish>>

\* The binding is changed if it is still there.
BindingIs(b, what) ==
    binding' = IF binding[b] = NoBinding THEN binding ELSE [binding EXCEPT ![b] = what]

Bind(q) ==
    /\ task[q].at = "bind"
    /\ BindingIs(task[q].of, [status |-> "active", cert |-> task[q].cert])
    /\ IF task[q].op = "expose" THEN Configures(q)
                                ELSE Ends(q) /\ UNCHANGED install
    /\ UNCHANGED <<certs, history, issued, onHost, queue, pastVars, blemish>>

\* A file_apply of the agent, whose steps, the tests of nginx among them, are those of Files.
WriteProxy(q) ==
    /\ install[q].at = "proxy"
    /\ install' = [install EXCEPT ![q] = NoInstall]
    /\ task' = IF task[q].at = "configuring" THEN [task EXCEPT ![q].at = "exposed"] ELSE task
    /\ UNCHANGED <<rowVars, issued, onHost, queue, pastVars, blemish>>

\* The agent refuses, or does not answer in time and may go on.
ProxyFails(q) ==
    /\ task[q].at = "configuring"
    /\ Ends(q)
    /\ \/ install' = [install EXCEPT ![q] = NoInstall]
       \/ UNCHANGED install
    /\ UNCHANGED <<rowVars, issued, onHost, queue, pastVars, blemish>>

Exposed(q) ==
    /\ task[q].at = "exposed"
    /\ BindingIs(task[q].of, [binding[task[q].of] EXCEPT !.status = "active"])
    /\ Ends(q)
    /\ UNCHANGED <<certs, history, issued, onHost, install, queue, pastVars, blemish>>

\* Issuing or installing has failed: the binding says so, or the certificate if it is the
\* worker's; a rollback only answers.
JobFails(q) ==
    /\ task[q].at \in {"issuing", "install failed"}
    /\ IF task[q].op \in {"create", "issue", "expose"}
       THEN BindingIs(task[q].of, [binding[task[q].of] EXCEPT !.status = "error"])
       ELSE UNCHANGED binding
    /\ certs' = IF q = Worker
                THEN [certs EXCEPT ![task[q].cert].active = FALSE, ![task[q].cert].due = FALSE,
                                   ![task[q].cert].failures = task[q].failures + 1]
                ELSE certs
    /\ Ends(q)
    /\ UNCHANGED <<history, issued, onHost, install, queue, pastVars, blemish>>

\* The certificate of a domain that is deleted stays, and is renewed on.
DeleteDomain(b) ==
    /\ binding[b] # NoBinding
    /\ binding' = [binding EXCEPT ![b] = NoBinding]
    /\ UNCHANGED <<certs, history, issued, onHost, task, install, queue, pastVars, blemish>>

\* The time of its next renewal comes; it comes for an error too.
BecomesDue(n) ==
    /\ ~certs[n].due
    /\ certs' = [certs EXCEPT ![n].due = TRUE]
    /\ UNCHANGED <<history, binding, issued, onHost, task, install, queue, pastVars, blemish>>

CertificatesDie ==
    /\ \E q \in Actor : task[q].at \notin {"idle", "over"}
    /\ task' = [q \in Actor |-> CASE task[q].at = "idle" -> task[q]
                                 [] q = Worker -> Unused
                                 [] OTHER -> [Unused EXCEPT !.at = "over"]]
    /\ queue' = {}
    /\ blemish' = blemish \cup {"cut"}
    /\ UNCHANGED <<rowVars, issued, onHost, install, pastVars>>

InstallsDie ==
    /\ \E q \in Actor : install[q].at # "none"
    /\ install' = [q \in Actor |-> NoInstall]
    /\ blemish' = IF \E q \in Actor : install[q].at \in {"sent", "half", "acme", "acme half"}
                  THEN blemish \cup {"cut"} ELSE blemish
    /\ UNCHANGED <<rowVars, issued, onHost, task, queue, pastVars>>

CertificatesNext ==
    \/ \E q \in Job : CheckDomain(q) \/ InsertBinding(q) \/ LoadBinding(q) \/ LoadHistory(q)
                      \/ LoadToExpose(q) \/ CheckToExpose(q) \/ InsertToExpose(q) \/ DeleteDomain(q)
    \/ RenewalTick \/ RenewNext \/ SkipNext
    \/ \E q \in Actor :
        \/ Issue(q) \/ AcmeIssue(q) \/ AcmeInstallKey(q) \/ AcmeInstallCertificate(q)
        \/ InstallCertificate(q) \/ InstallKey(q) \/ InstallFails(q)
        \/ StoreCertificate(q) \/ KeepOldBundle(q) \/ UpdateCertificate(q)
        \/ RevertCertificate(q) \/ Bind(q) \/ JobFails(q)
        \/ WriteProxy(q) \/ ProxyFails(q) \/ Exposed(q)
    \/ \E n \in 1..Len(certs) : BecomesDue(n)
    \/ CertificatesDie \/ InstallsDie

CertificatesSpec == CertificatesInit /\ [][CertificatesNext]_certVars

-----------------------------------------------------------------------------
(* Properties *)

\* When nobody is at the domain, the host has the certificate and the key of one bundle, and
\* it is that of the row that was written last, whatever issued, failed to issue, was renewed,
\* rolled back or deleted. Excused are two at once, a process that ended in the middle, an install
\* that did not succeed, and an issue over dns that did not once acme.sh had a new bundle: the
\* host may have that one, and the row the old one (domains_handlers.go:918-1018,
\* certs.go:112-121, 152-157).
HostHasTheRow ==
    Busy = {} /\ blemish = {} /\ newest # 0 =>
        onHost.cert = certs[newest].bundle /\ onHost.key = certs[newest].bundle

\* The newest bundle of the history, which a rollback installs, is the one the certificate had
\* before its newest renewal, unless two were at the domain at once or a process ended between
\* the two statements (domains_handlers.go:492, 981-992).
HistoryHasPrevious ==
    blemish = {} =>
        \A n \in 1..Len(certs) :
            previous[n] # 0 /\ (\A q \in Actor : task[q].at # "kept" \/ task[q].cert # n) =>
                history[n] # <<>> /\ Last(history[n]) = previous[n]

\* The worker fails at a certificate once, and then leaves it to the user: the longer waits of
\* the backoff are reached only through a rollback, which makes an error active and does not
\* forget the failures (tls_workers.go:29, 60-66, domains_handlers.go:522-531).
OneFailure ==
    \A n \in 1..Len(certs) : certs[n].failures > 1 => n \in reverted

=============================================================================
