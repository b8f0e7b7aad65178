------------------------- MODULE CertificatesProofs -------------------------
(***************************************************************************)
(* Proofs about Certificates.                                              *)
(***************************************************************************)
EXTENDS Certificates, SequenceTheorems, TLAPS

-----------------------------------------------------------------------------
(* Types *)

\* What the fields of a request have to do with each other.
Shape(q, t) ==
    /\ t.at = "idle" => t = Unused
    /\ t.at = "over" => q # Worker
    /\ q = Worker /\ t.at # "idle" => t.op = "renew"
    /\ t.op = "renew" => q = Worker
    /\ t.op \in {"create", "issue", "expose"} => t.of \in Job
    /\ t.op \in {"rollback", "renew"} => t.cert # 0
    /\ t.op = "rollback" => t.at \in {"installing", "install failed", "installed"}
    /\ t.at \in {"kept", "bind"} => t.cert # 0
    /\ t.at \in {"acme", "installing", "install failed", "installed", "kept", "bind"} => t.bundle # 0
    /\ t.cert # 0 /\ t.op # "rollback"
          /\ t.at \in {"checked", "issuing", "acme", "installing", "install failed", "installed"} =>
                 t.old # 0

\* What names a certificate names one that is there.
RefsInv ==
    /\ Len(certs) <= MaxCerts
    /\ \A b \in Job : binding[b].cert <= Len(certs)
    /\ \A copy \in queue : copy.cert <= Len(certs)
    /\ newest <= Len(certs)
    /\ \A q \in Actor : Shape(q, task[q]) /\ task[q].cert <= Len(certs)

CertTypeInv == CertificatesTypeOK /\ RefsInv

\* The numbers of certificates and bundles.
LEMMA Numbers ==
    /\ 0..MaxCerts \subseteq Nat /\ CertId \subseteq 0..MaxCerts
    /\ 0..MaxBundles \subseteq Nat /\ Bundle \subseteq 0..MaxBundles
    /\ 0 \notin CertId /\ 0 \notin Bundle /\ 0 \in 0..MaxCerts /\ 0 \in 0..MaxBundles
    /\ 0..MaxCerts = CertId \cup {0} /\ 0..MaxBundles = Bundle \cup {0}
  BY CertificatesAssumption DEF CertId, Bundle

\* A step changes one request.
LEMMA OneTask ==
    ASSUME CertTypeInv, NEW q \in Actor, NEW t \in Task, Shape(q, t), t.cert <= Len(certs),
           task' = [task EXCEPT ![q] = t]
    PROVE  /\ task' \in [Actor -> Task]
           /\ \A p \in Actor : Shape(p, task'[p]) /\ task'[p].cert <= Len(certs)
  BY DEF CertTypeInv, CertificatesTypeOK, RefsInv

\* The values a request can have.
LEMMA Values ==
    /\ Unused \in Task /\ NoInstall \in Install /\ NoBinding \in Binding
    /\ \A q \in Job : q # Worker /\ q \in Actor
    /\ Worker \in Actor
    /\ \A q \in Actor : Shape(q, Unused)
    /\ Unused.at = "idle" /\ Unused.op = "none" /\ Unused.cert = 0 /\ Unused.bundle = 0
    /\ Unused.old = 0 /\ Unused.failures = 0 /\ NoInstall.at = "none" /\ NoBinding.cert = 0
  BY CertificatesAssumption
  DEF Unused, Task, NoInstall, Install, NoBinding, Binding, Actor, Shape

\* What a row of a certificate has.
LEMMA TableFacts ==
    ASSUME CertTypeInv, NEW n \in Nat, n # 0, n <= Len(certs)
    PROVE  /\ n \in CertId /\ n \in 1..Len(certs) /\ certs[n] \in Certificate
           /\ certs[n].bundle \in Bundle
<1>1. certs \in Seq(Certificate) /\ Len(certs) <= MaxCerts
  BY DEF CertTypeInv, CertificatesTypeOK, RefsInv
<1>2. Len(certs) \in Nat /\ n \in 1..Len(certs)
  BY <1>1, LenProperties
<1>3. certs[n] \in Certificate
  BY <1>1, <1>2, ElementOfSeq
<1> QED
  BY <1>1, <1>2, <1>3, CertificatesAssumption DEF CertId, Certificate

\* The certificate of a request and the bundle it has read.
LEMMA ReadType ==
    ASSUME CertTypeInv, NEW n \in 0..MaxCerts, n <= Len(certs)
    PROVE  /\ Read(n) \in Task /\ Read(n).cert = n
           /\ n # 0 => Read(n).old # 0
           /\ Read(n).failures = 0
<1>1. CASE n = 0
  BY <1>1, Values DEF Read, Unused
<1>2. CASE n # 0
  <2>1. Read(n) = [Unused EXCEPT !.cert = n, !.old = certs[n].bundle] /\ certs[n].bundle \in Bundle
    BY <1>2, TableFacts DEF Read, Bundle
  <2> QED
    <3> DEFINE old == certs[n].bundle
    <3>1. Read(n) = [at |-> "idle", op |-> "none", of |-> Worker, force |-> FALSE, cert |-> n,
                     old |-> old, failures |-> 0, bundle |-> 0]
      BY <2>1 DEF Unused
    <3>2. old \in Bundle
      BY <2>1
    <3> HIDE DEF old
    <3> QED
      BY <1>2, <3>1, <3>2, Numbers DEF Task, Actor
<1> QED
  BY <1>1, <1>2

\* The last element of a sequence.
LEMMA LastType == ASSUME NEW S, NEW s \in Seq(S), s # <<>> PROVE Last(s) \in S
<1>1. Len(s) \in Nat /\ Len(s) # 0
  BY EmptySeq, LenProperties
<1> QED
  BY <1>1, ElementOfSeq DEF Last

LEMMA LastAppend ==
    ASSUME NEW S, NEW s \in Seq(S), NEW e \in S
    PROVE  Append(s, e) \in Seq(S) /\ Append(s, e) # <<>> /\ Last(Append(s, e)) = e
  BY AppendProperties DEF Last

\* A request that has the proxy configured.
LEMMA ConfiguringType ==
    ASSUME NEW b \in Job, NEW q \in Job
    PROVE  /\ Configuring(b) \in Task /\ Shape(q, Configuring(b))
           /\ Configuring(b).cert = 0 /\ Configuring(b).at = "configuring"
           /\ Configuring(b).op = "expose" /\ Configuring(b).old = 0
<1>1. Configuring(b) \in Task
  BY Values DEF Configuring, Task
<1>2. /\ Configuring(b).at = "configuring" /\ Configuring(b).op = "expose"
      /\ Configuring(b).cert = 0 /\ Configuring(b).old = 0 /\ Configuring(b).of = b
  BY Values DEF Configuring, Task
<1> QED
  BY <1>1, <1>2, Values DEF Shape

LEMMA CertInitType == CertificatesInit => CertTypeInv
<1> SUFFICES ASSUME CertificatesInit PROVE CertTypeInv
  OBVIOUS
<1>1. certs = <<>> /\ Len(certs) = 0 /\ certs \in Seq(Certificate) /\ <<>> \in Seq(Bundle)
  BY DEF CertificatesInit
<1>2. CertificatesTypeOK
  BY <1>1, Values, CertificatesAssumption DEF CertificatesInit, CertificatesTypeOK
<1>3. RefsInv
  <2>1. \A q \in Actor : Shape(q, task[q]) /\ task[q].cert = 0
    BY Values DEF CertificatesInit, Unused
  <2>2. /\ \A b \in Job : binding[b].cert = 0
        /\ queue = {} /\ newest = 0
    BY DEF CertificatesInit, NoBinding
  <2> QED
    BY <1>1, <2>1, <2>2, CertificatesAssumption DEF RefsInv
<1> QED
  BY <1>2, <1>3 DEF CertTypeInv

\* A request that begins, and what it leaves alone.
LEMMA StartType ==
    ASSUME CertTypeInv, NEW q \in Actor, NEW t \in Task, Shape(q, t), t.cert <= Len(certs),
           Starts(q, t), UNCHANGED <<rowVars, issued, onHost, pastVars>>,
           install' \in [Actor -> Install],
           queue' \in SUBSET Copy, \A copy \in queue' : copy.cert <= Len(certs)
    PROVE  CertTypeInv'
<1>1. /\ task' \in [Actor -> Task]
      /\ \A p \in Actor : Shape(p, task'[p]) /\ task'[p].cert <= Len(certs)
  BY OneTask DEF Starts
<1>2. blemish' \in SUBSET {"met", "cut"}
  BY DEF Starts, Meets, CertTypeInv, CertificatesTypeOK
<1> QED
  BY <1>1, <1>2 DEF CertTypeInv, CertificatesTypeOK, RefsInv, rowVars, pastVars

\* A request that goes on: what it does to the rows, the host and the history is of the right type.
LEMMA StepType ==
    ASSUME CertTypeInv, NEW q \in Actor, NEW t \in Task, Shape(q, t), t.cert <= Len(certs'),
           task' = [task EXCEPT ![q] = t],
           certs' \in Seq(Certificate), Len(certs) <= Len(certs'), Len(certs') <= MaxCerts,
           history' \in [CertId -> Seq(Bundle)],
           binding' \in [Job -> Binding], \A b \in Job : binding'[b].cert <= Len(certs'),
           issued' \in 0..MaxBundles,
           onHost' \in [cert : 0..MaxBundles, key : 0..MaxBundles, certbot : 0..MaxBundles],
           install' \in [Actor -> Install], UNCHANGED queue,
           newest' \in 0..MaxCerts, newest' <= Len(certs'),
           previous' \in [CertId -> 0..MaxBundles], reverted' \in SUBSET CertId,
           blemish' \in SUBSET {"met", "cut"}
    PROVE  CertTypeInv'
<1>1. Len(certs) \in Nat /\ Len(certs') \in Nat
  BY LenProperties DEF CertTypeInv, CertificatesTypeOK
<1>2. /\ \A p \in Actor : task[p].cert \in Nat /\ task[p].cert <= Len(certs')
      /\ \A copy \in queue : copy.cert \in Nat /\ copy.cert <= Len(certs')
  <2>1. task \in [Actor -> Task] /\ queue \in SUBSET Copy
    BY DEF CertTypeInv, CertificatesTypeOK
  <2>2. /\ \A p \in Actor : task[p].cert \in Nat
        /\ \A copy \in queue : copy.cert \in Nat
    <3>1. \A p \in Actor : task[p].cert \in 0..MaxCerts
      BY <2>1 DEF Task
    <3>2. \A copy \in queue : copy.cert \in CertId
      BY <2>1 DEF Copy
    <3> QED
      BY <3>1, <3>2, Numbers
  <2> QED
    BY <1>1, <2>2 DEF CertTypeInv, RefsInv
<1>3. CertificatesTypeOK'
  BY DEF CertTypeInv, CertificatesTypeOK
<1>4. \A p \in Actor : Shape(p, task'[p]) /\ task'[p].cert <= Len(certs')
  BY <1>2 DEF CertTypeInv, CertificatesTypeOK, RefsInv
<1> QED
  BY <1>2, <1>3, <1>4 DEF CertTypeInv, RefsInv

\* The beginning of a request of each kind.
LEMMA BeginType ==
    ASSUME CertTypeInv, NEW q \in Job,
           \/ CheckDomain(q) \/ LoadBinding(q) \/ LoadHistory(q)
           \/ LoadToExpose(q) \/ CheckToExpose(q)
    PROVE  CertTypeInv'
<1>0. /\ q \in Actor /\ q # Worker
      /\ install \in [Actor -> Install] /\ queue \in SUBSET Copy
      /\ \A copy \in queue : copy.cert <= Len(certs)
      /\ Len(certs) \in Nat /\ Len(certs) <= MaxCerts
      /\ binding \in [Job -> Binding]
      /\ \A b \in Job : binding[b].cert \in 0..MaxCerts /\ binding[b].cert <= Len(certs)
  BY Values, LenProperties DEF CertTypeInv, CertificatesTypeOK, RefsInv, Binding
<1>1. CASE CheckDomain(q) \/ CheckToExpose(q)
  <2>1. PICK what \in {"create", "expose"} :
            Starts(q, [Unused EXCEPT !.at = "checked", !.op = what, !.of = q, !.force = TRUE])
    BY <1>1 DEF CheckDomain, CheckToExpose
  <2> DEFINE t == [Unused EXCEPT !.at = "checked", !.op = what, !.of = q, !.force = TRUE]
  <2>2. t \in Task /\ Shape(q, t) /\ t.cert <= Len(certs)
    <3>1. t \in Task
      BY Values DEF Task
    <3>2. t.at = "checked" /\ t.op \in {"create", "expose"} /\ t.cert = 0
      BY Values DEF Task
    <3> QED
      BY <1>0, <3>1, <3>2 DEF Shape
  <2> QED
    BY <1>0, <1>1, <2>1, <2>2, StartType DEF CheckDomain, CheckToExpose
<1>2. CASE LoadBinding(q)
  <2>1. PICK b \in Job, force \in BOOLEAN :
            Starts(q, [Read(binding[b].cert) EXCEPT !.at = "issuing", !.op = "issue", !.of = b,
                                                    !.force = force])
    BY <1>2 DEF LoadBinding
  <2> DEFINE r == Read(binding[b].cert)
             t == [r EXCEPT !.at = "issuing", !.op = "issue", !.of = b, !.force = force]
  <2>2. r \in Task /\ r.cert <= Len(certs) /\ (r.cert # 0 => r.old # 0)
    BY <1>0, ReadType
  <2>3. t \in Task /\ Shape(q, t) /\ t.cert <= Len(certs)
    <3> HIDE DEF r
    <3> QED
      BY <1>0, <2>2, Values, ZenonT(30) DEF Task, Shape, Actor
  <2> QED
    BY <1>0, <1>2, <2>1, <2>3, StartType DEF LoadBinding
<1>3. CASE LoadHistory(q)
  <2>1. PICK b \in Job :
            /\ binding[b].cert # 0 /\ history[binding[b].cert] # <<>>
            /\ Starts(q, [Unused EXCEPT !.at = "installing", !.op = "rollback",
                             !.cert = binding[b].cert, !.bundle = Last(history[binding[b].cert])])
            /\ Installs(q, Last(history[binding[b].cert]))
    BY <1>3 DEF LoadHistory
  <2> DEFINE n == binding[b].cert
             bundle == Last(history[n])
             t == [Unused EXCEPT !.at = "installing", !.op = "rollback", !.cert = n,
                                 !.bundle = bundle]
  <2>2. n \in CertId /\ n <= Len(certs)
    BY <1>0, <2>1, Numbers
  <2>3. bundle \in Bundle
    <3>1. history[n] \in Seq(Bundle) /\ history[n] # <<>>
      BY <2>1, <2>2 DEF CertTypeInv, CertificatesTypeOK, CertId
    <3> QED
      BY <3>1, LastType DEF Bundle
  <2>4. t \in Task /\ Shape(q, t) /\ t.cert <= Len(certs)
    <3> HIDE DEF n, bundle
    <3> QED
      <4>1. t \in Task
        BY <2>2, <2>3, Values, Numbers DEF Task
      <4>2. /\ t.at = "installing" /\ t.op = "rollback" /\ t.cert = n /\ t.bundle = bundle
        BY <2>2, <2>3, Values DEF Task
      <4> QED
        BY <1>0, <2>2, <2>3, <4>1, <4>2, Numbers DEF Shape
  <2>5. install' \in [Actor -> Install]
    BY <1>0, <2>1, <2>3, Numbers DEF Installs, Install
  <2> QED
    BY <1>0, <1>3, <2>1, <2>4, <2>5, StartType DEF LoadHistory
<1>4. CASE LoadToExpose(q)
  <2>1. PICK b \in Job :
            \/ /\ Starts(q, [Read(binding[b].cert) EXCEPT !.at = "issuing", !.op = "expose",
                                                          !.of = b, !.force = TRUE])
               /\ UNCHANGED install
            \/ Starts(q, Configuring(b)) /\ AsksToConfigure(q)
    BY <1>4 DEF LoadToExpose
  <2> DEFINE r == Read(binding[b].cert)
             t == [r EXCEPT !.at = "issuing", !.op = "expose", !.of = b, !.force = TRUE]
  <2>2. r \in Task /\ r.cert <= Len(certs) /\ (r.cert # 0 => r.old # 0)
    BY <1>0, ReadType
  <2>3. t \in Task /\ Shape(q, t) /\ t.cert <= Len(certs)
    <3> HIDE DEF r
    <3> QED
      BY <1>0, <2>2, Values, ZenonT(30) DEF Task, Shape, Actor
  <2>4. Configuring(b) \in Task /\ Shape(q, Configuring(b)) /\ Configuring(b).cert <= Len(certs)
    BY <1>0, ConfiguringType
  <2>5. AsksToConfigure(q) => install' \in [Actor -> Install]
    <3>1. [at |-> "proxy", bundle |-> 0] \in Install
      BY Numbers DEF Install
    <3> QED
      BY <1>0, <3>1 DEF AsksToConfigure
  <2> QED
    BY <1>0, <1>4, <2>1, <2>3, <2>4, <2>5, StartType DEF LoadToExpose
<1> QED
  BY <1>1, <1>2, <1>3, <1>4

\* What is known of a request.
LEMMA Current ==
    ASSUME CertTypeInv, NEW q \in Actor
    PROVE  /\ task[q] \in Task /\ Shape(q, task[q]) /\ task[q].cert <= Len(certs)
           /\ task[q].cert \in Nat /\ task[q].old \in 0..MaxBundles
           /\ task[q].bundle \in 0..MaxBundles /\ task[q].failures \in Nat /\ task[q].of \in Actor
           /\ install[q] \in Install /\ install[q].bundle \in 0..MaxBundles
           /\ task = [task EXCEPT ![q] = task[q]]
           /\ task[q].cert # 0 => task[q].cert \in 1..Len(certs) /\ task[q].cert \in CertId
<1>1. /\ task \in [Actor -> Task] /\ install \in [Actor -> Install]
      /\ Shape(q, task[q]) /\ task[q].cert <= Len(certs) /\ Len(certs) <= MaxCerts
      /\ Len(certs) \in Nat
  BY LenProperties DEF CertTypeInv, CertificatesTypeOK, RefsInv
<1>2. task[q] \in Task /\ install[q] \in Install /\ task = [task EXCEPT ![q] = task[q]]
  BY <1>1
<1>3. /\ task[q].cert \in 0..MaxCerts /\ task[q].old \in 0..MaxBundles
      /\ task[q].bundle \in 0..MaxBundles /\ task[q].failures \in Nat /\ task[q].of \in Actor
      /\ install[q].bundle \in 0..MaxBundles
  BY <1>2 DEF Task, Install
<1>4. task[q].cert \in Nat
  BY <1>3, Numbers
<1> QED
  BY <1>1, <1>2, <1>3, <1>4, CertificatesAssumption DEF CertId

\* A request that is over, or the worker's that is ready for the next.
TaskEnded(q) == IF q = Worker THEN Unused ELSE [Unused EXCEPT !.at = "over"]

LEMMA EndedType ==
    ASSUME NEW q \in Actor
    PROVE  /\ TaskEnded(q) \in Task /\ Shape(q, TaskEnded(q)) /\ TaskEnded(q).cert = 0
           /\ TaskEnded(q).at \in {"idle", "over"} /\ TaskEnded(q).failures = 0
           /\ Ends(q) <=> task' = [task EXCEPT ![q] = TaskEnded(q)]
<1>1. /\ [Unused EXCEPT !.at = "over"] \in Task /\ [Unused EXCEPT !.at = "over"].at = "over"
      /\ [Unused EXCEPT !.at = "over"].op = "none" /\ [Unused EXCEPT !.at = "over"].cert = 0
      /\ [Unused EXCEPT !.at = "over"].failures = 0
  BY Values DEF Task
<1> QED
  BY <1>1, Values DEF TaskEnded, Ends, Shape

LEMMA InsertType ==
    ASSUME CertTypeInv, NEW q \in Job, InsertBinding(q) \/ InsertToExpose(q)
    PROVE  CertTypeInv'
<1>0. q \in Actor /\ q # Worker
  BY Values
<1>1. /\ binding' \in [Job -> Binding]
      /\ \A b \in Job : binding'[b].cert <= Len(certs)
      /\ AsksToConfigure(q) => install' \in [Actor -> Install]
      /\ Len(certs) \in Nat
  <2>1. \A st \in {"pending", "active"} : [status |-> st, cert |-> 0] \in Binding
    BY Numbers DEF Binding
  <2>2. Len(certs) \in Nat
    BY LenProperties DEF CertTypeInv, CertificatesTypeOK
  <2>3. \E st \in {"pending", "active"} : binding' = [binding EXCEPT ![q] = [status |-> st, cert |-> 0]]
    BY DEF InsertBinding, InsertToExpose
  <2>4. [at |-> "proxy", bundle |-> 0] \in Install
    BY Numbers DEF Install
  <2>5. \A st \in {"pending", "active"} : [status |-> st, cert |-> 0].cert = 0
    OBVIOUS
  <2>6. /\ binding \in [Job -> Binding] /\ install \in [Actor -> Install]
        /\ \A b \in Job : binding[b].cert <= Len(certs)
    BY DEF CertTypeInv, CertificatesTypeOK, RefsInv
  <2>7. binding' \in [Job -> Binding]
    BY <2>1, <2>3, <2>6
  <2>8. ASSUME NEW b \in Job PROVE binding'[b].cert <= Len(certs)
    BY <2>2, <2>3, <2>5, <2>6
  <2>9. AsksToConfigure(q) => install' \in [Actor -> Install]
    BY <2>4, <2>6 DEF AsksToConfigure
  <2> QED
    BY <2>2, <2>7, <2>8, <2>9
<1>2. \A at \in {"issuing", "over"} :
          LET t == [task[q] EXCEPT !.at = at] IN
          task[q].at = "checked" => t \in Task /\ Shape(q, t) /\ t.cert <= Len(certs)
  <2> SUFFICES ASSUME NEW at \in {"issuing", "over"}, task[q].at = "checked"
               PROVE  LET t == [task[q] EXCEPT !.at = at] IN
                      t \in Task /\ Shape(q, t) /\ t.cert <= Len(certs)
    OBVIOUS
  <2> DEFINE t == [task[q] EXCEPT !.at = at]
  <2>1. task[q] \in Task /\ Shape(q, task[q]) /\ task[q].cert <= Len(certs)
    BY <1>0, Current
  <2>2. /\ t \in Task /\ t.at = at /\ t.op = task[q].op /\ t.cert = task[q].cert /\ t.of = task[q].of
        /\ t.bundle = task[q].bundle /\ t.old = task[q].old
    BY <2>1 DEF Task
  <2> QED
    BY <1>0, <2>1, <2>2 DEF Shape
<1>3. CASE InsertBinding(q)
  <2>1. PICK at \in {"issuing", "over"} : task' = [task EXCEPT ![q] = [task[q] EXCEPT !.at = at]]
    BY <1>3 DEF InsertBinding
  <2> QED
    BY <1>0, <1>1, <1>2, <1>3, <2>1, StepType
    DEF InsertBinding, CertTypeInv, CertificatesTypeOK, RefsInv, pastVars
<1>4. CASE InsertToExpose(q)
  <2>1. task[q].at = "checked" /\ task[q].of \in Job
    BY <1>0, <1>4, Current DEF InsertToExpose, Shape
  <2>2. PICK t \in {[task[q] EXCEPT !.at = "issuing"], Configuring(task[q].of)} :
            task' = [task EXCEPT ![q] = t]
    BY <1>4 DEF InsertToExpose, Configures
  <2>3. t \in Task /\ Shape(q, t) /\ t.cert <= Len(certs)
    <3>1. CASE t = [task[q] EXCEPT !.at = "issuing"]
      BY <1>2, <2>1, <3>1
    <3>2. CASE t = Configuring(task[q].of)
      <4>1. /\ Configuring(task[q].of) \in Task /\ Shape(q, Configuring(task[q].of))
            /\ Configuring(task[q].of).cert = 0
        BY <2>1, ConfiguringType
      <4> QED
        BY <1>1, <3>2, <4>1
    <3> QED
      BY <2>2, <3>1, <3>2
  <2>4. install' \in [Actor -> Install]
    BY <1>1, <1>4 DEF InsertToExpose, Configures, CertTypeInv, CertificatesTypeOK
  <2> QED
    BY <1>0, <1>1, <1>4, <2>2, <2>3, <2>4, StepType
    DEF InsertToExpose, CertTypeInv, CertificatesTypeOK, RefsInv, pastVars
<1> QED
  BY <1>3, <1>4

\* A request that is elsewhere.
LEMMA AtType ==
    ASSUME CertTypeInv, NEW q \in Actor
    PROVE  \A at \in {"installing", "install failed", "installed", "kept", "bind", "exposed"} :
              /\ [task[q] EXCEPT !.at = at] \in Task
              /\ [task[q] EXCEPT !.at = at].at = at
              /\ [task[q] EXCEPT !.at = at].op = task[q].op
              /\ [task[q] EXCEPT !.at = at].cert = task[q].cert
              /\ [task[q] EXCEPT !.at = at].of = task[q].of
              /\ [task[q] EXCEPT !.at = at].bundle = task[q].bundle
              /\ [task[q] EXCEPT !.at = at].old = task[q].old
              /\ [task[q] EXCEPT !.at = at].failures = task[q].failures
<1>1. task[q] \in Task
  BY Current
<1> QED
  BY <1>1 DEF Task

LEMMA IssueType ==
    ASSUME CertTypeInv, NEW q \in Actor, Issue(q) \/ AcmeIssue(q) PROVE CertTypeInv'
<1>1. PICK bundle \in Bundle, at \in {"installing", "acme"}, how \in {"sent", "acme"} :
          /\ issued' \in {issued, bundle} /\ onHost' \in {onHost, [onHost EXCEPT !.certbot = bundle]}
          /\ task' = [task EXCEPT ![q].at = at, ![q].bundle = bundle, ![q].force = FALSE]
          /\ install' = [install EXCEPT ![q] = [at |-> how, bundle |-> bundle]]
  <2>1. CASE Issue(q)
    <3>1. PICK bundle \in Certbot(task[q].force) :
              /\ issued' = IF bundle > issued THEN bundle ELSE issued
              /\ onHost' = [onHost EXCEPT !.certbot = bundle]
              /\ task' = [task EXCEPT ![q].at = "installing", ![q].bundle = bundle,
                                      ![q].force = FALSE]
              /\ Installs(q, bundle)
      BY <2>1 DEF Issue
    <3>2. bundle \in Bundle
      BY DEF Certbot, Issuable
    <3> QED
      BY <3>1, <3>2 DEF Installs
  <2>2. CASE AcmeIssue(q)
    <3>1. issued + 1 \in Bundle
      BY <2>2 DEF AcmeIssue, Issuable
    <3> QED
      BY <2>2, <3>1 DEF AcmeIssue
  <2> QED
    BY <2>1, <2>2
<1>2. bundle \in Bundle /\ bundle \in 0..MaxBundles
  BY Numbers
<1> DEFINE t == [task[q] EXCEPT !.at = at, !.bundle = bundle, !.force = FALSE]
<1>3. task' = [task EXCEPT ![q] = t]
  BY <1>1
<1>4. /\ t \in Task /\ t.at = at /\ t.op = task[q].op /\ t.cert = task[q].cert
      /\ t.of = task[q].of /\ t.bundle = bundle /\ t.old = task[q].old
  <2>1. task[q] \in Task
    BY Current
  <2> QED
    BY <1>2, <2>1 DEF Task
<1>5. Shape(q, t) /\ t.cert <= Len(certs)
  <2>1. task[q].at = "issuing"
    BY DEF Issue, AcmeIssue
  <2>2. task[q].op # "rollback"
    BY <2>1, Current DEF Shape
  <2> QED
    BY <1>2, <1>4, <2>1, <2>2, Current, Numbers DEF Shape
<1>6. install' \in [Actor -> Install]
  <2>1. [at |-> how, bundle |-> bundle] \in Install
    BY <1>2 DEF Install
  <2> QED
    BY <1>1, <2>1 DEF CertTypeInv, CertificatesTypeOK
<1>7. issued' \in 0..MaxBundles /\ Len(certs) \in Nat
  BY <1>1, <1>2, LenProperties DEF CertTypeInv, CertificatesTypeOK
<1>8. onHost' \in [cert : 0..MaxBundles, key : 0..MaxBundles, certbot : 0..MaxBundles]
  BY <1>1, <1>2 DEF CertTypeInv, CertificatesTypeOK
<1>9. UNCHANGED <<rowVars, queue, pastVars, blemish>>
  BY DEF Issue, AcmeIssue
<1> HIDE DEF t
<1> QED
  BY <1>3, <1>4, <1>5, <1>6, <1>7, <1>8, <1>9, StepType
  DEF CertTypeInv, CertificatesTypeOK, RefsInv, rowVars, pastVars

\* The agent's goroutines, and their ends.
LEMMA InstallsType ==
    ASSUME CertTypeInv, NEW q \in Actor,
           \/ AcmeInstallKey(q) \/ AcmeInstallCertificate(q)
           \/ InstallCertificate(q) \/ InstallKey(q) \/ InstallFails(q)
           \/ WriteProxy(q) \/ ProxyFails(q)
    PROVE  CertTypeInv'
<1> DEFINE Host == [cert : 0..MaxBundles, key : 0..MaxBundles, certbot : 0..MaxBundles]
<1>0. TaskEnded(q) \in Task /\ Shape(q, TaskEnded(q)) /\ TaskEnded(q).cert <= Len(certs)
  <2>1. Len(certs) \in Nat
    BY LenProperties DEF CertTypeInv, CertificatesTypeOK
  <2> QED
    BY <2>1, EndedType
<1>1. PICK t \in {task[q], TaskEnded(q)} \cup {[task[q] EXCEPT !.at = at] :
                     at \in {"installing", "install failed", "installed", "exposed"}} :
          /\ task' = [task EXCEPT ![q] = t]
          /\ t.at \in {"installing", "install failed", "installed"} =>
                 t = task[q] \/ task[q].at \in {"acme", "installing"}
          /\ t.at = "exposed" => t = task[q] \/ task[q].at = "configuring"
  <2>1. CASE InstallCertificate(q)
    BY <2>1, Current DEF InstallCertificate
  <2>2. CASE InstallKey(q)
    BY <2>2, Current, AtType, ZenonT(30) DEF InstallKey
  <2>3. CASE InstallFails(q)
    BY <2>3, Current, AtType DEF InstallFails
  <2>4. CASE WriteProxy(q)
    BY <2>4, Current, AtType DEF WriteProxy
  <2>5. CASE ProxyFails(q)
    BY <2>5, EndedType DEF ProxyFails
  <2>6. CASE AcmeInstallKey(q)
    BY <2>6, Current DEF AcmeInstallKey
  <2>7. CASE AcmeInstallCertificate(q)
    <3>1. CASE task[q].at = "acme"
      <4> DEFINE r == [task[q] EXCEPT !.at = "installing"]
      <4>1. r.at = "installing" /\ task' = [task EXCEPT ![q] = r]
        BY <2>7, <3>1, AtType DEF AcmeInstallCertificate
      <4>2. r \in {[task[q] EXCEPT !.at = at] : at \in {"installing", "install failed", "installed",
                                                       "exposed"}}
        OBVIOUS
      <4> HIDE DEF r
      <4> QED
        BY <3>1, <4>1, <4>2
    <3>2. CASE task[q].at # "acme"
      BY <2>7, <3>2, Current DEF AcmeInstallCertificate
    <3> QED
      BY <3>1, <3>2
  <2> QED
    BY <2>1, <2>2, <2>3, <2>4, <2>5, <2>6, <2>7
<1>2. t \in Task /\ Shape(q, t) /\ t.cert <= Len(certs)
  <2>1. CASE t \in {task[q], TaskEnded(q)}
    <3>1. task[q] \in Task /\ Shape(q, task[q]) /\ task[q].cert <= Len(certs)
      BY Current
    <3> QED
      BY <1>0, <2>1, <3>1
  <2>2. ASSUME NEW at \in {"installing", "install failed", "installed", "exposed"},
               t = [task[q] EXCEPT !.at = at], t # task[q]
        PROVE  t \in Task /\ Shape(q, t) /\ t.cert <= Len(certs)
    <3>1. /\ t \in Task /\ t.at = at /\ t.op = task[q].op /\ t.cert = task[q].cert
          /\ t.of = task[q].of /\ t.bundle = task[q].bundle /\ t.old = task[q].old
      <4>1. at \in {"installing", "install failed", "installed", "kept", "bind", "exposed"}
        BY <2>2
      <4> QED
        BY <2>2, <4>1, AtType, ZenonT(30)
    <3>2. Shape(q, task[q]) /\ task[q].cert <= Len(certs)
      BY Current
    <3> QED
      BY <1>1, <2>2, <3>1, <3>2 DEF Shape
  <2> QED
    BY <1>1, <2>1, <2>2
<1>3. install' \in [Actor -> Install]
  <2>1. /\ install \in [Actor -> Install] /\ NoInstall \in Install
        /\ [install[q] EXCEPT !.at = "half"] \in Install
        /\ [install[q] EXCEPT !.at = "acme half"] \in Install
        /\ [at |-> "sent", bundle |-> install[q].bundle] \in Install
    BY Values, Current DEF Install, CertTypeInv, CertificatesTypeOK
  <2>2. install' \in {install} \cup {[install EXCEPT ![q] = i] :
            i \in {NoInstall, [install[q] EXCEPT !.at = "half"], [install[q] EXCEPT !.at = "acme half"],
                   [at |-> "sent", bundle |-> install[q].bundle]}}
    BY DEF AcmeInstallKey, AcmeInstallCertificate, InstallCertificate, InstallKey, InstallFails,
           WriteProxy, ProxyFails, Installs
  <2> QED
    BY <2>1, <2>2
<1>4. onHost' \in Host
  <2>1. /\ onHost \in Host /\ install[q].bundle \in 0..MaxBundles
    BY Current DEF CertTypeInv, CertificatesTypeOK
  <2>2. onHost' \in {onHost, [onHost EXCEPT !.cert = install[q].bundle],
                     [onHost EXCEPT !.key = install[q].bundle]}
    BY DEF AcmeInstallKey, AcmeInstallCertificate, InstallCertificate, InstallKey, InstallFails, WriteProxy, ProxyFails
  <2> QED
    BY <2>1, <2>2
<1>5. blemish' \in SUBSET {"met", "cut"} /\ Len(certs) \in Nat
  BY LenProperties
  DEF AcmeInstallKey, AcmeInstallCertificate, InstallCertificate, InstallKey, InstallFails, WriteProxy,
      ProxyFails, CertTypeInv, CertificatesTypeOK
<1>6. UNCHANGED <<certs, history, binding, issued, queue, newest, previous, reverted>>
  BY DEF AcmeInstallKey, AcmeInstallCertificate, InstallCertificate, InstallKey, InstallFails,
         WriteProxy, ProxyFails, rowVars, pastVars
<1> QED
  BY <1>1, <1>2, <1>3, <1>4, <1>5, <1>6, StepType DEF CertTypeInv, CertificatesTypeOK, RefsInv

\* What a request writes about its certificate.
LEMMA WriteType ==
    ASSUME CertTypeInv, NEW q \in Actor,
           StoreCertificate(q) \/ KeepOldBundle(q) \/ UpdateCertificate(q) \/ RevertCertificate(q)
    PROVE  CertTypeInv'
<1>1. /\ task[q] \in Task /\ Shape(q, task[q]) /\ task[q].cert <= Len(certs)
      /\ task[q].bundle \in 0..MaxBundles /\ task[q].old \in 0..MaxBundles
      /\ certs \in Seq(Certificate) /\ Len(certs) \in Nat /\ Len(certs) <= MaxCerts
  BY Current, LenProperties DEF CertTypeInv, CertificatesTypeOK, RefsInv
<1>2. CASE StoreCertificate(q)
  <2> DEFINE row == [bundle |-> task[q].bundle, active |-> TRUE, due |-> FALSE, failures |-> 0]
             n == Len(certs) + 1
             t == [task[q] EXCEPT !.at = "bind", !.cert = n]
  <2>1. task[q].bundle \in Bundle
    BY <1>1, <1>2, Numbers DEF StoreCertificate, Shape
  <2>2. row \in Certificate
    BY <2>1 DEF Certificate
  <2>3. certs' \in Seq(Certificate) /\ Len(certs') = n
    <3> HIDE DEF row
    <3> QED
      BY <1>1, <1>2, <2>2, AppendProperties DEF StoreCertificate, row
  <2>4. n \in Nat /\ n # 0 /\ n <= MaxCerts /\ n \in 0..MaxCerts
    BY <1>1, <1>2, CertificatesAssumption DEF StoreCertificate
  <2>5. /\ t \in Task /\ t.at = "bind" /\ t.op = task[q].op /\ t.cert = n /\ t.of = task[q].of
        /\ t.bundle = task[q].bundle
    <3> HIDE DEF n
    <3> QED
      BY <1>1, <2>4 DEF Task
  <2>6. Shape(q, t)
    BY <1>1, <1>2, <2>1, <2>4, <2>5, Numbers DEF Shape, StoreCertificate
  <2>7. task' = [task EXCEPT ![q] = t] /\ newest' = n
    BY <1>2 DEF StoreCertificate
  <2>8. \A b \in Job : binding[b].cert <= n
    <3>1. \A b \in Job : binding[b].cert \in Nat /\ binding[b].cert <= Len(certs)
      BY Numbers DEF CertTypeInv, CertificatesTypeOK, RefsInv, Binding
    <3> QED
      BY <1>1, <3>1
  <2> HIDE DEF t, n, row
  <2>9. n <= n /\ Len(certs) <= n
    BY <1>1, <2>4 DEF n
  <2>10. UNCHANGED <<history, binding, issued, onHost, install, queue, previous, reverted, blemish>>
    BY <1>2 DEF StoreCertificate
  <2>11. Len(certs) <= Len(certs') /\ t.cert <= Len(certs') /\ newest' <= Len(certs')
         /\ Len(certs') <= MaxCerts /\ newest' \in 0..MaxCerts
    BY <2>3, <2>4, <2>5, <2>7, <2>9
  <2>12. \A b \in Job : binding'[b].cert <= Len(certs')
    BY <2>3, <2>8, <2>10
  <2> QED
    BY <2>3, <2>5, <2>6, <2>7, <2>10, <2>11, <2>12, StepType DEF CertTypeInv, CertificatesTypeOK
<1>3. CASE KeepOldBundle(q)
  <2> DEFINE t == [task[q] EXCEPT !.at = "kept", !.old = 0]
  <2>1. task[q].old \in Bundle /\ task[q].cert \in CertId
    BY <1>1, <1>3, Numbers, Current DEF KeepOldBundle, Shape
  <2>2. history' \in [CertId -> Seq(Bundle)]
    <3>1. history \in [CertId -> Seq(Bundle)]
      BY DEF CertTypeInv, CertificatesTypeOK
    <3>2. Append(history[task[q].cert], task[q].old) \in Seq(Bundle)
      BY <2>1, <3>1, AppendProperties
    <3> QED
      BY <1>3, <3>1, <3>2 DEF KeepOldBundle
  <2>3. /\ t \in Task /\ t.at = "kept" /\ t.op = task[q].op /\ t.cert = task[q].cert
        /\ t.of = task[q].of /\ t.bundle = task[q].bundle
    BY <1>1, Numbers DEF Task
  <2>4. Shape(q, t)
    BY <1>1, <1>3, <2>1, <2>3 DEF Shape, KeepOldBundle
  <2>5. task' = [task EXCEPT ![q] = t]
    BY <1>3 DEF KeepOldBundle
  <2> HIDE DEF t
  <2> QED
    <3>1. UNCHANGED <<certs, binding, issued, onHost, install, queue, newest, previous, reverted, blemish>>
      BY <1>3 DEF KeepOldBundle, pastVars
    <3>2. /\ binding \in [Job -> Binding] /\ \A b \in Job : binding[b].cert <= Len(certs)
          /\ issued \in 0..MaxBundles
          /\ onHost \in [cert : 0..MaxBundles, key : 0..MaxBundles, certbot : 0..MaxBundles]
          /\ install \in [Actor -> Install]
          /\ newest \in 0..MaxCerts /\ newest <= Len(certs)
          /\ previous \in [CertId -> 0..MaxBundles] /\ reverted \in SUBSET CertId
          /\ blemish \in SUBSET {"met", "cut"}
      BY DEF CertTypeInv, CertificatesTypeOK, RefsInv
    <3>3. Len(certs') = Len(certs) /\ Len(certs) <= Len(certs') /\ t.cert <= Len(certs')
      BY <1>1, <2>3, <3>1
    <3> QED
      BY <1>1, <2>2, <2>3, <2>4, <2>5, <3>1, <3>2, <3>3, StepType
<1>4. CASE UpdateCertificate(q)
  <2> DEFINE n == task[q].cert
             row == [bundle |-> task[q].bundle, active |-> TRUE, due |-> FALSE, failures |-> 0]
  <2>1. /\ task[q].bundle \in Bundle /\ n \in CertId /\ n \in 1..Len(certs) /\ n \in 0..MaxCerts
        /\ task[q].at = "kept"
    BY <1>1, <1>4, Numbers, Current DEF UpdateCertificate, Shape
  <2>2. row \in Certificate
    BY <2>1 DEF Certificate
  <2>3. certs' \in Seq(Certificate) /\ Len(certs') = Len(certs)
    <3>1. certs' = [certs EXCEPT ![n] = row]
      BY <1>4 DEF UpdateCertificate
    <3> HIDE DEF row, n
    <3> QED
      BY <1>1, <2>1, <2>2, <3>1, ExceptSeq
  <2>4. previous' \in [CertId -> 0..MaxBundles] /\ newest' \in 0..MaxCerts /\ newest' <= Len(certs)
    <3>1. certs[n].bundle \in 0..MaxBundles
      BY <1>1, <2>1, TableFacts, Numbers
    <3> QED
      BY <1>1, <1>4, <2>1, <3>1 DEF UpdateCertificate, CertTypeInv, CertificatesTypeOK
  <2>5. \E t \in {TaskEnded(q), [task[q] EXCEPT !.at = "bind"]} :
            /\ task' = [task EXCEPT ![q] = t] /\ t \in Task /\ Shape(q, t) /\ t.cert <= Len(certs)
    <3>1. TaskEnded(q).cert <= Len(certs) /\ TaskEnded(q) \in Task /\ Shape(q, TaskEnded(q))
      BY <1>1, EndedType
    <3>2. CASE q = Worker
      BY <1>4, <3>1, <3>2, EndedType DEF UpdateCertificate
    <3>3. CASE q # Worker
      <4> DEFINE t == [task[q] EXCEPT !.at = "bind"]
      <4>1. /\ t \in Task /\ t.at = "bind" /\ t.op = task[q].op /\ t.cert = task[q].cert
            /\ t.of = task[q].of /\ t.bundle = task[q].bundle /\ t.old = task[q].old
        BY AtType
      <4>2. task' = [task EXCEPT ![q] = t]
        BY <1>4, <3>3 DEF UpdateCertificate
      <4>3. Shape(q, t) /\ t.cert <= Len(certs)
        BY <1>1, <2>1, <3>3, <4>1, Numbers DEF Shape
      <4> HIDE DEF t
      <4> QED
        BY <4>1, <4>2, <4>3 DEF t
    <3> QED
      BY <3>2, <3>3
  <2> HIDE DEF row, n
  <2> QED
    BY <1>1, <1>4, <2>3, <2>4, <2>5, StepType, SMTT(30)
    DEF UpdateCertificate, CertTypeInv, CertificatesTypeOK, RefsInv
<1>5. CASE RevertCertificate(q)
  <2> DEFINE n == task[q].cert
             row == [certs[n] EXCEPT !.bundle = task[q].bundle, !.active = TRUE]
  <2>1. /\ task[q].bundle \in Bundle /\ n \in CertId /\ n \in 1..Len(certs) /\ n \in 0..MaxCerts
    BY <1>1, <1>5, Numbers, Current DEF RevertCertificate, Shape
  <2>2. row \in Certificate
    <3>1. certs[n] \in Certificate
      BY <1>1, <2>1, ElementOfSeq
    <3> QED
      BY <2>1, <3>1 DEF Certificate
  <2>3. certs' \in Seq(Certificate) /\ Len(certs') = Len(certs)
    <3>1. certs' = [certs EXCEPT ![n] = row]
      BY <1>5 DEF RevertCertificate
    <3> HIDE DEF row
    <3> QED
      BY <1>1, <2>1, <2>2, <3>1, ExceptSeq
  <2>4. newest' \in 0..MaxCerts /\ newest' <= Len(certs) /\ reverted' \in SUBSET CertId
    BY <1>1, <1>5, <2>1 DEF RevertCertificate, CertTypeInv, CertificatesTypeOK
  <2>5. /\ TaskEnded(q).cert <= Len(certs) /\ TaskEnded(q) \in Task /\ Shape(q, TaskEnded(q))
        /\ task' = [task EXCEPT ![q] = TaskEnded(q)]
    BY <1>1, <1>5, EndedType DEF RevertCertificate
  <2> HIDE DEF row, n
  <2> QED
    BY <1>1, <1>5, <2>3, <2>4, <2>5, StepType
    DEF RevertCertificate, CertTypeInv, CertificatesTypeOK, RefsInv
<1> QED
  BY <1>2, <1>3, <1>4, <1>5

\* A binding that is written, if it is there.
LEMMA BindingIsType ==
    ASSUME CertTypeInv, NEW b, NEW what, BindingIs(b, what),
           b \in Job => what \in Binding /\ what.cert <= Len(certs)
    PROVE  binding' \in [Job -> Binding] /\ \A c \in Job : binding'[c].cert <= Len(certs)
  BY DEF CertTypeInv, CertificatesTypeOK, RefsInv, BindingIs

\* What a request writes about the domain.
LEMMA BindType ==
    ASSUME CertTypeInv, NEW q \in Actor, Bind(q) \/ Exposed(q) \/ JobFails(q)
    PROVE  CertTypeInv'
<1>1. /\ task[q] \in Task /\ Shape(q, task[q]) /\ task[q].cert <= Len(certs)
      /\ task[q].of \in Actor /\ task[q].cert \in 0..MaxCerts
      /\ certs \in Seq(Certificate) /\ Len(certs) \in Nat /\ Len(certs) <= MaxCerts
  BY Current, LenProperties DEF CertTypeInv, CertificatesTypeOK, RefsInv, Task
<1>2. TaskEnded(q) \in Task /\ Shape(q, TaskEnded(q)) /\ TaskEnded(q).cert <= Len(certs)
  BY <1>1, EndedType
<1>3. /\ [status |-> "active", cert |-> task[q].cert] \in Binding
      /\ [status |-> "active", cert |-> task[q].cert].cert <= Len(certs)
  BY <1>1 DEF Binding
<1>4. \A b \in Job, st \in {"active", "error"} :
          LET row == [binding[b] EXCEPT !.status = st] IN
          row \in Binding /\ row.cert <= Len(certs)
  <2>1. \A b \in Job : binding[b] \in Binding /\ binding[b].cert <= Len(certs)
    BY DEF CertTypeInv, CertificatesTypeOK, RefsInv
  <2> QED
    BY <2>1 DEF Binding
<1>5. CASE Bind(q)
  <2>1. binding' \in [Job -> Binding] /\ \A c \in Job : binding'[c].cert <= Len(certs)
    BY <1>3, <1>5, BindingIsType DEF Bind
  <2>2. UNCHANGED <<certs, history, issued, onHost, queue, newest, previous, reverted, blemish>>
    BY <1>5 DEF Bind, pastVars
  <2>3. CASE task[q].op = "expose"
    <3> DEFINE t == Configuring(task[q].of)
    <3>1. task[q].of \in Job /\ q \in Job
      BY <1>1, <1>5, <2>3 DEF Bind, Shape, Actor
    <3>2. t \in Task /\ Shape(q, t) /\ t.cert <= Len(certs)
      BY <1>1, <3>1, ConfiguringType
    <3>3. task' = [task EXCEPT ![q] = t] /\ install' \in [Actor -> Install]
      <4>1. [at |-> "proxy", bundle |-> 0] \in Install
        BY Numbers DEF Install
      <4> QED
        BY <1>5, <2>3, <4>1 DEF Bind, Configures, AsksToConfigure, CertTypeInv, CertificatesTypeOK
    <3> HIDE DEF t
    <3> QED
      BY <1>1, <2>1, <2>2, <3>2, <3>3, StepType DEF CertTypeInv, CertificatesTypeOK, RefsInv
  <2>4. CASE task[q].op # "expose"
    <3>1. task' = [task EXCEPT ![q] = TaskEnded(q)] /\ install' \in [Actor -> Install]
      BY <1>5, <2>4, EndedType DEF Bind, CertTypeInv, CertificatesTypeOK
    <3> QED
      BY <1>1, <1>2, <2>1, <2>2, <3>1, StepType DEF CertTypeInv, CertificatesTypeOK, RefsInv
  <2> QED
    BY <2>3, <2>4
<1>6. CASE Exposed(q)
  <2>1. binding' \in [Job -> Binding] /\ \A c \in Job : binding'[c].cert <= Len(certs)
    BY <1>4, <1>6, BindingIsType DEF Exposed
  <2>2. task' = [task EXCEPT ![q] = TaskEnded(q)]
    BY <1>6, EndedType DEF Exposed
  <2>3. UNCHANGED <<certs, history, issued, onHost, install, queue, newest, previous, reverted, blemish>>
    BY <1>6 DEF Exposed, pastVars
  <2> QED
    BY <1>1, <1>2, <2>1, <2>2, <2>3, StepType DEF CertTypeInv, CertificatesTypeOK, RefsInv
<1>7. CASE JobFails(q)
  <2>1. binding' \in [Job -> Binding] /\ \A c \in Job : binding'[c].cert <= Len(certs)
    <3>1. CASE task[q].op \in {"create", "issue", "expose"}
      BY <1>4, <1>7, <3>1, BindingIsType DEF JobFails
    <3>2. CASE task[q].op \notin {"create", "issue", "expose"}
      BY <1>7, <3>2 DEF JobFails, CertTypeInv, CertificatesTypeOK, RefsInv
    <3> QED
      BY <3>1, <3>2
  <2>2. task' = [task EXCEPT ![q] = TaskEnded(q)]
    BY <1>7, EndedType DEF JobFails
  <2>3. UNCHANGED <<history, issued, onHost, install, queue, newest, previous, reverted, blemish>>
    BY <1>7 DEF JobFails, pastVars
  <2>4. certs' \in Seq(Certificate) /\ Len(certs') = Len(certs)
    <3>1. CASE q = Worker
      <4> DEFINE n == task[q].cert
                 row == [certs[n] EXCEPT !.active = FALSE, !.due = FALSE,
                                         !.failures = task[q].failures + 1]
      <4>1. n \in 1..Len(certs) /\ task[q].failures + 1 \in Nat
        <5>1. n # 0 /\ task[q].failures \in Nat
          BY <1>1, <1>7, <3>1 DEF Shape, JobFails, Task
        <5> QED
          BY <5>1, Current
      <4>2. row \in Certificate
        <5>1. certs[n] \in Certificate
          BY <1>1, <4>1, ElementOfSeq
        <5> QED
          BY <4>1, <5>1 DEF Certificate
      <4>3. certs' = [certs EXCEPT ![n] = row]
        BY <1>7, <3>1 DEF JobFails
      <4> HIDE DEF n, row
      <4> QED
        BY <1>1, <4>1, <4>2, <4>3, ExceptSeq
    <3>2. CASE q # Worker
      BY <1>1, <1>7, <3>2 DEF JobFails
    <3> QED
      BY <3>1, <3>2
  <2> QED
    BY <1>1, <1>2, <2>1, <2>2, <2>3, <2>4, StepType DEF CertTypeInv, CertificatesTypeOK, RefsInv
<1> QED
  BY <1>5, <1>6, <1>7

\* The worker's tick and its turns.
LEMMA WorkerType ==
    ASSUME CertTypeInv, RenewalTick \/ RenewNext \/ SkipNext
    PROVE  CertTypeInv'
<1>1. /\ Worker \in Actor /\ queue \in SUBSET Copy
      /\ \A copy \in queue : copy.cert <= Len(certs) /\ copy.cert \in CertId
                              /\ copy.old \in Bundle /\ copy.failures \in Nat
      /\ Len(certs) \in Nat /\ install \in [Actor -> Install]
  BY Values, LenProperties DEF CertTypeInv, CertificatesTypeOK, RefsInv, Copy
<1>2. CASE RenewalTick
  <2> DEFINE copy(n) == [cert |-> n, old |-> certs[n].bundle, failures |-> certs[n].failures]
  <2>1. \A n \in 1..Len(certs) : copy(n) \in Copy /\ copy(n).cert <= Len(certs)
    <3> SUFFICES ASSUME NEW n \in 1..Len(certs)
                 PROVE  copy(n) \in Copy /\ copy(n).cert <= Len(certs)
      OBVIOUS
    <3>1. n \in CertId /\ certs[n] \in Certificate
      BY <1>1, TableFacts
    <3> QED
      BY <1>1, <3>1 DEF Copy, Certificate
  <2>2. \A c \in queue' : c \in Copy /\ c.cert <= Len(certs)
    BY <1>2, <2>1 DEF RenewalTick
  <2>3. blemish' \in SUBSET {"met", "cut"}
    BY <1>2 DEF RenewalTick, Meets, CertTypeInv, CertificatesTypeOK
  <2> QED
    BY <1>2, <2>2, <2>3
    DEF RenewalTick, CertTypeInv, CertificatesTypeOK, RefsInv, rowVars, pastVars
<1>3. CASE RenewNext
  <2>1. PICK copy \in queue :
          /\ Starts(Worker, [Unused EXCEPT !.at = "issuing", !.op = "renew", !.force = TRUE,
                                !.cert = copy.cert, !.old = copy.old, !.failures = copy.failures])
          /\ queue' = queue \ {copy}
    BY <1>3 DEF RenewNext
  <2> DEFINE t == [Unused EXCEPT !.at = "issuing", !.op = "renew", !.force = TRUE,
                                 !.cert = copy.cert, !.old = copy.old, !.failures = copy.failures]
  <2>2. /\ t \in Task /\ t.at = "issuing" /\ t.op = "renew" /\ t.cert = copy.cert
        /\ t.old = copy.old
    BY <1>1, Values, Numbers DEF Task
  <2>3. Shape(Worker, t) /\ t.cert <= Len(certs)
    BY <1>1, <2>2, Numbers DEF Shape
  <2> HIDE DEF t
  <2>4. Starts(Worker, t)
    BY <2>1 DEF t
  <2> QED
    BY <1>1, <1>3, <2>1, <2>2, <2>3, <2>4, StartType DEF RenewNext
<1>4. CASE SkipNext
  BY <1>4 DEF SkipNext, CertTypeInv, CertificatesTypeOK, RefsInv, rowVars, pastVars
<1> QED
  BY <1>2, <1>3, <1>4

\* What the world does: a domain is deleted, time passes, a process ends.
LEMMA WorldType ==
    ASSUME CertTypeInv,
           \/ \E b \in Job : DeleteDomain(b)
           \/ \E n \in 1..Len(certs) : BecomesDue(n)
           \/ CertificatesDie \/ InstallsDie
    PROVE  CertTypeInv'
<1>1. certs \in Seq(Certificate) /\ Len(certs) \in Nat
  BY LenProperties DEF CertTypeInv, CertificatesTypeOK
<1>2. ASSUME NEW b \in Job, DeleteDomain(b) PROVE CertTypeInv'
  BY <1>1, <1>2, Values DEF DeleteDomain, CertTypeInv, CertificatesTypeOK, RefsInv, pastVars
<1>3. ASSUME NEW n \in 1..Len(certs), BecomesDue(n) PROVE CertTypeInv'
  <2> DEFINE row == [certs[n] EXCEPT !.due = TRUE]
  <2>1. row \in Certificate
    <3>1. certs[n] \in Certificate
      BY <1>1, ElementOfSeq
    <3> QED
      BY <3>1 DEF Certificate
  <2>2. certs' = [certs EXCEPT ![n] = row]
    BY <1>3 DEF BecomesDue
  <2> HIDE DEF row
  <2>3. certs' \in Seq(Certificate) /\ Len(certs') = Len(certs)
    BY <1>1, <2>1, <2>2, ExceptSeq
  <2> QED
    BY <1>3, <2>3 DEF BecomesDue, CertTypeInv, CertificatesTypeOK, RefsInv, pastVars
<1>4. CASE CertificatesDie
  <2> DEFINE t(q) == CASE task[q].at = "idle" -> task[q]
                       [] q = Worker -> Unused
                       [] OTHER -> [Unused EXCEPT !.at = "over"]
  <2>1. ASSUME NEW q \in Actor PROVE t(q) \in Task /\ Shape(q, t(q)) /\ t(q).cert <= Len(certs)
    <3>1. task[q] \in Task /\ Shape(q, task[q]) /\ task[q].cert <= Len(certs)
      BY Current
    <3>2. TaskEnded(q) \in Task /\ Shape(q, TaskEnded(q)) /\ TaskEnded(q).cert <= Len(certs)
      BY <1>1, EndedType
    <3>3. t(q) = IF task[q].at = "idle" THEN task[q] ELSE TaskEnded(q)
      BY <3>1 DEF TaskEnded, Shape
    <3> HIDE DEF t
    <3> QED
      BY <3>1, <3>2, <3>3
  <2>2. task' = [q \in Actor |-> t(q)]
    BY <1>4 DEF CertificatesDie
  <2> HIDE DEF t
  <2>3. /\ task' \in [Actor -> Task]
        /\ \A q \in Actor : Shape(q, task'[q]) /\ task'[q].cert <= Len(certs)
    BY <2>1, <2>2
  <2> QED
    BY <1>4, <2>3 DEF CertificatesDie, CertTypeInv, CertificatesTypeOK, RefsInv, rowVars, pastVars
<1>5. CASE InstallsDie
  <2>1. install' \in [Actor -> Install]
    BY <1>5, Values DEF InstallsDie
  <2>2. blemish' \in SUBSET {"met", "cut"}
    BY <1>5 DEF InstallsDie, CertTypeInv, CertificatesTypeOK
  <2> QED
    BY <1>5, <2>1, <2>2 DEF InstallsDie, CertTypeInv, CertificatesTypeOK, RefsInv, rowVars, pastVars
<1> QED
  BY <1>2, <1>3, <1>4, <1>5

LEMMA CertStepType == CertTypeInv /\ [CertificatesNext]_certVars => CertTypeInv'
<1>1. CASE UNCHANGED certVars
  BY <1>1 DEF certVars, CertTypeInv, CertificatesTypeOK, RefsInv
<1>2. ASSUME CertTypeInv, CertificatesNext PROVE CertTypeInv'
  BY <1>2, BeginType, InsertType, IssueType, InstallsType, WriteType, BindType, WorkerType, WorldType
  DEF CertificatesNext
<1> QED
  BY <1>1, <1>2

\* Every value of the component keeps its type.
THEOREM CertificatesTypeCorrect == CertificatesSpec => []CertificatesTypeOK
<1>1. CertTypeInv => CertificatesTypeOK
  BY DEF CertTypeInv
<1> QED
  BY <1>1, CertInitType, CertStepType, PTL DEF CertificatesSpec

-----------------------------------------------------------------------------
(* The failures of a certificate *)

\* A certificate that has failed and was not rolled back is an error, and the worker does not
\* have it.
FailuresInv ==
    /\ \A n \in 1..Len(certs) :
          certs[n].failures # 0 => n \in reverted \/ (certs[n].failures = 1 /\ ~certs[n].active)
    /\ \A copy \in queue : copy.failures # 0 => copy.cert \in reverted
    /\ task[Worker].failures # 0 => task[Worker].cert \in reverted

\* Where the values of Unused, changed, are.
LEMMA UnusedAt ==
    /\ \A at \in {"checked", "issuing", "installing", "over"} :
          [Unused EXCEPT !.at = at].at = at /\ [Unused EXCEPT !.at = at].failures = 0
    /\ \A b \in Job : Configuring(b).at = "configuring" /\ Configuring(b).failures = 0
    /\ NoInstall.at = "none"
  BY Values DEF Configuring, Task

LEMMA FailuresSame ==
    ASSUME FailuresInv, UNCHANGED <<certs, reverted>>, queue' \subseteq queue,
           \/ task'[Worker].failures = 0
           \/ task'[Worker].failures = task[Worker].failures /\ task'[Worker].cert = task[Worker].cert
    PROVE  FailuresInv'
  BY DEF FailuresInv

LEMMA FailuresInit == CertificatesInit => FailuresInv
<1> SUFFICES ASSUME CertificatesInit PROVE FailuresInv
  OBVIOUS
<1>1. Len(certs) = 0 /\ queue = {} /\ task[Worker].failures = 0
  BY Values DEF CertificatesInit
<1> QED
  BY <1>1 DEF FailuresInv

LEMMA FailuresStep ==
    ASSUME CertTypeInv, FailuresInv, [CertificatesNext]_certVars PROVE FailuresInv'
<1>0. /\ task \in [Actor -> Task] /\ Worker \in Actor /\ \A q \in Job : q # Worker
      /\ certs \in Seq(Certificate) /\ Len(certs) \in Nat
  BY Values, LenProperties DEF CertTypeInv, CertificatesTypeOK
<1>1. CASE UNCHANGED certVars
  BY <1>1 DEF certVars, FailuresInv
<1>2. ASSUME NEW q \in Job,
             \/ CheckDomain(q) \/ InsertBinding(q) \/ LoadBinding(q) \/ LoadHistory(q)
             \/ LoadToExpose(q) \/ CheckToExpose(q) \/ InsertToExpose(q) \/ DeleteDomain(q)
      PROVE  FailuresInv'
  <2>1. UNCHANGED <<certs, reverted, queue>>
    BY <1>2 DEF CheckDomain, InsertBinding, LoadBinding, LoadHistory, LoadToExpose, CheckToExpose,
                InsertToExpose, DeleteDomain, rowVars, pastVars
  <2>2. task' = task \/ \E t : task' = [task EXCEPT ![q] = t]
    <3>1. CASE CheckDomain(q) \/ CheckToExpose(q)
      BY <3>1 DEF CheckDomain, CheckToExpose, Starts
    <3>2. CASE InsertBinding(q)
      BY <3>2 DEF InsertBinding
    <3>3. CASE LoadBinding(q)
      BY <3>3 DEF LoadBinding, Starts
    <3>4. CASE LoadHistory(q)
      BY <3>4 DEF LoadHistory, Starts
    <3>5. CASE LoadToExpose(q)
      BY <3>5 DEF LoadToExpose, Starts
    <3>6. CASE InsertToExpose(q)
      BY <3>6 DEF InsertToExpose, Configures
    <3>7. CASE DeleteDomain(q)
      BY <3>7 DEF DeleteDomain
    <3> QED
      BY <1>2, <3>1, <3>2, <3>3, <3>4, <3>5, <3>6, <3>7
  <2>3. task'[Worker] = task[Worker]
    BY <1>0, <1>2, <2>2
  <2> QED
    BY <2>1, <2>3, FailuresSame
<1>3. CASE RenewalTick
  <2>1. ASSUME NEW copy \in queue', copy.failures # 0 PROVE copy.cert \in reverted
    <3>1. PICK n \in 1..Len(certs) :
              DueNow(certs[n]) /\ copy = [cert |-> n, old |-> certs[n].bundle,
                                          failures |-> certs[n].failures]
      BY <1>3, <2>1 DEF RenewalTick
    <3> QED
      BY <2>1, <3>1 DEF DueNow, FailuresInv
  <2> QED
    BY <1>3, <2>1 DEF RenewalTick, FailuresInv, rowVars, pastVars
<1>4. CASE RenewNext
  <2>1. PICK copy \in queue :
          /\ task' = [task EXCEPT ![Worker] =
                      [Unused EXCEPT !.at = "issuing", !.op = "renew", !.force = TRUE,
                                !.cert = copy.cert, !.old = copy.old, !.failures = copy.failures]]
          /\ queue' = queue \ {copy} /\ UNCHANGED <<certs, reverted>>
    BY <1>4 DEF RenewNext, Starts, rowVars, pastVars
  <2>2. task'[Worker].failures = copy.failures /\ task'[Worker].cert = copy.cert
    BY <1>0, <2>1, Values DEF Task
  <2> QED
    BY <2>1, <2>2 DEF FailuresInv
<1>5. CASE SkipNext
  BY <1>5, FailuresSame DEF SkipNext, rowVars, pastVars
<1>6. ASSUME NEW q \in Actor,
             \/ Issue(q) \/ AcmeIssue(q) \/ AcmeInstallKey(q) \/ AcmeInstallCertificate(q)
             \/ InstallCertificate(q) \/ InstallKey(q) \/ InstallFails(q) \/ WriteProxy(q)
             \/ KeepOldBundle(q)
      PROVE  FailuresInv'
  <2>1. UNCHANGED <<certs, reverted, queue>>
    BY <1>6 DEF Issue, AcmeIssue, AcmeInstallKey, AcmeInstallCertificate, InstallCertificate,
                InstallKey, InstallFails, WriteProxy, KeepOldBundle, rowVars, pastVars
  <2>2. task'[Worker].failures = task[Worker].failures /\ task'[Worker].cert = task[Worker].cert
    <3>1. task[q] \in Task /\ task[Worker] \in Task
      BY <1>0
    <3>2. CASE Issue(q) \/ AcmeIssue(q)
      <4>1. PICK at, bundle :
              task' = [task EXCEPT ![q] = [task[q] EXCEPT !.at = at, !.bundle = bundle,
                                                         !.force = FALSE]]
        <5>1. CASE Issue(q)
          <6>1. PICK new \in Certbot(task[q].force) :
                    task' = [task EXCEPT ![q] = [task[q] EXCEPT !.at = "installing", !.bundle = new,
                                                               !.force = FALSE]]
            BY <5>1 DEF Issue
          <6> QED
            BY <6>1
        <5>2. CASE AcmeIssue(q)
          <6> DEFINE new == issued + 1
          <6>1. task' = [task EXCEPT ![q] = [task[q] EXCEPT !.at = "acme", !.bundle = new,
                                                           !.force = FALSE]]
            BY <5>2 DEF AcmeIssue
          <6> HIDE DEF new
          <6> QED
            BY <6>1
        <5> QED
          BY <3>2, <5>1, <5>2
      <4> DEFINE t == [task[q] EXCEPT !.at = at, !.bundle = bundle, !.force = FALSE]
      <4>2. t.failures = task[q].failures /\ t.cert = task[q].cert
        BY <3>1 DEF Task
      <4> HIDE DEF t
      <4>3. task' = [task EXCEPT ![q] = t]
        BY <4>1 DEF t
      <4>4. task'[Worker] = IF q = Worker THEN t ELSE task[Worker]
        BY <1>0, <4>3
      <4> QED
        BY <4>2, <4>4
    <3>3. CASE InstallCertificate(q) \/ AcmeInstallKey(q)
      BY <3>3 DEF InstallCertificate, AcmeInstallKey
    <3>4. CASE KeepOldBundle(q)
      <4>1. task' = [task EXCEPT ![q] = [task[q] EXCEPT !.at = "kept", !.old = 0]]
        BY <3>4 DEF KeepOldBundle
      <4> QED
        BY <1>0, <3>1, <4>1 DEF Task
    <3>5. CASE AcmeInstallCertificate(q) \/ InstallKey(q) \/ InstallFails(q) \/ WriteProxy(q)
      <4>1. \/ UNCHANGED task
            \/ \E at \in {"installing", "install failed", "installed", "exposed"} :
                  task' = [task EXCEPT ![q] = [task[q] EXCEPT !.at = at]]
        BY <3>5 DEF AcmeInstallCertificate, InstallKey, InstallFails, WriteProxy
      <4>2. \A at \in {"installing", "install failed", "installed", "exposed"} :
                /\ [task[q] EXCEPT !.at = at].failures = task[q].failures
                /\ [task[q] EXCEPT !.at = at].cert = task[q].cert
        BY <3>1 DEF Task
      <4>3. PICK t : /\ task' = [task EXCEPT ![q] = t]
                     /\ t.failures = task[q].failures /\ t.cert = task[q].cert
        BY <1>0, <4>1, <4>2
      <4>4. task'[Worker] = IF q = Worker THEN t ELSE task[Worker]
        BY <1>0, <4>3
      <4> QED
        BY <4>3, <4>4
    <3> QED
      BY <1>6, <3>2, <3>3, <3>4, <3>5
  <2> QED
    BY <2>1, <2>2, FailuresSame
<1>7. ASSUME NEW q \in Actor, StoreCertificate(q) PROVE FailuresInv'
  <2>1. q # Worker /\ task[q].bundle \in Bundle
    <3>1. Shape(q, task[q]) /\ task[q].bundle \in 0..MaxBundles
      BY Current
    <3> QED
      BY <1>7, <3>1, Numbers DEF StoreCertificate, Shape
  <2> DEFINE row == [bundle |-> task[q].bundle, active |-> TRUE, due |-> FALSE, failures |-> 0]
  <2>2. row \in Certificate /\ row.failures = 0
    BY <2>1 DEF Certificate
  <2>3. /\ certs' = Append(certs, row) /\ UNCHANGED <<queue, reverted>>
        /\ \E t : task' = [task EXCEPT ![q] = t]
    BY <1>7 DEF StoreCertificate
  <2> HIDE DEF row
  <2>4. /\ Len(certs') = Len(certs) + 1 /\ \A n \in 1..Len(certs) : certs'[n] = certs[n]
        /\ certs'[Len(certs) + 1] = row
    BY <1>0, <2>2, <2>3, AppendProperties
  <2>5. task'[Worker] = task[Worker]
    BY <1>0, <2>1, <2>3
  <2>6. ASSUME NEW n \in 1..Len(certs')
        PROVE  certs'[n].failures # 0 =>
                   n \in reverted' \/ (certs'[n].failures = 1 /\ ~certs'[n].active)
    <3>1. n \in 1..Len(certs) \/ n = Len(certs) + 1
      BY <1>0, <2>4
    <3> QED
      BY <2>2, <2>3, <2>4, <3>1 DEF FailuresInv
  <2> QED
    BY <2>3, <2>5, <2>6 DEF FailuresInv
<1>8. ASSUME NEW q \in Actor, UpdateCertificate(q) PROVE FailuresInv'
  <2> DEFINE n == task[q].cert
             row == [bundle |-> task[q].bundle, active |-> TRUE, due |-> FALSE, failures |-> 0]
  <2>1. row.failures = 0 /\ certs' = [certs EXCEPT ![n] = row] /\ UNCHANGED <<queue, reverted>>
    BY <1>8 DEF UpdateCertificate
  <2>2. n \in 1..Len(certs) /\ task[q].bundle \in Bundle
    <3>1. Shape(q, task[q]) /\ task[q].bundle \in 0..MaxBundles
      BY Current
    <3> QED
      BY <1>8, <3>1, Current, Numbers DEF UpdateCertificate, Shape
  <2>3. row \in Certificate
    BY <2>2 DEF Certificate
  <2>4. task'[Worker] = task[Worker] \/ task'[Worker].failures = 0
    <3>1. CASE q = Worker
      BY <1>0, <1>8, <3>1, EndedType DEF UpdateCertificate
    <3>2. CASE q # Worker
      BY <1>0, <1>8, <3>2 DEF UpdateCertificate
    <3> QED
      BY <3>1, <3>2
  <2> HIDE DEF row, n
  <2>5. Len(certs') = Len(certs) /\ \A m \in 1..Len(certs) : certs'[m] = IF m = n THEN row ELSE certs[m]
    BY <1>0, <2>1, <2>2, <2>3, ExceptSeq
  <2> QED
    BY <2>1, <2>4, <2>5 DEF FailuresInv
<1>9. ASSUME NEW q \in Actor, RevertCertificate(q) PROVE FailuresInv'
  <2> DEFINE n == task[q].cert
             row == [certs[n] EXCEPT !.bundle = task[q].bundle, !.active = TRUE]
  <2>1. /\ certs' = [certs EXCEPT ![n] = row] /\ UNCHANGED queue /\ reverted' = reverted \cup {n}
        /\ q # Worker /\ task' = [task EXCEPT ![q] = TaskEnded(q)]
    <3>1. Shape(q, task[q])
      BY Current
    <3> QED
      BY <1>9, <3>1, EndedType DEF RevertCertificate, Shape
  <2>2. task'[Worker] = task[Worker]
    BY <1>0, <2>1
  <2> HIDE DEF row, n
  <2>3. Len(certs') = Len(certs) /\ \A m \in 1..Len(certs) : m # n => certs'[m] = certs[m]
    <3>1. certs' \in [1..Len(certs) -> {row} \cup {certs[m] : m \in 1..Len(certs)}]
      BY <1>0, <2>1, LenProperties
    <3>2. DOMAIN certs' = 1..Len(certs')
      BY CertStepType, LenProperties DEF CertTypeInv, CertificatesTypeOK
    <3>3. CertTypeInv'
      BY CertStepType
    <3>4. certs' \in Seq(Certificate) /\ Len(certs') \in Nat
      BY <3>3, LenProperties DEF CertTypeInv, CertificatesTypeOK
    <3>5. 1..Len(certs') = 1..Len(certs)
      BY <3>1, <3>4, LenProperties
    <3> QED
      BY <1>0, <2>1, <3>1, <3>4, <3>5, LenProperties
  <2>4. ASSUME NEW m \in 1..Len(certs')
        PROVE  certs'[m].failures # 0 =>
                   m \in reverted' \/ (certs'[m].failures = 1 /\ ~certs'[m].active)
    BY <2>1, <2>3 DEF FailuresInv
  <2>5. task'[Worker].failures # 0 => task'[Worker].cert \in reverted'
    BY <2>1, <2>2 DEF FailuresInv
  <2>6. \A copy \in queue' : copy.failures # 0 => copy.cert \in reverted'
    BY <2>1 DEF FailuresInv
  <2> QED
    BY <2>4, <2>5, <2>6 DEF FailuresInv
<1>10. ASSUME NEW q \in Actor, Bind(q) \/ ProxyFails(q) \/ Exposed(q) PROVE FailuresInv'
  <2>1. UNCHANGED <<certs, reverted, queue>>
    BY <1>10 DEF Bind, ProxyFails, Exposed, rowVars, pastVars
  <2>2. \/ task' = [task EXCEPT ![q] = TaskEnded(q)]
        \/ q # Worker /\ \E t : task' = [task EXCEPT ![q] = t]
    <3>1. CASE ProxyFails(q) \/ Exposed(q)
      BY <3>1, EndedType DEF ProxyFails, Exposed
    <3>2. CASE Bind(q) /\ task[q].op = "expose"
      <4>1. q # Worker
        BY <3>2, Current DEF Bind, Shape
      <4> QED
        BY <3>2, <4>1 DEF Bind, Configures
    <3>3. CASE Bind(q) /\ task[q].op # "expose"
      BY <3>3, EndedType DEF Bind
    <3> QED
      BY <1>10, <3>1, <3>2, <3>3
  <2>3. task'[Worker] = task[Worker] \/ task'[Worker].failures = 0
    BY <1>0, <2>2, EndedType
  <2> QED
    BY <2>1, <2>3, FailuresSame
<1>11. ASSUME NEW q \in Actor, JobFails(q) PROVE FailuresInv'
  <2>1. UNCHANGED <<reverted, queue>> /\ task' = [task EXCEPT ![q] = TaskEnded(q)]
    BY <1>11, EndedType DEF JobFails, pastVars
  <2>2. task'[Worker] = task[Worker] \/ task'[Worker].failures = 0
    BY <1>0, <2>1, EndedType
  <2>3. CASE q = Worker
    <3> DEFINE n == task[q].cert
               row == [certs[n] EXCEPT !.active = FALSE, !.due = FALSE,
                                       !.failures = task[q].failures + 1]
    <3>1. n \in 1..Len(certs) /\ task[q].failures \in Nat
      BY <1>11, <2>3, Current DEF Shape, JobFails
    <3>2. row \in Certificate /\ row.failures = task[q].failures + 1 /\ row.active = FALSE
      <4>1. certs[n] \in Certificate
        BY <1>0, <3>1, ElementOfSeq
      <4> DEFINE f == task[q].failures + 1
      <4>2. f \in Nat
        BY <3>1
      <4> HIDE DEF f
      <4>3. [certs[n] EXCEPT !.active = FALSE, !.due = FALSE, !.failures = f]
                \in {c \in Certificate : c.failures = f /\ c.active = FALSE}
        BY <4>1, <4>2 DEF Certificate
      <4> QED
        BY <4>3 DEF f
    <3>3. certs' = [certs EXCEPT ![n] = row]
      BY <1>11, <2>3 DEF JobFails
    <3>4. task[q].failures # 0 => n \in reverted
      BY <2>3 DEF FailuresInv
    <3> HIDE DEF n, row
    <3>5. Len(certs') = Len(certs) /\ \A m \in 1..Len(certs) : certs'[m] = IF m = n THEN row ELSE certs[m]
      BY <1>0, <3>1, <3>2, <3>3, ExceptSeq
    <3>6. row.failures # 0 => n \in reverted \/ (row.failures = 1 /\ ~row.active)
      BY <3>1, <3>2, <3>4
    <3> QED
      BY <2>1, <2>2, <3>5, <3>6 DEF FailuresInv
  <2>4. CASE q # Worker
    BY <1>11, <2>1, <2>2, <2>4, FailuresSame DEF JobFails
  <2> QED
    BY <2>3, <2>4
<1>12. ASSUME NEW n \in 1..Len(certs), BecomesDue(n) PROVE FailuresInv'
  <2> DEFINE row == [certs[n] EXCEPT !.due = TRUE]
  <2>1. row \in Certificate /\ row.failures = certs[n].failures /\ row.active = certs[n].active
    <3>1. certs[n] \in Certificate
      BY <1>0, ElementOfSeq
    <3> QED
      BY <3>1 DEF Certificate
  <2>2. certs' = [certs EXCEPT ![n] = row] /\ UNCHANGED <<task, queue, reverted>>
    BY <1>12 DEF BecomesDue, pastVars
  <2> HIDE DEF row
  <2>3. Len(certs') = Len(certs) /\ \A m \in 1..Len(certs) : certs'[m] = IF m = n THEN row ELSE certs[m]
    BY <1>0, <2>1, <2>2, ExceptSeq
  <2> QED
    BY <2>1, <2>2, <2>3 DEF FailuresInv
<1>13. CASE CertificatesDie
  <2>1. task'[Worker] = task[Worker] \/ task'[Worker] = Unused
    BY <1>0, <1>13 DEF CertificatesDie
  <2> QED
    BY <1>13, <2>1, Values, FailuresSame DEF CertificatesDie, rowVars, pastVars
<1>14. CASE InstallsDie
  BY <1>14, FailuresSame DEF InstallsDie, rowVars, pastVars
<1> QED
  BY <1>1, <1>2, <1>3, <1>4, <1>5, <1>6, <1>7, <1>8, <1>9, <1>10, <1>11, <1>12, <1>13, <1>14
  DEF CertificatesNext

\* The worker fails at a certificate once, unless it is rolled back.
THEOREM OneFailureAlways == CertificatesSpec => []OneFailure
<1>1. FailuresInv => OneFailure
  BY DEF FailuresInv, OneFailure
<1> QED
  BY <1>1, CertInitType, CertStepType, FailuresInit, FailuresStep, PTL DEF CertificatesSpec

-----------------------------------------------------------------------------
(* The host and the rows *)

\* Nobody has anything to do with the domain for p.
Away(p) ==
    /\ task[p].at \in {"idle", "over"} /\ install[p].at = "none"
    /\ p = Worker => queue = {}

\* The host has the row that was written last.
Settled == newest # 0 => onHost.cert = certs[newest].bundle /\ onHost.key = certs[newest].bundle

\* The history has what the certificate had before.
Kept(n) == previous[n] # 0 => history[n] # <<>> /\ Last(history[n]) = previous[n]

\* The copies of the tick are those of the rows, one for a certificate.
CopiesFit ==
    /\ \A copy \in queue : copy.old = certs[copy.cert].bundle
    /\ \A one, other \in queue : one.cert = other.cert => one = other

\* How far the request has come that is alone at the domain.
Alone(q) ==
    /\ task[q].at \notin {"acme", "installing", "installed", "kept"} => Settled
    /\ task[q].at # "install failed"
    /\ task[q].at = "acme" =>
          /\ install[q].at \in {"acme", "acme half"} /\ install[q].bundle = task[q].bundle
          /\ install[q].at = "acme half" => onHost.key = task[q].bundle
    /\ install[q].at \in {"acme", "acme half"} => task[q].at = "acme"
    /\ task[q].at = "installing" =>
          /\ install[q].at \in {"sent", "half"} /\ install[q].bundle = task[q].bundle
          /\ install[q].at = "half" => onHost.cert = task[q].bundle
    /\ install[q].at \in {"sent", "half"} => task[q].at = "installing"
    /\ task[q].at \in {"installed", "kept"} =>
          onHost.cert = task[q].bundle /\ onHost.key = task[q].bundle
    /\ task[q].at \in {"checked", "issuing", "acme", "installing", "installed"}
          /\ task[q].op # "rollback" /\ task[q].cert # 0 => task[q].old = certs[task[q].cert].bundle
    /\ task[q].at = "kept" =>
          history[task[q].cert] # <<>> /\ Last(history[task[q].cert]) = certs[task[q].cert].bundle
    /\ \A n \in CertId : task[q].at # "kept" \/ task[q].cert # n => Kept(n)
    /\ CopiesFit
    /\ \A copy \in queue : task[q].at # "idle" => copy.cert # task[q].cert

HostInv ==
    blemish = {} => \E q \in Actor : Alone(q) /\ \A p \in Actor \ {q} : Away(p)

LEMMA HostInit == CertificatesInit => HostInv
<1> SUFFICES ASSUME CertificatesInit PROVE HostInv
  OBVIOUS
<1>1. /\ Worker \in Actor /\ queue = {} /\ newest = 0
      /\ \A p \in Actor : task[p].at = "idle" /\ install[p].at = "none"
      /\ \A n \in CertId : previous[n] = 0
  BY Values DEF CertificatesInit
<1>2. \A p \in Actor : Away(p)
  BY <1>1 DEF Away
<1>3. Alone(Worker)
  BY <1>1 DEF Alone, Settled, Kept, CopiesFit
<1> QED
  BY <1>1, <1>2, <1>3 DEF HostInv

\* A step of the one that is at the domain.
LEMMA AloneStep ==
    ASSUME NEW q \in Actor, \A p \in Actor \ {q} : Away(p),
           \A p \in Actor \ {q} : task'[p] = task[p] /\ install'[p] = install[p],
           q = Worker \/ queue' = queue, Alone(q)'
    PROVE  HostInv'
<1>1. \A p \in Actor \ {q} : Away(p)'
  BY DEF Away
<1> QED
  BY <1>1 DEF HostInv

\* One that begins and meets nobody finds the host and the rows in order.
LEMMA BeginsAlone ==
    ASSUME CertTypeInv, HostInv, NEW p \in Actor, Meets(p), blemish' = {}, task[p].at = "idle"
    PROVE  /\ \A r \in Actor \ {p} : Away(r)
           /\ p = Worker \/ queue = {}
           /\ Settled /\ CopiesFit /\ \A n \in CertId : Kept(n)
           /\ install[p].at \notin {"sent", "half", "acme", "acme half"}
<1>1. blemish = {} /\ Busy \ {p} = {}
  BY DEF Meets
<1>2. PICK q \in Actor : Alone(q) /\ \A r \in Actor \ {q} : Away(r)
  BY <1>1 DEF HostInv
<1>3. \A r \in Actor \ {p} : Away(r)
  <2>1. \A r \in Actor \ {p} : r \notin Busy
    BY <1>1
  <2> QED
    BY <2>1, Values DEF Busy, Away
<1>4. task[q].at \in {"idle", "over"}
  BY <1>2, <1>3 DEF Away
<1>5. p = Worker \/ queue = {}
  BY <1>3, Values DEF Away
<1>6. install[p].at \notin {"sent", "half", "acme", "acme half"}
  BY <1>2 DEF Away, Alone
<1> QED
  BY <1>2, <1>3, <1>4, <1>5, <1>6 DEF Alone

\* A request that begins and brings nothing yet.
LEMMA BeginsQuietly ==
    ASSUME CertTypeInv, HostInv, NEW p \in Job, NEW t, Starts(p, t), blemish' = {},
           t.at \in {"checked", "issuing", "configuring"},
           t.cert # 0 => t.old = certs[t.cert].bundle,
           \/ UNCHANGED install
           \/ install' = [install EXCEPT ![p] = [at |-> "proxy", bundle |-> 0]],
           UNCHANGED <<certs, history, onHost, queue, newest, previous>>
    PROVE  HostInv'
<1>0. p \in Actor /\ task \in [Actor -> Task] /\ install \in [Actor -> Install] /\ p # Worker
  BY Values DEF CertTypeInv, CertificatesTypeOK
<1>1. task[p].at = "idle" /\ Meets(p) /\ task' = [task EXCEPT ![p] = t]
  BY DEF Starts
<1>2. /\ \A r \in Actor \ {p} : Away(r)
      /\ queue = {}
      /\ Settled /\ CopiesFit /\ \A n \in CertId : Kept(n)
      /\ install[p].at \notin {"sent", "half", "acme", "acme half"}
  BY <1>0, <1>1, BeginsAlone
<1>3. task'[p] = t /\ install'[p].at \notin {"sent", "half", "acme", "acme half"}
  <2>1. install'[p] = install[p] \/ install'[p] = [at |-> "proxy", bundle |-> 0]
    BY <1>0
  <2>2. [at |-> "proxy", bundle |-> 0].at = "proxy"
    OBVIOUS
  <2> QED
    BY <1>0, <1>1, <1>2, <2>1, <2>2
<1>4. Alone(p)'
  BY <1>2, <1>3 DEF Alone, Settled, Kept, CopiesFit
<1> QED
  BY <1>0, <1>1, <1>2, <1>4, AloneStep

LEMMA HostBegins ==
    ASSUME CertTypeInv, HostInv, NEW q \in Job, blemish' = {},
           \/ CheckDomain(q) \/ CheckToExpose(q) \/ LoadBinding(q) \/ LoadToExpose(q)
           \/ LoadHistory(q)
    PROVE  HostInv'
<1>0. /\ q \in Actor /\ task \in [Actor -> Task] /\ install \in [Actor -> Install] /\ q # Worker
      /\ \A b \in Job : binding[b].cert \in 0..MaxCerts /\ binding[b].cert <= Len(certs)
  BY Values DEF CertTypeInv, CertificatesTypeOK, RefsInv, Binding
<1>1. CASE CheckDomain(q) \/ CheckToExpose(q)
  <2>1. PICK what \in {"create", "expose"} :
            Starts(q, [Unused EXCEPT !.at = "checked", !.op = what, !.of = q, !.force = TRUE])
    BY <1>1 DEF CheckDomain, CheckToExpose
  <2> DEFINE t == [Unused EXCEPT !.at = "checked", !.op = what, !.of = q, !.force = TRUE]
  <2>2. t.at = "checked" /\ t.cert = 0
    BY Values DEF Task
  <2>3. Starts(q, t) /\ UNCHANGED <<certs, history, onHost, queue, newest, previous, install>>
    BY <1>1, <2>1 DEF CheckDomain, CheckToExpose, rowVars, pastVars
  <2> HIDE DEF t
  <2> QED
    BY <2>2, <2>3, BeginsQuietly
<1>2. ASSUME NEW b \in Job, NEW op \in {"issue", "expose"}, NEW force \in BOOLEAN
      PROVE  LET t == [Read(binding[b].cert) EXCEPT !.at = "issuing", !.op = op, !.of = b,
                                                    !.force = force] IN
             t.at = "issuing" /\ (t.cert # 0 => t.old = certs[t.cert].bundle)
  <2> DEFINE r == Read(binding[b].cert)
             t == [r EXCEPT !.at = "issuing", !.op = op, !.of = b, !.force = force]
  <2>1. r \in Task /\ r.cert = binding[b].cert
    BY <1>0, ReadType
  <2>2. r.cert # 0 => r.old = certs[r.cert].bundle
    <3>1. CASE binding[b].cert = 0
      BY <2>1, <3>1
    <3>2. CASE binding[b].cert # 0
      <4>1. r = [Unused EXCEPT !.cert = binding[b].cert, !.old = certs[binding[b].cert].bundle]
        BY <3>2 DEF Read
      <4>2. r.old = certs[binding[b].cert].bundle
        BY <4>1 DEF Unused
      <4> QED
        BY <2>1, <4>2
    <3> QED
      BY <3>1, <3>2
  <2> HIDE DEF r
  <2>3. t.at = "issuing" /\ t.cert = r.cert /\ t.old = r.old
    BY <2>1 DEF Task
  <2> QED
    BY <2>2, <2>3 DEF r
<1>3. CASE LoadBinding(q)
  <2>1. PICK b \in Job, force \in BOOLEAN :
            Starts(q, [Read(binding[b].cert) EXCEPT !.at = "issuing", !.op = "issue", !.of = b,
                                                    !.force = force])
    BY <1>3 DEF LoadBinding
  <2> DEFINE t == [Read(binding[b].cert) EXCEPT !.at = "issuing", !.op = "issue", !.of = b,
                                                !.force = force]
  <2>2. t.at = "issuing" /\ (t.cert # 0 => t.old = certs[t.cert].bundle)
    BY <1>2
  <2>3. Starts(q, t) /\ UNCHANGED <<certs, history, onHost, queue, newest, previous, install>>
    BY <1>3, <2>1 DEF LoadBinding, rowVars, pastVars
  <2> HIDE DEF t
  <2> QED
    BY <2>2, <2>3, BeginsQuietly
<1>4. CASE LoadToExpose(q)
  <2>1. PICK b \in Job :
            \/ /\ Starts(q, [Read(binding[b].cert) EXCEPT !.at = "issuing", !.op = "expose",
                                                          !.of = b, !.force = TRUE])
               /\ UNCHANGED install
            \/ /\ Starts(q, Configuring(b))
               /\ install' = [install EXCEPT ![q] = [at |-> "proxy", bundle |-> 0]]
    BY <1>4 DEF LoadToExpose, AsksToConfigure
  <2> DEFINE t == [Read(binding[b].cert) EXCEPT !.at = "issuing", !.op = "expose", !.of = b,
                                                !.force = TRUE]
  <2>2. t.at = "issuing" /\ (t.cert # 0 => t.old = certs[t.cert].bundle)
    BY <1>2
  <2>3. Configuring(b).at = "configuring" /\ Configuring(b).cert = 0
    BY ConfiguringType
  <2>4. UNCHANGED <<certs, history, onHost, queue, newest, previous>>
    BY <1>4 DEF LoadToExpose, rowVars, pastVars
  <2> HIDE DEF t
  <2>5. \/ Starts(q, t) /\ UNCHANGED install
        \/ /\ Starts(q, Configuring(b))
           /\ install' = [install EXCEPT ![q] = [at |-> "proxy", bundle |-> 0]]
    BY <2>1 DEF t
  <2> QED
    BY <2>2, <2>3, <2>4, <2>5, BeginsQuietly
<1>5. CASE LoadHistory(q)
  <2>1. PICK b \in Job :
            /\ Starts(q, [Unused EXCEPT !.at = "installing", !.op = "rollback",
                             !.cert = binding[b].cert, !.bundle = Last(history[binding[b].cert])])
            /\ Installs(q, Last(history[binding[b].cert]))
    BY <1>5 DEF LoadHistory
  <2> DEFINE bundle == Last(history[binding[b].cert])
             t == [Unused EXCEPT !.at = "installing", !.op = "rollback",
                                 !.cert = binding[b].cert, !.bundle = bundle]
             a == [at |-> "sent", bundle |-> bundle]
  <2>2. t.at = "installing" /\ t.op = "rollback" /\ t.bundle = bundle
        /\ a.at = "sent" /\ a.bundle = bundle
    BY DEF Unused
  <2>3. task' = [task EXCEPT ![q] = t] /\ install' = [install EXCEPT ![q] = a]
        /\ UNCHANGED <<certs, history, onHost, queue, newest, previous>>
    BY <1>5, <2>1 DEF LoadHistory, Starts, Installs, rowVars, pastVars
  <2>4. /\ \A r \in Actor \ {q} : Away(r)
        /\ queue = {} /\ CopiesFit /\ \A n \in CertId : Kept(n)
    BY <1>0, <2>1, BeginsAlone DEF Starts
  <2> HIDE DEF t, a, bundle
  <2>5. task'[q] = t /\ install'[q] = a
    BY <1>0, <2>3
  <2>6. Alone(q)'
    BY <2>2, <2>3, <2>4, <2>5 DEF Alone, Settled, Kept, CopiesFit
  <2> QED
    BY <1>0, <2>3, <2>4, <2>6, AloneStep
<1> QED
  BY <1>1, <1>3, <1>4, <1>5

\* The worker's tick and its turns.
LEMMA HostWorker ==
    ASSUME CertTypeInv, HostInv, blemish' = {}, RenewalTick \/ RenewNext \/ SkipNext
    PROVE  HostInv'
<1>0. Worker \in Actor /\ task \in [Actor -> Task] /\ install \in [Actor -> Install]
  BY Values DEF CertTypeInv, CertificatesTypeOK
<1>1. CASE RenewalTick
  <2>1. /\ \A r \in Actor \ {Worker} : Away(r)
        /\ Settled /\ \A n \in CertId : Kept(n)
        /\ install[Worker].at \notin {"sent", "half", "acme", "acme half"} /\ task[Worker].at = "idle"
    BY <1>0, <1>1, BeginsAlone DEF RenewalTick
  <2>2. UNCHANGED <<certs, history, onHost, task, install, newest, previous>>
    BY <1>1 DEF RenewalTick, rowVars, pastVars
  <2>3. /\ \A copy \in queue' : copy.old = certs[copy.cert].bundle
        /\ \A one, other \in queue' : one.cert = other.cert => one = other
    BY <1>1 DEF RenewalTick
  <2>4. Alone(Worker)'
    BY <2>1, <2>2, <2>3 DEF Alone, Settled, Kept, CopiesFit
  <2> QED
    BY <1>0, <2>1, <2>2, <2>4, AloneStep
<1>2. CASE RenewNext
  <2>1. PICK copy \in queue :
          /\ Starts(Worker, [Unused EXCEPT !.at = "issuing", !.op = "renew", !.force = TRUE,
                                !.cert = copy.cert, !.old = copy.old, !.failures = copy.failures])
          /\ queue' = queue \ {copy}
    BY <1>2 DEF RenewNext
  <2> DEFINE t == [Unused EXCEPT !.at = "issuing", !.op = "renew", !.force = TRUE,
                                !.cert = copy.cert, !.old = copy.old, !.failures = copy.failures]
  <2>2. t.at = "issuing" /\ t.cert = copy.cert /\ t.old = copy.old
    BY DEF Unused
  <2>3. task' = [task EXCEPT ![Worker] = t]
        /\ UNCHANGED <<certs, history, onHost, install, newest, previous>>
    BY <1>2, <2>1 DEF RenewNext, Starts, rowVars, pastVars
  <2>4. /\ \A r \in Actor \ {Worker} : Away(r)
        /\ Settled /\ CopiesFit /\ \A n \in CertId : Kept(n)
        /\ install[Worker].at \notin {"sent", "half", "acme", "acme half"}
    BY <1>0, <2>1, BeginsAlone DEF Starts
  <2> HIDE DEF t
  <2>5. task'[Worker] = t
    BY <1>0, <2>3
  <2>6. Alone(Worker)'
    <3>1. CopiesFit' /\ \A other \in queue' : other.cert # copy.cert
      BY <2>1, <2>3, <2>4 DEF CopiesFit
    <3>2. copy.old = certs[copy.cert].bundle
      BY <2>4 DEF CopiesFit
    <3>3. Settled' /\ \A n \in CertId : Kept(n)'
      BY <2>3, <2>4 DEF Settled, Kept
    <3> QED
      BY <2>2, <2>3, <2>4, <2>5, <3>1, <3>2, <3>3 DEF Alone
  <2> QED
    BY <1>0, <2>3, <2>4, <2>6, AloneStep
<1>3. CASE SkipNext
  <2>1. PICK copy \in queue : queue' = queue \ {copy}
    BY <1>3 DEF SkipNext
  <2>2. /\ UNCHANGED <<certs, history, onHost, task, install, newest, previous, blemish>>
        /\ task[Worker].at = "idle"
    BY <1>3 DEF SkipNext, rowVars, pastVars
  <2>3. PICK q \in Actor : Alone(q) /\ \A r \in Actor \ {q} : Away(r)
    BY <2>2 DEF HostInv
  <2>4. q = Worker
    BY <1>0, <2>1, <2>3 DEF Away
  <2>5. Alone(Worker)'
    BY <2>1, <2>2, <2>3, <2>4 DEF Alone, Settled, Kept, CopiesFit
  <2> QED
    BY <1>0, <2>2, <2>3, <2>4, <2>5, AloneStep
<1> QED
  BY <1>1, <1>2, <1>3

\* A request that is alone, and that issues or installs.
LEMMA HostInstalls ==
    ASSUME CertTypeInv, NEW q \in Actor, Alone(q), \A p \in Actor \ {q} : Away(p),
           \/ Issue(q) \/ AcmeIssue(q) \/ AcmeInstallKey(q) \/ AcmeInstallCertificate(q)
           \/ InstallCertificate(q) \/ InstallKey(q)
    PROVE  HostInv'
<1>0. /\ task \in [Actor -> Task] /\ install \in [Actor -> Install]
      /\ onHost \in [cert : 0..MaxBundles, key : 0..MaxBundles, certbot : 0..MaxBundles]
      /\ task[q] \in Task /\ install[q] \in Install
  BY DEF CertTypeInv, CertificatesTypeOK
<1>1. CASE Issue(q)
  <2>1. PICK bundle \in Certbot(task[q].force) :
          /\ task' = [task EXCEPT ![q] = [task[q] EXCEPT !.at = "installing", !.bundle = bundle,
                                                         !.force = FALSE]]
          /\ install' = [install EXCEPT ![q] = [at |-> "sent", bundle |-> bundle]]
    <3>1. PICK bundle \in Certbot(task[q].force) :
            /\ task' = [task EXCEPT ![q].at = "installing", ![q].bundle = bundle,
                                    ![q].force = FALSE]
            /\ Installs(q, bundle)
      BY <1>1, Zenon DEF Issue
    <3>2. task' = [task EXCEPT ![q] = [task[q] EXCEPT !.at = "installing", !.bundle = bundle,
                                                     !.force = FALSE]]
      BY <3>1
    <3> QED
      BY <3>1, <3>2, Zenon DEF Installs
  <2> DEFINE t == [task[q] EXCEPT !.at = "installing", !.bundle = bundle, !.force = FALSE]
             a == [at |-> "sent", bundle |-> bundle]
  <2>2. /\ t.at = "installing" /\ t.bundle = bundle /\ t.op = task[q].op /\ t.cert = task[q].cert
        /\ t.old = task[q].old /\ a.at = "sent" /\ a.bundle = bundle
    BY <1>0 DEF Task
  <2>3. /\ task[q].at = "issuing" /\ UNCHANGED <<certs, history, queue, newest, previous>>
        /\ onHost'.cert = onHost.cert /\ onHost'.key = onHost.key
    BY <1>0, <1>1 DEF Issue, rowVars, pastVars
  <2> HIDE DEF t, a
  <2>4. /\ task' = [task EXCEPT ![q] = t] /\ install' = [install EXCEPT ![q] = a]
    BY <2>1 DEF t, a
  <2>5. task'[q] = t /\ install'[q] = a
    BY <1>0, <2>4
  <2>6. Alone(q)'
    BY <2>2, <2>3, <2>5 DEF Alone, Settled, Kept, CopiesFit
  <2> QED
    BY <1>0, <2>3, <2>4, <2>6, AloneStep
<1>2. CASE InstallCertificate(q)
  <2> DEFINE a == [install[q] EXCEPT !.at = "half"]
  <2>1. a.at = "half" /\ a.bundle = install[q].bundle
    BY <1>0 DEF Install
  <2>2. /\ install[q].at = "sent" /\ UNCHANGED <<certs, history, task, queue, newest, previous>>
        /\ onHost'.cert = install[q].bundle /\ onHost'.key = onHost.key
    BY <1>0, <1>2 DEF InstallCertificate, rowVars, pastVars
  <2>3. install' = [install EXCEPT ![q] = a]
    BY <1>2 DEF InstallCertificate
  <2> HIDE DEF a
  <2>4. install'[q] = a
    BY <1>0, <2>3
  <2>5. Alone(q)'
    BY <2>1, <2>2, <2>4 DEF Alone, Settled, Kept, CopiesFit
  <2> QED
    BY <1>0, <2>2, <2>3, <2>5, AloneStep
<1>3. CASE InstallKey(q)
  <2> DEFINE t == [task[q] EXCEPT !.at = "installed"]
  <2>1. /\ t.at = "installed" /\ t.bundle = task[q].bundle /\ t.op = task[q].op
        /\ t.cert = task[q].cert /\ t.old = task[q].old
    BY <1>0 DEF Task
  <2>2. /\ install[q].at = "half" /\ UNCHANGED <<certs, history, queue, newest, previous>>
        /\ onHost'.key = install[q].bundle /\ onHost'.cert = onHost.cert
    BY <1>0, <1>3 DEF InstallKey, rowVars, pastVars
  <2>3. task[q].at = "installing"
    BY <2>2 DEF Alone
  <2>4. task' = [task EXCEPT ![q] = t] /\ install' = [install EXCEPT ![q] = NoInstall]
    BY <1>3, <2>3 DEF InstallKey
  <2> HIDE DEF t
  <2>5. task'[q] = t /\ install'[q].at = "none"
    BY <1>0, <2>4, Values
  <2>6. Alone(q)'
    BY <2>1, <2>2, <2>3, <2>5 DEF Alone, Settled, Kept, CopiesFit
  <2> QED
    BY <1>0, <2>2, <2>4, <2>6, AloneStep
<1>4. CASE AcmeIssue(q)
  <2> DEFINE bundle == issued + 1
             t == [task[q] EXCEPT !.at = "acme", !.bundle = bundle, !.force = FALSE]
             a == [at |-> "acme", bundle |-> bundle]
  <2>1. /\ task[q].at = "issuing" /\ UNCHANGED <<certs, history, onHost, queue, newest, previous>>
        /\ task' = [task EXCEPT ![q] = t] /\ install' = [install EXCEPT ![q] = a]
    BY <1>4 DEF AcmeIssue, rowVars, pastVars
  <2> HIDE DEF bundle
  <2>2. /\ t.at = "acme" /\ t.bundle = bundle /\ t.op = task[q].op /\ t.cert = task[q].cert
        /\ t.old = task[q].old /\ a.at = "acme" /\ a.bundle = bundle
    BY <1>0 DEF Task
  <2> HIDE DEF t, a
  <2>3. task'[q] = t /\ install'[q] = a
    BY <1>0, <2>1
  <2>4. Alone(q)'
    <3>1. CopiesFit' /\ \A n \in CertId : Kept(n)'
      BY <2>1 DEF Alone, Kept, CopiesFit
    <3>2. \A copy \in queue' : copy.cert # t.cert
      BY <2>1, <2>2 DEF Alone
    <3>3. t.op # "rollback" /\ t.cert # 0 => t.old = certs'[t.cert].bundle
      BY <2>1, <2>2 DEF Alone
    <3> QED
      BY <2>2, <2>3, <3>1, <3>2, <3>3, ZenonT(30) DEF Alone
  <2> QED
    BY <1>0, <2>1, <2>4, AloneStep
<1>5. CASE AcmeInstallKey(q)
  <2> DEFINE a == [install[q] EXCEPT !.at = "acme half"]
  <2>1. a.at = "acme half" /\ a.bundle = install[q].bundle
    BY <1>0 DEF Install
  <2>2. /\ install[q].at = "acme" /\ UNCHANGED <<certs, history, task, queue, newest, previous>>
        /\ onHost'.key = install[q].bundle /\ onHost'.cert = onHost.cert
    BY <1>0, <1>5 DEF AcmeInstallKey, rowVars, pastVars
  <2>3. install' = [install EXCEPT ![q] = a]
    BY <1>5 DEF AcmeInstallKey
  <2> HIDE DEF a
  <2>4. install'[q] = a
    BY <1>0, <2>3
  <2>5. Alone(q)'
    BY <2>1, <2>2, <2>4 DEF Alone, Settled, Kept, CopiesFit
  <2> QED
    BY <1>0, <2>2, <2>3, <2>5, AloneStep
<1>6. CASE AcmeInstallCertificate(q)
  <2> DEFINE t == [task[q] EXCEPT !.at = "installing"]
             a == [at |-> "sent", bundle |-> install[q].bundle]
  <2>1. /\ t.at = "installing" /\ t.bundle = task[q].bundle /\ t.op = task[q].op
        /\ t.cert = task[q].cert /\ t.old = task[q].old
        /\ a.at = "sent" /\ a.bundle = install[q].bundle
    BY <1>0 DEF Task
  <2>2. /\ install[q].at = "acme half" /\ UNCHANGED <<certs, history, queue, newest, previous>>
        /\ onHost'.cert = install[q].bundle /\ onHost'.key = onHost.key
    BY <1>0, <1>6 DEF AcmeInstallCertificate, rowVars, pastVars
  <2>3. task[q].at = "acme"
    BY <2>2 DEF Alone
  <2>4. task' = [task EXCEPT ![q] = t] /\ install' = [install EXCEPT ![q] = a]
    BY <1>6, <2>3 DEF AcmeInstallCertificate, Installs
  <2> HIDE DEF t, a
  <2>5. task'[q] = t /\ install'[q] = a
    BY <1>0, <2>4
  <2>6. Alone(q)'
    BY <2>1, <2>2, <2>3, <2>5 DEF Alone, Settled, Kept, CopiesFit
  <2> QED
    BY <1>0, <2>2, <2>4, <2>6, AloneStep
<1> QED
  BY <1>1, <1>2, <1>3, <1>4, <1>5, <1>6

\* A request that is alone, and whose rows are written.
LEMMA HostWrites ==
    ASSUME CertTypeInv, CertTypeInv', NEW q \in Actor, Alone(q), \A p \in Actor \ {q} : Away(p),
           StoreCertificate(q) \/ KeepOldBundle(q) \/ UpdateCertificate(q) \/ RevertCertificate(q)
    PROVE  HostInv'
<1>0. /\ task \in [Actor -> Task] /\ install \in [Actor -> Install]
      /\ task[q] \in Task /\ Shape(q, task[q]) /\ task[q].bundle \in 0..MaxBundles
      /\ certs \in Seq(Certificate) /\ Len(certs) \in Nat
      /\ history \in [CertId -> Seq(Bundle)] /\ previous \in [CertId -> 0..MaxBundles]
      /\ \A copy \in queue : copy.cert \in 1..Len(certs)
      /\ newest \in Nat /\ newest <= Len(certs)
      /\ q = Worker \/ queue = {}
  <2>1. \A copy \in queue : copy.cert \in CertId /\ copy.cert <= Len(certs)
    BY DEF CertTypeInv, CertificatesTypeOK, RefsInv, Copy
  <2>2. Len(certs) \in Nat /\ newest \in 0..MaxCerts /\ newest <= Len(certs)
    BY LenProperties DEF CertTypeInv, CertificatesTypeOK, RefsInv
  <2>3. q = Worker \/ queue = {}
    BY Values DEF Away
  <2>4. /\ \A copy \in queue : copy.cert \in 1..Len(certs)
        /\ newest \in Nat
    BY <2>1, <2>2, CertificatesAssumption DEF CertId
  <2>5. task[q] \in Task /\ Shape(q, task[q]) /\ task[q].bundle \in 0..MaxBundles
    BY Current
  <2> QED
    BY <2>2, <2>3, <2>4, <2>5 DEF CertTypeInv, CertificatesTypeOK
<1>1. CASE StoreCertificate(q)
  <2> DEFINE row == [bundle |-> task[q].bundle, active |-> TRUE, due |-> FALSE, failures |-> 0]
             n == Len(certs) + 1
             t == [task[q] EXCEPT !.at = "bind", !.cert = n]
  <2>1. task[q].bundle \in Bundle /\ q # Worker /\ task[q].at = "installed"
    BY <1>0, <1>1, Numbers DEF StoreCertificate, Shape
  <2>2. row \in Certificate /\ row.bundle = task[q].bundle /\ t.at = "bind"
    BY <1>0, <2>1 DEF Certificate, Task
  <2>3. /\ certs' = Append(certs, row) /\ task' = [task EXCEPT ![q] = t] /\ newest' = n
        /\ UNCHANGED <<history, onHost, install, queue, previous>>
    BY <1>1 DEF StoreCertificate
  <2> HIDE DEF row, t
  <2>4. certs'[n] = row
    BY <1>0, <2>2, <2>3, AppendProperties
  <2>5. task'[q] = t /\ queue = {}
    BY <1>0, <2>1, <2>3
  <2> HIDE DEF n
  <2>6. Alone(q)'
    BY <2>1, <2>2, <2>3, <2>4, <2>5 DEF Alone, Settled, Kept, CopiesFit
  <2> QED
    BY <1>0, <2>3, <2>6, AloneStep
<1>2. CASE KeepOldBundle(q)
  <2> DEFINE t == [task[q] EXCEPT !.at = "kept", !.old = 0]
             n == task[q].cert
  <2>1. /\ task[q].old \in Bundle /\ n \in CertId /\ task[q].at = "installed"
        /\ task[q].old = certs[n].bundle
    BY <1>0, <1>2, Numbers, Current DEF KeepOldBundle, Shape, Alone
  <2>2. t.at = "kept" /\ t.cert = n /\ t.bundle = task[q].bundle
    BY <1>0 DEF Task
  <2>3. /\ task' = [task EXCEPT ![q] = t] /\ history' = [history EXCEPT ![n] = Append(@, task[q].old)]
        /\ UNCHANGED <<certs, onHost, install, queue, newest, previous>>
    BY <1>2 DEF KeepOldBundle, pastVars
  <2> HIDE DEF t, n
  <2>4. task'[q] = t
    BY <1>0, <2>3
  <2>5. /\ history'[n] # <<>> /\ Last(history'[n]) = task[q].old
        /\ \A m \in CertId : m # n => history'[m] = history[m]
    <3>1. history'[n] = Append(history[n], task[q].old) /\ history[n] \in Seq(Bundle)
      BY <1>0, <2>1, <2>3
    <3>2. \A m \in CertId : m # n => history'[m] = history[m]
      BY <1>0, <2>3
    <3> QED
      BY <2>1, <3>1, <3>2, LastAppend
  <2>6. Alone(q)'
    <3>1. \A m \in CertId : n # m => Kept(m)'
      BY <2>1, <2>3, <2>5 DEF Alone, Kept
    <3>2. CopiesFit' /\ \A copy \in queue' : copy.cert # t.cert
      BY <2>1, <2>2, <2>3 DEF Alone, CopiesFit, n
    <3> QED
      BY <2>1, <2>2, <2>3, <2>4, <2>5, <3>1, <3>2 DEF Alone
  <2> QED
    BY <1>0, <2>3, <2>6, AloneStep
<1>3. CASE UpdateCertificate(q)
  <2> DEFINE n == task[q].cert
             row == [bundle |-> task[q].bundle, active |-> TRUE, due |-> FALSE, failures |-> 0]
  <2>1. /\ task[q].bundle \in Bundle /\ n \in CertId /\ n \in 1..Len(certs) /\ task[q].at = "kept"
    BY <1>0, <1>3, Numbers, Current DEF UpdateCertificate, Shape
  <2>2. row \in Certificate /\ row.bundle = task[q].bundle
    BY <2>1 DEF Certificate
  <2>3. /\ certs' = [certs EXCEPT ![n] = row] /\ newest' = n
        /\ previous' = [previous EXCEPT ![n] = certs[n].bundle]
        /\ UNCHANGED <<history, onHost, install, queue>>
    BY <1>3 DEF UpdateCertificate
  <2>4. PICK t \in {TaskEnded(q), [task[q] EXCEPT !.at = "bind"]} :
            task' = [task EXCEPT ![q] = t] /\ (q = Worker => t = TaskEnded(q))
    <3>1. CASE q = Worker
      BY <1>3, <3>1, EndedType DEF UpdateCertificate
    <3>2. CASE q # Worker
      BY <1>3, <3>2 DEF UpdateCertificate
    <3> QED
      BY <3>1, <3>2
  <2>5. t.at \in {"idle", "over", "bind"} /\ (q = Worker => t.at = "idle")
    <3>1. TaskEnded(q).at \in {"idle", "over"} /\ (q = Worker => TaskEnded(q).at = "idle")
      BY EndedType, Values DEF TaskEnded
    <3>2. [task[q] EXCEPT !.at = "bind"].at = "bind"
      BY <1>0 DEF Task
    <3> QED
      BY <2>4, <3>1, <3>2
  <2>6. task'[q] = t
    BY <1>0, <2>4
  <2> HIDE DEF row, n
  <2>7. certs'[n] = row /\ \A m \in 1..Len(certs) : m # n => certs'[m] = certs[m]
    BY <1>0, <2>1, <2>2, <2>3, ExceptSeq
  <2>8. previous'[n] = certs[n].bundle /\ \A m \in CertId : m # n => previous'[m] = previous[m]
    BY <1>0, <2>1, <2>3
  <2>9. \A m \in CertId : Kept(m)'
    <3>1. history[n] # <<>> /\ Last(history[n]) = certs[n].bundle
      BY <2>1 DEF Alone, n
    <3>2. \A m \in CertId : m # n => Kept(m)
      BY DEF Alone, n
    <3> QED
      BY <2>3, <2>8, <3>1, <3>2 DEF Kept
  <2>10. CopiesFit'
    <3>1. \A copy \in queue : copy.cert # n
      BY <2>1 DEF Alone, n
    <3> QED
      BY <1>0, <2>3, <2>7, <3>1 DEF Alone, CopiesFit
  <2>11. Settled'
    BY <2>1, <2>2, <2>3, <2>7 DEF Settled, Alone
  <2>12. install'[q].at \notin {"sent", "half", "acme", "acme half"}
    BY <2>1, <2>3 DEF Alone
  <2>13. \A copy \in queue' : t.at = "idle"
    BY <1>0, <2>3, <2>5
  <2>14. Alone(q)'
    BY <2>5, <2>6, <2>9, <2>10, <2>11, <2>12, <2>13 DEF Alone
  <2> QED
    BY <1>0, <2>3, <2>4, <2>14, AloneStep
<1>4. CASE RevertCertificate(q)
  <2> DEFINE n == task[q].cert
             row == [certs[n] EXCEPT !.bundle = task[q].bundle, !.active = TRUE]
  <2>1. /\ n \in CertId /\ n \in 1..Len(certs) /\ task[q].at = "installed" /\ q # Worker
        /\ task[q].bundle \in Bundle
    BY <1>0, <1>4, Numbers, Current DEF RevertCertificate, Shape
  <2>2. row \in Certificate /\ row.bundle = task[q].bundle
    <3>1. certs[n] \in Certificate
      BY <1>0, <2>1, ElementOfSeq
    <3> QED
      BY <2>1, <3>1 DEF Certificate
  <2>3. /\ certs' = [certs EXCEPT ![n] = row] /\ newest' = n /\ queue = {}
        /\ task' = [task EXCEPT ![q] = TaskEnded(q)]
        /\ UNCHANGED <<history, onHost, install, queue, previous>>
    BY <1>0, <1>4, <2>1, EndedType DEF RevertCertificate
  <2> HIDE DEF row, n
  <2>4. certs'[n] = row
    BY <1>0, <2>1, <2>2, <2>3, ExceptSeq
  <2>5. task'[q].at \in {"idle", "over"}
    BY <1>0, <2>3, EndedType
  <2>6. Alone(q)'
    BY <2>1, <2>2, <2>3, <2>4, <2>5 DEF Alone, Settled, Kept, CopiesFit
  <2> QED
    BY <1>0, <2>3, <2>6, AloneStep
<1> QED
  BY <1>1, <1>2, <1>3, <1>4

\* A step of a request that is alone, and does not touch the certificate.
LEMMA AloneElsewhere ==
    ASSUME CertTypeInv, NEW q \in Actor, Alone(q), \A p \in Actor \ {q} : Away(p),
           NEW t, NEW a, task' = [task EXCEPT ![q] = t], install' = [install EXCEPT ![q] = a],
           task[q].at \notin {"acme", "installing", "installed", "kept"},
           t.at \in {"idle", "over", "issuing", "configuring", "exposed"},
           t.at = "issuing" /\ t.cert # 0 => t.old = certs'[t.cert].bundle,
           \/ t.at = "idle" \/ q # Worker
           \/ task[q].at # "idle" /\ t.cert = task[q].cert,
           a.at \notin {"sent", "half", "acme", "acme half"},
           \A n \in 1..Len(certs) : certs'[n].bundle = certs[n].bundle,
           onHost'.cert = onHost.cert, onHost'.key = onHost.key,
           UNCHANGED <<history, queue, newest, previous>>
    PROVE  HostInv'
<1>0. /\ task \in [Actor -> Task] /\ install \in [Actor -> Install]
      /\ task[q] \in Task
  BY DEF CertTypeInv, CertificatesTypeOK
<1>1. task'[q] = t /\ install'[q] = a
  BY <1>0
<1>2. \A n \in Nat : n # 0 /\ n <= Len(certs) => certs'[n].bundle = certs[n].bundle
  BY TableFacts
<1>3. newest \in Nat /\ newest <= Len(certs)
  BY Numbers DEF CertTypeInv, CertificatesTypeOK, RefsInv
<1>4. \A copy \in queue : copy.cert \in Nat /\ copy.cert # 0 /\ copy.cert <= Len(certs)
  <2>1. queue \in SUBSET Copy /\ \A copy \in queue : copy.cert <= Len(certs)
    BY DEF CertTypeInv, CertificatesTypeOK, RefsInv
  <2>2. \A copy \in queue : copy.cert \in CertId
    BY <2>1 DEF Copy
  <2> QED
    BY <2>1, <2>2, Numbers
<1>5. Settled'
  BY <1>2, <1>3 DEF Alone, Settled
<1>6. CopiesFit'
  BY <1>2, <1>4 DEF Alone, CopiesFit
<1>7. \A n \in CertId : Kept(n)'
  BY DEF Alone, Kept
<1>8. \A copy \in queue' : t.at # "idle" => copy.cert # t.cert
  BY Values DEF Away, Alone
<1>9. Alone(q)'
  BY <1>1, <1>5, <1>6, <1>7, <1>8 DEF Alone
<1> QED
  BY <1>0, <1>9, AloneStep

\* The other steps of a request that is alone: about its binding, and the proxy.
LEMMA HostElsewhere ==
    ASSUME CertTypeInv, NEW q \in Actor, Alone(q), \A p \in Actor \ {q} : Away(p),
           \/ q \in Job /\ (InsertBinding(q) \/ InsertToExpose(q))
           \/ Bind(q) \/ WriteProxy(q) \/ ProxyFails(q) \/ Exposed(q) \/ JobFails(q)
    PROVE  HostInv'
<1>0. /\ task \in [Actor -> Task] /\ install \in [Actor -> Install]
      /\ onHost \in [cert : 0..MaxBundles, key : 0..MaxBundles, certbot : 0..MaxBundles]
      /\ task[q] \in Task /\ Shape(q, task[q])
      /\ install = [install EXCEPT ![q] = install[q]]
      /\ task = [task EXCEPT ![q] = task[q]]
      /\ \A at \in {"issuing", "over", "exposed"} :
            /\ [task[q] EXCEPT !.at = at].at = at
            /\ [task[q] EXCEPT !.at = at].cert = task[q].cert
            /\ [task[q] EXCEPT !.at = at].old = task[q].old
  <2>1. task[q] \in Task /\ Shape(q, task[q])
    BY Current
  <2> QED
    BY <2>1 DEF CertTypeInv, CertificatesTypeOK, Task
<1>1. /\ TaskEnded(q).at \in {"idle", "over"} /\ (TaskEnded(q).at = "idle" \/ q # Worker)
      /\ NoInstall.at = "none"
  BY EndedType, Values DEF TaskEnded
<1>2. task[q].at \notin {"acme", "installing"} => install[q].at \notin {"sent", "half", "acme", "acme half"}
  BY DEF Alone
<1>3. task[q].op = "expose" /\ task[q].at # "idle" =>
          task[q].of \in Job /\ q # Worker /\ Configuring(task[q].of).at = "configuring"
  BY <1>0, UnusedAt DEF Shape
<1>4. CASE q \in Job /\ (InsertBinding(q) \/ InsertToExpose(q))
  <2>0. /\ task[q].at = "checked" /\ q # Worker
        /\ UNCHANGED <<certs, history, onHost, queue, newest, previous>>
    BY <1>4, Values DEF InsertBinding, InsertToExpose, pastVars
  <2>1. task[q].cert # 0 => task[q].old = certs[task[q].cert].bundle
    BY <1>0, <2>0 DEF Alone, Shape
  <2>2. CASE InsertBinding(q)
    <3>1. PICK at \in {"issuing", "over"} : task' = [task EXCEPT ![q] = [task[q] EXCEPT !.at = at]]
      BY <2>2 DEF InsertBinding
    <3> DEFINE t == [task[q] EXCEPT !.at = at]
    <3>2. t.at = at /\ t.cert = task[q].cert /\ t.old = task[q].old
      BY <1>0
    <3>3. install' = [install EXCEPT ![q] = install[q]]
      BY <1>0, <2>2 DEF InsertBinding
    <3> HIDE DEF t
    <3>4. task' = [task EXCEPT ![q] = t]
      BY <3>1 DEF t
    <3> QED
      BY <1>2, <2>0, <2>1, <3>2, <3>3, <3>4, AloneElsewhere
  <2>3. CASE InsertToExpose(q)
    <3> DEFINE t == [task[q] EXCEPT !.at = "issuing"]
               a == [at |-> "proxy", bundle |-> 0]
    <3>1. t.at = "issuing" /\ t.cert = task[q].cert /\ t.old = task[q].old /\ a.at = "proxy"
      BY <1>0
    <3>2. task[q].op = "expose"
      BY <2>3 DEF InsertToExpose
    <3>3. \/ task' = [task EXCEPT ![q] = t] /\ install' = [install EXCEPT ![q] = install[q]]
          \/ /\ task' = [task EXCEPT ![q] = Configuring(task[q].of)]
             /\ install' = [install EXCEPT ![q] = a]
      BY <1>0, <2>3 DEF InsertToExpose, Configures, AsksToConfigure
    <3> HIDE DEF t, a
    <3>4. CASE task' = [task EXCEPT ![q] = t] /\ install' = [install EXCEPT ![q] = install[q]]
      BY <1>2, <2>0, <2>1, <3>1, <3>4, AloneElsewhere
    <3>5. CASE /\ task' = [task EXCEPT ![q] = Configuring(task[q].of)]
               /\ install' = [install EXCEPT ![q] = a]
      BY <1>3, <2>0, <3>1, <3>2, <3>5, AloneElsewhere
    <3> QED
      BY <3>3, <3>4, <3>5
  <2> QED
    BY <1>4, <2>2, <2>3
<1>5. CASE Bind(q)
  <2>1. task[q].at = "bind" /\ UNCHANGED <<certs, history, onHost, queue, newest, previous>>
    BY <1>5 DEF Bind, pastVars
  <2>2. CASE task[q].op = "expose"
    <3> DEFINE a == [at |-> "proxy", bundle |-> 0]
    <3>1. a.at = "proxy"
      OBVIOUS
    <3>2. /\ task' = [task EXCEPT ![q] = Configuring(task[q].of)]
          /\ install' = [install EXCEPT ![q] = a]
      BY <1>5, <2>2 DEF Bind, Configures, AsksToConfigure
    <3> HIDE DEF a
    <3> QED
      BY <1>2, <1>3, <2>1, <2>2, <3>1, <3>2, AloneElsewhere
  <2>3. CASE task[q].op # "expose"
    <3>1. /\ task' = [task EXCEPT ![q] = TaskEnded(q)]
          /\ install' = [install EXCEPT ![q] = install[q]]
      BY <1>0, <1>5, <2>3, EndedType DEF Bind
    <3> QED
      BY <1>1, <1>2, <2>1, <3>1, AloneElsewhere
  <2> QED
    BY <2>2, <2>3
<1>6. CASE WriteProxy(q)
  <2>1. /\ install[q].at = "proxy"
        /\ onHost'.cert = onHost.cert /\ onHost'.key = onHost.key
        /\ install' = [install EXCEPT ![q] = NoInstall]
        /\ UNCHANGED <<certs, history, queue, newest, previous>>
    BY <1>0, <1>6 DEF WriteProxy, rowVars, pastVars
  <2>2. CASE task[q].at = "configuring"
    <3>1. task' = [task EXCEPT ![q] = [task[q] EXCEPT !.at = "exposed"]]
      BY <1>6, <2>2 DEF WriteProxy
    <3> DEFINE t == [task[q] EXCEPT !.at = "exposed"]
    <3>2. t.at = "exposed" /\ t.cert = task[q].cert
      BY <1>0
    <3> HIDE DEF t
    <3>3. task' = [task EXCEPT ![q] = t]
      BY <3>1 DEF t
    <3> QED
      BY <1>1, <2>1, <2>2, <3>2, <3>3, AloneElsewhere
  <2>3. CASE task[q].at # "configuring"
    <3>1. UNCHANGED task
      BY <1>6, <2>3 DEF WriteProxy
    <3>2. install'[q].at = "none"
      BY <1>0, <1>1, <2>1
    <3>3. Alone(q)'
      BY <2>1, <3>1, <3>2 DEF Alone, Settled, Kept, CopiesFit
    <3> QED
      BY <1>0, <2>1, <3>1, <3>3, AloneStep
  <2> QED
    BY <2>2, <2>3
<1>7. CASE ProxyFails(q)
  <2>1. /\ task[q].at = "configuring" /\ task' = [task EXCEPT ![q] = TaskEnded(q)]
        /\ UNCHANGED <<certs, history, onHost, queue, newest, previous>>
        /\ \/ install' = [install EXCEPT ![q] = NoInstall]
           \/ install' = [install EXCEPT ![q] = install[q]]
    BY <1>0, <1>7, EndedType DEF ProxyFails, rowVars, pastVars
  <2> QED
    BY <1>1, <1>2, <2>1, AloneElsewhere
<1>8. CASE Exposed(q)
  <2>1. /\ task[q].at = "exposed" /\ task' = [task EXCEPT ![q] = TaskEnded(q)]
        /\ UNCHANGED <<certs, history, onHost, queue, newest, previous>>
        /\ install' = [install EXCEPT ![q] = install[q]]
    BY <1>0, <1>8, EndedType DEF Exposed, pastVars
  <2> QED
    BY <1>1, <1>2, <2>1, AloneElsewhere
<1>9. CASE JobFails(q)
  <2>1. /\ task[q].at = "issuing" /\ task' = [task EXCEPT ![q] = TaskEnded(q)]
        /\ UNCHANGED <<history, onHost, queue, newest, previous>>
        /\ install' = [install EXCEPT ![q] = install[q]]
    BY <1>0, <1>9, EndedType DEF JobFails, pastVars, Alone
  <2>2. \A n \in 1..Len(certs) : certs'[n].bundle = certs[n].bundle
    <3>1. CASE q = Worker
      <4>1. certs \in Seq(Certificate) /\ Len(certs) \in Nat
        BY LenProperties DEF CertTypeInv, CertificatesTypeOK
      <4>2. certs' = [certs EXCEPT ![task[q].cert].active = FALSE, ![task[q].cert].due = FALSE,
                                   ![task[q].cert].failures = task[q].failures + 1]
        BY <1>9, <3>1 DEF JobFails
      <4> DEFINE n == task[q].cert
                 f == task[q].failures + 1
                 row == [certs[n] EXCEPT !.active = FALSE, !.due = FALSE, !.failures = f]
      <4>3. n \in 1..Len(certs) /\ certs[n] \in Certificate /\ f \in Nat
        <5>1. n # 0 /\ task[q].failures \in Nat
          BY <1>0, <1>9, <3>1 DEF Shape, JobFails, Task
        <5> QED
          BY <4>1, <5>1, Current, ElementOfSeq
      <4> HIDE DEF f
      <4>4. row \in Certificate /\ row.bundle = certs[n].bundle
        BY <4>3 DEF Certificate
      <4>5. certs' = [certs EXCEPT ![n] = row]
        BY <4>2 DEF f
      <4> HIDE DEF n, row
      <4> QED
        BY <4>1, <4>3, <4>4, <4>5, ExceptSeq
    <3>2. CASE q # Worker
      BY <1>9, <3>2 DEF JobFails
    <3> QED
      BY <3>1, <3>2
  <2> QED
    BY <1>1, <1>2, <2>1, <2>2, AloneElsewhere
<1> QED
  BY <1>4, <1>5, <1>6, <1>7, <1>8, <1>9

\* A step that touches none of it.
LEMMA HostSame ==
    ASSUME HostInv,
           UNCHANGED <<certs, history, onHost, task, install, queue, newest, previous, blemish>>
    PROVE  HostInv'
<1>1. \A p \in Actor : Away(p)' <=> Away(p)
  BY DEF Away
<1>2. (Settled' <=> Settled) /\ (CopiesFit' <=> CopiesFit) /\ \A n \in CertId : Kept(n)' <=> Kept(n)
  BY DEF Settled, CopiesFit, Kept
<1>3. ASSUME NEW q \in Actor, Alone(q) PROVE Alone(q)'
  <2>1. Settled => Settled'
    BY <1>2
  <2>2. CopiesFit' /\ \A n \in CertId : Kept(n) => Kept(n)'
    BY <1>2, <1>3 DEF Alone
  <2> QED
    BY <1>3, <2>1, <2>2, ZenonT(60) DEF Alone
<1> QED
  BY <1>1, <1>3 DEF HostInv

\* What the world does to the host and the rows.
LEMMA HostWorld ==
    ASSUME CertTypeInv, HostInv, blemish' = {},
           \/ \E b \in Job : DeleteDomain(b)
           \/ \E n \in 1..Len(certs) : BecomesDue(n)
           \/ CertificatesDie \/ InstallsDie
    PROVE  HostInv'
<1>0. /\ task \in [Actor -> Task] /\ install \in [Actor -> Install]
      /\ certs \in Seq(Certificate) /\ Len(certs) \in Nat
  BY LenProperties DEF CertTypeInv, CertificatesTypeOK
<1>1. CASE \E b \in Job : DeleteDomain(b)
  BY <1>1, HostSame DEF DeleteDomain, pastVars
<1>2. ASSUME NEW n \in 1..Len(certs), BecomesDue(n) PROVE HostInv'
  <2> DEFINE row == [certs[n] EXCEPT !.due = TRUE]
  <2>1. row \in Certificate /\ row.bundle = certs[n].bundle
    <3>1. certs[n] \in Certificate
      BY <1>0, ElementOfSeq
    <3> QED
      BY <3>1 DEF Certificate
  <2>2. certs' = [certs EXCEPT ![n] = row]
        /\ UNCHANGED <<history, onHost, task, install, queue, newest, previous, blemish>>
    BY <1>2 DEF BecomesDue, pastVars
  <2> HIDE DEF row
  <2>3. \A m \in 1..Len(certs) : certs'[m].bundle = certs[m].bundle
    BY <1>0, <2>1, <2>2, ExceptSeq
  <2>4. \A m \in Nat : m # 0 /\ m <= Len(certs) => certs'[m].bundle = certs[m].bundle
    BY <2>3, TableFacts
  <2>5. newest \in Nat /\ newest <= Len(certs)
    BY Numbers DEF CertTypeInv, CertificatesTypeOK, RefsInv
  <2>6. \A copy \in queue : copy.cert \in Nat /\ copy.cert # 0 /\ copy.cert <= Len(certs)
    BY Numbers DEF CertTypeInv, CertificatesTypeOK, RefsInv, Copy
  <2>7. \A q \in Actor : task[q].cert \in Nat /\ task[q].cert <= Len(certs)
    BY Current
  <2>8. PICK q \in Actor : Alone(q) /\ \A p \in Actor \ {q} : Away(p)
    BY <2>2 DEF HostInv
  <2>9. task[q].at = "kept" => task[q].cert # 0
    BY Current DEF Shape
  <2>10. Settled => Settled'
    BY <2>2, <2>4, <2>5 DEF Settled
  <2>11. CopiesFit'
    BY <2>2, <2>4, <2>6, <2>8 DEF Alone, CopiesFit
  <2>12. \A m \in CertId : Kept(m) => Kept(m)'
    BY <2>2 DEF Kept
  <2>13. task[q].cert # 0 => certs'[task[q].cert].bundle = certs[task[q].cert].bundle
    BY <2>4, <2>7
  <2>14. Alone(q)'
    BY <2>2, <2>8, <2>9, <2>10, <2>11, <2>12, <2>13 DEF Alone
  <2> QED
    BY <2>2, <2>8, <2>14, AloneStep
<1>3. CASE CertificatesDie
  BY <1>3 DEF CertificatesDie
<1>4. CASE InstallsDie
  <2>1. /\ \A q \in Actor : install[q].at \notin {"sent", "half", "acme", "acme half"} /\ install'[q].at = "none"
        /\ UNCHANGED <<certs, history, onHost, task, queue, newest, previous>>
        /\ blemish = {}
    BY <1>4, Values DEF InstallsDie, rowVars, pastVars
  <2>2. PICK q \in Actor : Alone(q) /\ \A p \in Actor \ {q} : Away(p)
    BY <2>1 DEF HostInv
  <2>3. \A p \in Actor \ {q} : Away(p)'
    BY <2>1, <2>2 DEF Away
  <2>4. Alone(q)'
    BY <2>1, <2>2 DEF Alone, Settled, Kept, CopiesFit
  <2> QED
    BY <2>3, <2>4 DEF HostInv
<1> QED
  BY <1>1, <1>2, <1>3, <1>4

LEMMA HostStep ==
    ASSUME CertTypeInv, HostInv, [CertificatesNext]_certVars PROVE HostInv'
<1>1. CASE UNCHANGED certVars
  BY <1>1, HostSame DEF certVars
<1>2. CASE blemish' # {}
  BY <1>2 DEF HostInv
<1>3. CASE CertificatesNext /\ blemish' = {}
  <2>1. CertTypeInv'
    BY CertStepType
  <2>2. ASSUME NEW q \in Actor,
               \/ Issue(q) \/ AcmeIssue(q) \/ AcmeInstallKey(q) \/ AcmeInstallCertificate(q)
               \/ InstallCertificate(q) \/ InstallKey(q)
               \/ StoreCertificate(q) \/ KeepOldBundle(q) \/ UpdateCertificate(q)
               \/ RevertCertificate(q)
               \/ q \in Job /\ (InsertBinding(q) \/ InsertToExpose(q))
               \/ Bind(q) \/ WriteProxy(q) \/ ProxyFails(q) \/ Exposed(q) \/ JobFails(q)
        PROVE  HostInv'
    <3>1. blemish = {}
      BY <1>3, <2>2 DEF Issue, AcmeIssue, AcmeInstallKey, AcmeInstallCertificate,
                        InstallCertificate, InstallKey, StoreCertificate, KeepOldBundle,
                        UpdateCertificate, RevertCertificate, InsertBinding, InsertToExpose,
                        Bind, WriteProxy, ProxyFails, Exposed, JobFails, pastVars
    <3>2. task[q].at \notin {"idle", "over"} \/ install[q].at # "none"
      BY <2>2 DEF Issue, AcmeIssue, AcmeInstallKey, AcmeInstallCertificate,
                  InstallCertificate, InstallKey, StoreCertificate, KeepOldBundle,
                  UpdateCertificate, RevertCertificate, InsertBinding, InsertToExpose,
                  Bind, WriteProxy, ProxyFails, Exposed, JobFails
    <3>3. Alone(q) /\ \A p \in Actor \ {q} : Away(p)
      BY <3>1, <3>2 DEF HostInv, Away
    <3> QED
      BY <2>1, <2>2, <3>3, HostInstalls, HostWrites, HostElsewhere
  <2>3. ASSUME NEW q \in Actor, InstallFails(q) PROVE FALSE
    BY <1>3, <2>3 DEF InstallFails
  <2> QED
    BY <1>3, <2>2, <2>3, Values, HostBegins, HostWorker, HostWorld DEF CertificatesNext
<1> QED
  BY <1>1, <1>2, <1>3

\* When nobody is at the domain, the host has the bundle of the row that was written last.
THEOREM HostHasTheRowAlways == CertificatesSpec => []HostHasTheRow
<1>1. ASSUME CertTypeInv, HostInv PROVE HostHasTheRow
  <2> SUFFICES ASSUME Busy = {}, blemish = {}, newest # 0
               PROVE  onHost.cert = certs[newest].bundle /\ onHost.key = certs[newest].bundle
    BY DEF HostHasTheRow
  <2>1. PICK q \in Actor : Alone(q)
    BY <1>1 DEF HostInv
  <2>2. task[q].at \in {"idle", "over"}
    BY DEF Busy
  <2> QED
    BY <2>1, <2>2 DEF Alone, Settled
<1> QED
  BY <1>1, CertInitType, CertStepType, HostInit, HostStep, PTL DEF CertificatesSpec

\* The newest bundle of the history is what the certificate had before its newest renewal.
THEOREM HistoryHasPreviousAlways == CertificatesSpec => []HistoryHasPrevious
<1>1. ASSUME CertTypeInv, HostInv PROVE HistoryHasPrevious
  <2> SUFFICES ASSUME blemish = {}, NEW n \in 1..Len(certs),
                      \A q \in Actor : task[q].at # "kept" \/ task[q].cert # n
               PROVE  Kept(n)
    BY DEF HistoryHasPrevious, Kept
  <2>1. PICK q \in Actor : Alone(q)
    BY <1>1 DEF HostInv
  <2>2. n \in CertId
    <3>1. n \in Nat /\ n # 0 /\ n <= Len(certs)
      BY <1>1, LenProperties DEF CertTypeInv, CertificatesTypeOK
    <3> QED
      BY <1>1, <3>1, TableFacts
  <2> QED
    BY <2>1, <2>2 DEF Alone
<1> QED
  BY <1>1, CertInitType, CertStepType, HostInit, HostStep, PTL DEF CertificatesSpec
=============================================================================
