------------------------------ MODULE SiteHub ------------------------------
(***************************************************************************)
(* The hub's side of the pages: who is subscribed to what.  A subscription *)
(* is kept twice, in a map of the hub (metricSubscribers,                  *)
(* deploySubscribers, runbookSubscribers) and in a set of the SiteClient,  *)
(* which RemoveSite reads to find what it must leave.  The three kinds of  *)
(* topic are handled by the same code over different maps.                 *)
(*                                                                         *)
(* This module has the state and the steps of the pages' goroutines; the   *)
(* module that extends it says what is broadcast.                          *)
(***************************************************************************)
EXTENDS FiniteSets

CONSTANTS
    Site,    \* websocket connections of pages, one goroutine each
    Topic    \* what can be subscribed to: servers, deploys, runbook executions

VARIABLES
    site,    \* the goroutine of a page: in its read loop, at a checked topic, or gone
    subs,    \* the hub's map of the subscribers of a topic
    mirror   \* the topics of a page, in its SiteClient

siteVars == <<site, subs, mirror>>

\* Where the goroutine of a page is.
InLoop     == [at |-> "loop"]
Checked(t) == [at |-> "checked", topic |-> t]
Gone       == [at |-> "gone"]

SiteTypeOK ==
    /\ site \in [Site -> {InLoop, Gone} \cup {Checked(t) : t \in Topic}]
    /\ subs \in [Topic -> SUBSET Site]
    /\ mirror \in [Site -> SUBSET Topic]

SiteInit ==
    /\ site = [i \in Site |-> InLoop]
    /\ subs = [t \in Topic |-> {}]
    /\ mirror = [i \in Site |-> {}]

-----------------------------------------------------------------------------
\* subscribe_...: the page's goroutine first asks the database whether the topic is there and
\* belongs to the user ...
CheckTopic(i, t) ==
    /\ site[i] = InLoop
    /\ site' = [site EXCEPT ![i] = Checked(t)]
    /\ UNCHANGED <<subs, mirror>>

\* ... and then enters both maps, in one critical section, whatever became of the topic.
Subscribe(i, t) ==
    /\ site[i] = Checked(t)
    /\ subs' = [subs EXCEPT ![t] = @ \cup {i}]
    /\ mirror' = [mirror EXCEPT ![i] = @ \cup {t}]
    /\ site' = [site EXCEPT ![i] = InLoop]

\* unsubscribe_...: without a question.
Unsubscribe(i, t) ==
    /\ site[i] = InLoop
    /\ subs' = [subs EXCEPT ![t] = @ \ {i}]
    /\ mirror' = [mirror EXCEPT ![i] = @ \ {t}]
    /\ UNCHANGED site

\* A wrong variant: the subscribers of the last kind of topic are forgotten.
RemoveSiteHalf(i) ==
    /\ site[i] = InLoop
    /\ mirror' = [mirror EXCEPT ![i] = {}]
    /\ site' = [site EXCEPT ![i] = Gone]
    /\ UNCHANGED subs

\* The connection ends: ReadMessage fails and the deferred RemoveSite leaves what the
\* SiteClient says it is subscribed to.
RemoveSite(i) ==
    /\ site[i] = InLoop
    /\ subs' = [t \in Topic |-> IF t \in mirror[i] THEN subs[t] \ {i} ELSE subs[t]]
    /\ mirror' = [mirror EXCEPT ![i] = {}]
    /\ site' = [site EXCEPT ![i] = Gone]

\* The backend process ends, and the pages' connections with it.
SitesDie ==
    /\ site' = [i \in Site |-> Gone]
    /\ subs' = [t \in Topic |-> {}]
    /\ mirror' = [i \in Site |-> {}]

-----------------------------------------------------------------------------
(* Properties *)

\* The hub and the page tell the same story at every unlock of Hub.mu, and a page that is
\* gone is in no map: RemoveSite finds every subscription through the page's own set, and
\* one it missed would be broadcast to for the life of the process (hub.go:460-480, 649-665).
SubscribersAgree ==
    \A i \in Site : \A t \in Topic :
        /\ i \in subs[t] <=> t \in mirror[i]
        /\ i \in subs[t] => site[i] # Gone

=============================================================================
