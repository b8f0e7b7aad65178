----------------------------- MODULE MCDeploys -----------------------------
(* Model values for checking Deploys. *)
EXTENDS Deploys, TLC

CONSTANTS d1, d10, create, create10, redeploy, stop, delete

\* Every operation is named for its kind; create10 is the creation of the second deploy.
MCKindOf == create :> "create" @@ create10 :> "legacy" @@ redeploy :> "redeploy"
            @@ stop :> "stop" @@ delete :> "delete"
ScenarioKindOf == [o \in Op |-> MCKindOf[o]]
ScenarioDeployOf == [o \in Op |-> IF o = create10 THEN d10 ELSE d1]

NoLookalike == [d \in Deploy |-> {}]
\* deploy_10 contains deploy_1.
PrefixLookalike == [d \in Deploy |-> IF d = d1 THEN Deploy \ {d1} ELSE {}]
=============================================================================
