\* Deleting a deploy while it is being built.
CONSTANTS
    d1 = d1
    d10 = d10
    create = create
    create10 = create10
    redeploy = redeploy
    stop = stop
    delete = delete
    NoRun = NoRun
    Deploy = {d1}
    Op = {create, delete}
    KindOf <- ScenarioKindOf
    DeployOf <- ScenarioDeployOf
    Lookalike <- NoLookalike
    MaxLogs = 0
    MaxLinks = 1
    MaxCrashes = 0
SPECIFICATION Spec
INVARIANT DeletedIsGone
CHECK_DEADLOCK FALSE
