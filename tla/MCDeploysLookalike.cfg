\* Stopping deploy 1 beside deploy 10.
CONSTANTS
    d1 = d1
    d10 = d10
    create = create
    create10 = create10
    redeploy = redeploy
    stop = stop
    delete = delete
    NoRun = NoRun
    Deploy = {d1, d10}
    Op = {create, create10, stop}
    KindOf <- ScenarioKindOf
    DeployOf <- ScenarioDeployOf
    Lookalike <- PrefixLookalike
    MaxLogs = 0
    MaxLinks = 1
    MaxCrashes = 0
SPECIFICATION Spec
INVARIANT StopSparesOthers
CHECK_DEADLOCK FALSE
