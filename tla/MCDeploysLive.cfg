\* Create and stop of one deploy, with log lines, a reconnection and the end of a process.
CONSTANTS
    d1 = d1
    d10 = d10
    create = create
    create10 = create10
    redeploy = redeploy
    stop = stop
    delete = delete
    NoRun = NoRun
    Deploy = {d1}
    Op = {create, stop}
    KindOf <- ScenarioKindOf
    DeployOf <- ScenarioDeployOf
    Lookalike <- NoLookalike
    MaxLogs = 1
    MaxLinks = 2
    MaxCrashes = 1
SPECIFICATION FairSpec
INVARIANT HonestAtRest
PROPERTY RunReported
CHECK_DEADLOCK FALSE
