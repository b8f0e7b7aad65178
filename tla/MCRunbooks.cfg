\* Two executions of a runbook that is created before and deleted beside them, over one connection.
CONSTANTS
    x1 = x1
    x2 = x2
    i1 = i1
    d1 = d1
    Topic = {x1, x2}
    Site = {}
    Edit = {}
    MaxLines = 0
    MaxLinks = 1
    MaxCrashes = 0
SYMMETRY Symmetric
SPECIFICATION Spec
INVARIANTS HonestStatus PendingIsOwed LastRunExplained
CHECK_DEADLOCK FALSE
