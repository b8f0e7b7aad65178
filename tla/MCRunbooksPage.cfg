\* One execution, a page that watches it, a reconnection of the agent and the end of a process.
CONSTANTS
    x1 = x1
    x2 = x2
    i1 = i1
    d1 = d1
    Topic = {x1}
    Site = {i1}
    Edit = {}
    MaxLines = 1
    MaxLinks = 2
    MaxCrashes = 1
SPECIFICATION FairSpec
INVARIANTS TypeOK SubscribersAgree NothingAfterResult
PROPERTY RunEnds
CHECK_DEADLOCK FALSE
