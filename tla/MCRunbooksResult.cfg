\* A result that is handled before the request that started the run gives up.
CONSTANTS
    x1 = x1
    x2 = x2
    i1 = i1
    d1 = d1
    Topic = {x1}
    Site = {}
    Edit = {}
    MaxLines = 0
    MaxLinks = 1
    MaxCrashes = 0
SPECIFICATION Spec
PROPERTY ResultIsTerminal
CHECK_DEADLOCK FALSE
