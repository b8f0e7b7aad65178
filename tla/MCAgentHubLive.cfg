\* The contract of a call and its end, with a restart of the backend: two connections, one call.
CONSTANTS
    s1 = s1
    s2 = s2
    c1 = c1
    c2 = c2
    c3 = c3
    r1 = r1
    r2 = r2
    NoConn = NoConn
    Server = {s1}
    Conn = {c1, c2}
    Request = {r1}
    ServerOf <- OneServerOf
    TargetOf <- OneTargetOf
    MaxCrashes = 1
SPECIFICATION FairSpec
PROPERTIES ImplementsAgentCall EveryCallReturns HandlerFinishes
CHECK_DEADLOCK FALSE
