\* Safety of the hub: one server, three connections of its agent, one call.
CONSTANTS
    s1 = s1
    s2 = s2
    c1 = c1
    c2 = c2
    c3 = c3
    r1 = r1
    r2 = r2
    NoConn = NoConn
    Server = {s1}
    Conn = {c1, c2, c3}
    Request = {r1}
    ServerOf <- OneServerOf
    TargetOf <- OneTargetOf
    MaxCrashes = 0
SYMMETRY Symmetric
SPECIFICATION Spec
INVARIANTS TypeOK NoSenderBlocks NoForgottenAgent RegisteredIsServed OnlineHasHandler
CHECK_DEADLOCK FALSE
