CONSTANTS
    i1 = i1
    v1 = v1
    NoSession = NoSession
    Site = {i1}
    Server = {v1}
    Session = {"s1", "s2"}
    OpenerOf <- MCOpenerOf
    ServerOf <- MCServerOf
    MaxLinks = 3
    MaxCrashes = 1
SPECIFICATION FairSpec
INVARIANTS TypeOK MapsAgree RoutedIsListed NoOrphan
PROPERTY ClosedShellEnds
\* All pages are closed and the agent is out of connections.
CHECK_DEADLOCK FALSE
