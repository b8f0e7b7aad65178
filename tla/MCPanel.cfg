\* Each of the components of Panel, with requests that overlap, fail, time out and die;
\* of two firewall rules one can be written in more ways than one.
CONSTANTS
    k1 = k1
    k2 = k2
    q1 = q1
    q2 = q2
    q3 = q3
    q4 = q4
    j1 = j1
    j2 = j2
    w1 = w1
    Edit = {q1, q2, q3}
    Rule = {k1, k2}
    Manifold = {k2}
    Legible = {k1}
    Change = {q1, q2, q3}
    MaxAtOnce = 2
    Ask = {q1, q2, q3, q4}
    MaxSecrets = 2
    Save = {q1, q2, q3}
    MaxJobs = 2
    Job = {j1, j2}
    Worker = w1
    MaxCerts = 2
    MaxBundles = 3
    MaxBoth = 4
    MaxBusy = 2
SYMMETRY Symmetric
CONSTRAINT StillBound
SPECIFICATION Spec
INVARIANTS PanelTypeOK VersionsSound PanelMatchesHost RevokedForGood CountsUnlessRaced ExpiredIsRevoked WholeFile FileIsLastGood HostHasTheRow HistoryHasPrevious OneFailure
PROPERTIES RollbackUndoes NoLostUpdate
CHECK_DEADLOCK FALSE
