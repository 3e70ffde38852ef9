SPECIFICATION FairSpec
CONSTANTS
    c1 = c1
    c2 = c2
    Thread = {t1}
    Renewer = renewer
    Cert = {c1}
    Dp <- OneServedDp
    NoCrl = NoCrl
    WorkerDeployed = TRUE
    Encrypted = TRUE
    MaxRestarts = 1
PROPERTIES
    RevocationReachesServedList
    RevocationReachesWorker
