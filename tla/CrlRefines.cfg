SPECIFICATION HistorySpec
CONSTANTS
    c1 = c1
    c2 = c2
    Thread = {t1}
    Renewer = renewer
    Cert = {c1, c2}
    Dp <- BothDp
    NoCrl = NoCrl
    WorkerDeployed = TRUE
    Encrypted = TRUE
    MaxRestarts = 0
INVARIANTS
    TypeOK
    NothingInvented
    OwnRevocationsPublished
PROPERTIES
    ServerKeepsPromise
    WorkerKeepsPromise
