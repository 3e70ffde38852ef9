SPECIFICATION LookupsSpec
CONSTANTS
    n1 = n1
    n2 = n2
    other = other
    Thread = {t1}
    Reader = {r1}
    Name = {n1, n2}
    Days = {2}
    Foreign <- OtherInstallation
    MaxMade = 3
    MaxNow = 3
    MaxRestores = 1
SYMMETRY Interchangeable
INVARIANTS LookupsTypeOK ChainsHold AddressKeepsCa ListsComplete BackupRestores ExportsHold RevokedStaysRevoked
CHECK_DEADLOCK FALSE
