SPECIFICATION Spec
CONSTANTS
    Label <- Labels
    Lower <- InLower
    Valid <- DnsLabel
    Starry <- Asterisk
    Address <- OneAddress
    Network <- Networks
    Contains <- InsideBoth
    User <- Users
    Url <- Urls
    LanUrl <- LanUrls
    Day = 2
    Thread = {t1, t2}
    Request = {r1, r2}
    c1 = c1
    c2 = c2
    Cert = {c1, c2}
    Revocable <- FirstRevocable
    NoRequest = NoRequest
    NoCert = NoCert
    NoCertId = NoCertId
    Encrypted = TRUE
    KeepOption = TRUE
SYMMETRY Interchangeable
INVARIANTS TypeOK SignedOnce RowsTellTheTruth ClaimsAreHeld DisconnectRevokes
PROPERTY RequestsKeepPromise
CHECK_DEADLOCK FALSE
