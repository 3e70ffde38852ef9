SPECIFICATION Spec
CONSTANTS
    Thread = {t1, t2}
    Key = {k1, k2, k3, k4}
    Row = {r1, r2}
    Token = {cloudflare}
    NoKey = NoKey
    Absent = Absent
    MaxSecrets = 6
    MaxDisables = 2
    MaxRestarts = 1
SYMMETRY Interchangeable
INVARIANTS TypeOK WrapsAgree NothingLost SpentStaysSpent
