SPECIFICATION Spec
CONSTANTS
    Thread = {t1, t2}
    Key = {k1, k2, k3}
    Row = {r1, r2}
    Token = {cloudflare}
    NoKey = NoKey
    Absent = Absent
    MaxSecrets = 4
    MaxDisables = 1
    MaxRestarts = 1
SYMMETRY Interchangeable
INVARIANTS NeverPlain
