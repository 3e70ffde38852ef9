SPECIFICATION Spec
CONSTANTS
    Thread = {t1, t2}
    Collector = collector
    Code = {c1, c2}
    Device = {d1, d2}
    Request = {r1}
    None = None
    Skew = 1
    Drift = 1
    Lag = 1
    MaxTime = 3
SYMMETRY Interchangeable
INVARIANTS TypeOK CodesConnectOne RunOnce
