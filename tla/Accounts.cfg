SPECIFICATION Spec
CONSTANTS
    Client = {c1, c2}
    Password = {p1}
    Secret = {s1}
    Device = {d1}
    None = None
    KeyKept = TRUE
    MaxStep = 2
    MaxChanges = 2
SYMMETRY Interchangeable
INVARIANTS TypeOK SessionsEnd SessionsMatch DevicesMatch CodesUsedOnce
