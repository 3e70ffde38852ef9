SPECIFICATION Spec
CONSTANTS
    Client = {c1, c2}
    Password = {p1}
    Secret = {}
    Device = {}
    None = None
    KeyKept = TRUE
    MaxStep = 1
    MaxChanges = 3
SYMMETRY Interchangeable
INVARIANT EndedStaysEnded
