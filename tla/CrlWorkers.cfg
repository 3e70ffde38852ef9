SPECIFICATION Spec
CONSTANTS
    Admin = {admin}
    Publisher = {publisher}
    Ca = {ca1, ca2}
    Account = {a1, a2}
    Script = {s1, s2, s3}
    Domain = {d1}
    None = None
    MaxRestarts = 1
SYMMETRY Interchangeable
INVARIANTS TypeOK AddressesStayGood
PROPERTY AccountKept
CHECK_DEADLOCK FALSE
