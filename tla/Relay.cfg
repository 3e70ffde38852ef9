SPECIFICATION FairSpec
CONSTANTS
    p1 = p1
    Pal = {p1}
    Request = {r1}
    Sender <- OneSender
    None = None
    PerDevice = 1
    Ttl = 1
    MaxSetUps = 1
    MaxRestarts = 1
INVARIANTS TypeOK MailboxForgets KeysKnown AnswersTrue
PROPERTIES KeysCatchUp
