SPECIFICATION Spec
CONSTANTS
    Hosts = {h1, h2, h3}
    Garbled = Garbled
    NoAnswer = NoAnswer
    Rejected = Rejected
    MaxHops = 4
    MaxWritten = 2
SYMMETRY Symmetry
INVARIANTS
    IdentityIsOrigin
    HonestIsAnswered
CHECK_DEADLOCK FALSE
