SPECIFICATION Spec
CONSTANTS
    owner = owner
    guest = guest
    n1 = n1
    n2 = n2
    m1 = m1
    Clients = {owner, guest}
    NoClient = NoClient
    Connections = {n1, n2}
    Commands = {m1}
    Version <- Plain
    Digests = {1, 2}
    Window = 0
    Retention = 0
    MaxAttempts = 1
    MaxOffers = 2
    MaxTime = 1
    MaxFaults = 1
SYMMETRY ConnectionSymmetry
INVARIANTS
    TypeOK
    LiveIsEnabled
    AtMostOnce
    OneAnswer
    GuessesBounded
PROPERTIES
    PairedThroughOpenGate
CHECK_DEADLOCK FALSE
