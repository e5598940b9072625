CONSTANTS
    Publishers = {p1, p2}
    Invalid = {}
    Conns = {c0, c1, c2}
    Initial = c0
    MaxOutages = 1
    Forwards = {f1}
    Clients = {k1, k2}
    Nobody = nobody
    ErrWindow = 2
SPECIFICATION FairStreamSpec
INVARIANTS
    NoConnectionLeak
    StreamIsComplete
PROPERTIES
    InjectReturns
    BusTroubleIsShown
