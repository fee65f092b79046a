CONSTANTS
    g1 = g1
    g2 = g2
    s11 = s11
    s12 = s12
    s21 = s21
    NoStream = NoStream
    NoRoster = NoRoster
    Replicas = {g1, g2}
    Streams = {s11, s12, s21}
    ReplicaOf <- TwoOne
    Seeds = {g1}
    Nodes = {n1}
    Ledgers <- Clean
    Admins = {d1, d2}
    MaxDisturbances = 2
SPECIFICATION RunningSpec
CHECK_DEADLOCK FALSE
INVARIANTS
    LiveIsListed
PROPERTIES
    NeverBackwards
    OrdersArrive
    FullyConnected
