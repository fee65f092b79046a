CONSTANTS
    a1 = a1
    a2 = a2
    n1 = n1
    n2 = n2
    NoNode = NoNode
    NoKey = NoKey
    NoToken = NoToken
    NoAgent = NoAgent
    Agents = {a1, a2}
    Nodes = {n1, n2}
    NodeOf <- OwnNames
    Owned = {n2}
    Tokens = {t1, t2}
    Keys = {1, 2, 3, 4, 5}
    Handlers = {1, 2}
    MaxDisturbances = 1
SPECIFICATION FairSpec
CHECK_DEADLOCK FALSE
INVARIANTS
    OneCertPerToken
    LetIn
    UsablePair
PROPERTIES
    DisableHolds
    KeyKept
    Enrols
