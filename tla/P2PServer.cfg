SPECIFICATION ServerSpec
CONSTANTS
    us = us
    n1 = n1
    n2 = n2
    wan = wan
    Nodes = {us, n1, n2}
    self = us
    NoPort = {}
    maxDialPeers = 1
    maxActiveDials = 2
    MaxPeers = 2
    DialRatio = 2
    MaxPendingPeers = 2
    NoDial = FALSE
    Listens = TRUE
    TrustedNodes = {}
    MayTrust = {n2}
    Statics = {n1, n2}
    Removable = {}
    Remotes = {n1,n2}
    Addrs = {wan}
    LAN = {wan}
    c1 = c1
    c2 = c2
    c3 = c3
    c4 = c4
    Conns = {c1, c2, c3}
    NoConn = NoConn
    NoNode = NoNode
    MaxStarts = 1
INVARIANTS
    PeersExact
    BookkeepingAgrees
    PeerLimits
    SlotsConserved
    PoolSound
SYMMETRY Interchangeable
CHECK_DEADLOCK FALSE
