SPECIFICATION LiveServerSpec
CONSTANTS
    us = us
    n1 = n1
    n2 = n2
    wan = wan
    Nodes = {us, n1}
    self = us
    NoPort = {}
    maxDialPeers = 1
    maxActiveDials = 1
    MaxPeers = 2
    DialRatio = 2
    MaxPendingPeers = 1
    NoDial = FALSE
    Listens = TRUE
    TrustedNodes = {}
    MayTrust = {}
    Statics = {n1}
    Removable = {n1}
    Remotes = {n1}
    Addrs = {wan}
    LAN = {}
    c1 = c1
    c2 = c2
    c3 = c3
    c4 = c4
    Conns = {c1, c2, c3}
    NoConn = NoConn
    NoNode = NoNode
    MaxStarts = 2
INVARIANTS
    StopJoins
    DialsExact
PROPERTIES
    StopReturns
    RemovePeerReturns
CHECK_DEADLOCK FALSE
