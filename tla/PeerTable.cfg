SPECIFICATION TableSpec
CONSTANTS
    PeerAddress = {a1, a2}
    Nobody = Nobody
    listener = listener
    Seeders = {s1}
    Goroutines = {listener, s1}
    Conns = {c1, c2, c3}
    MaxStarts = 2
SYMMETRY TableSymmetry
INVARIANTS
    AddressesKept
    PeersFileFresh
CHECK_DEADLOCK FALSE
