CONSTANTS
    x = x
    y = y
    z = z
    s1 = s1
    s2 = s2
    c1 = c1
    c2 = c2
    c3 = c3
    Client = {c1, c2, c3}
    Reader = {}
    Chain <- ThreeChain
    Server = {s1, s2}
    ServerOf <- TwoServerOf
    Uuid = {1, 2, 3}
    KindOf <- RingKind
    Locs <- RingLocs
    Owner <- ThreeOwner
SPECIFICATION LogSpec
INVARIANT PartialOrder
CHECK_DEADLOCK FALSE
