CONSTANTS
    x = x
    y = y
    s1 = s1
    s2 = s2
    c1 = c1
    c2 = c2
    c3 = c3
    Client = {c1, c2, c3}
    Reader = {}
    Chain <- PairChain
    Server = {s1, s2}
    ServerOf <- PairServerOf
    Uuid = {1, 2, 3}
    KindOf <- SnapKind
    Locs <- SnapLocs
    Owner <- SnapOwner
SPECIFICATION Spec
INVARIANT LinearizableSnapshot
CHECK_DEADLOCK FALSE
