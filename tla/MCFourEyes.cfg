CONSTANTS
    o1 = o1
    o2 = o2
    c1 = c1
    c2 = c2
    ann = ann
    bob = bob
    cyd = cyd
    dan = dan
    i1 = i1
    i2 = i2
    mk1 = mk1
    mk2 = mk2
    ap1 = ap1
    ap2 = ap2
    ap3 = ap3
    rj = rj
    ex1 = ex1
    ex2 = ex2
    su = su
    rp1 = rp1
    rp2 = rp2
    None = None
    Orders = {o1}
    Balance <- MCBalance
    Stock = 0
    Cases = {c1}
    Owner <- MCOwner
    Users = {ann, bob, cyd, dan}
    Admins = {ann, bob, cyd, dan}
    Plans <- FourEyes
    Opening <- MCOpening
    ActionIds = {i1}
    Requests = {mk1, ap1, ap2, ap3, ex1}
    Kind <- MCKind
    Tools = {}
    Versions = {1, 2, 3}
    TTL = 1
    MaxTime = 0
    MaxFaults = 0
SPECIFICATION Spec
SYMMETRY MCSymmetry
INVARIANTS
    MovedWasSigned
