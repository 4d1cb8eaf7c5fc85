\* The checked build: two concurrent handler calls, two packets each way.
SPECIFICATION Spec
CONSTANTS
    Calls = {t1, t2}
    SendNBLs = {s1, s2}
    RcvNBLs = {r1, r2}
    PnP = PnP
    NoOwner = NoOwner
    DBG = TRUE
    Modulus = 8
SYMMETRY Symmetry
INVARIANT OneHolder
INVARIANT CountersExact
INVARIANT OnlyReturnOutlivesPackets
PROPERTY DetachLeavesNothing
PROPERTY ImplementsPassThrough
