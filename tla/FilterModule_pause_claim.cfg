\* What the header of FilterPause says of the time after it.
SPECIFICATION Spec
CONSTANTS
    Calls = {t1, t2}
    SendNBLs = {s1}
    RcvNBLs = {r1}
    PnP = PnP
    NoOwner = NoOwner
    DBG = TRUE
    Modulus = 8
PROPERTY NoReceiveAfterPause
