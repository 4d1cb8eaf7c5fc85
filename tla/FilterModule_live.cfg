\* The checked build with fair scheduling and neighbours that give back.
SPECIFICATION DrainSpec
CONSTANTS
    Calls = {t1, t2}
    SendNBLs = {s1}
    RcvNBLs = {r1}
    PnP = PnP
    NoOwner = NoOwner
    DBG = TRUE
    Modulus = 8
PROPERTY PacketsMoveOn
PROPERTY PauseEnds
