\* The release build, without the #if DBG sections: three concurrent calls.
SPECIFICATION Spec
CONSTANTS
    Calls = {t1, t2, t3}
    SendNBLs = {s1}
    RcvNBLs = {r1}
    PnP = PnP
    NoOwner = NoOwner
    DBG = FALSE
    Modulus = 8
SYMMETRY Symmetry
INVARIANT RcvsAccounted
PROPERTY SendPathImplements
