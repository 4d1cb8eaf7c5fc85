\* Two applications at each of the drivers, one after the other; priorities on
\* both sides of the bounds, and up to two WDFDEVICE_INITs.
SPECIFICATION FairSpecAll
CONSTANTS
    Clients = {c1, c2}
    Threads = {t1}
    Priorities = {0, 31, 32}
    NoThread = NoThread
    Devices = {d1, d2}
    NoDevice = NoDevice
    MaxInits = 2
INVARIANT AllOrNothing
INVARIANT CallbacksPrepared
INVARIANT RequestsOwned
INVARIANT ThreadsReferenced
PROPERTY SetsCheckedPriority
PROPERTY RequestsComplete
PROPERTY StopsEnd
\* An application whose request is lost waits for ever, and in safe mode
\* nothing happens.
CHECK_DEADLOCK FALSE
