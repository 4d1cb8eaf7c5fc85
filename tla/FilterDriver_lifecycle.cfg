\* Two adapters that come and go while the driver is loaded and unloaded, with
\* fair scheduling, in the checked build.
SPECIFICATION FairSpec
CONSTANTS
    Adapters = {a1, a2}
    ListHead = ListHead
    Garbage = Garbage
    Loader = Loader
    NoOwner = NoOwner
    DBG = TRUE
INVARIANT ListIntact
INVARIANT LockUsedWhileReady
INVARIANT UnloadListEmpty
INVARIANT UnloadedCleanly
PROPERTY LoaderEnds
