\* Two controllers that open, replace and close sessions at the same time, the
\* driver that loads, fails and unloads, and packets on two processors.
SPECIFICATION FairSpecAll
CONSTANTS
    Calls = {t1, t2}
    Ports = {p1}
    Processes = {a, b}
    Refusable = {"OutboundTCP"}
    NoPort = NoPort
    NoProcess = NoProcess
    Controllers = {a, b}
    Sessions = {s1, s2}
    NoOwner = NoOwner
    UsedCallouts = {"OutboundTCP"}
PROPERTY OneContextAtATime
PROPERTY CloseEndsWatching
PROPERTY UnloadCompletes
