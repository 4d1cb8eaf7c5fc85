\* Two classify calls at once, two ports, two processes.
SPECIFICATION Spec
CONSTANTS
    Calls = {t1, t2}
    Ports = {p1, p2}
    Processes = {a, b}
    Refusable = {"OutboundIPv4", "InboundTCP"}
    NoPort = NoPort
    NoProcess = NoProcess
SYMMETRY Symmetry
INVARIANT UnloadOutcome
INVARIANT EntryOutcome
INVARIANT OnlyWatchedPortsReported
