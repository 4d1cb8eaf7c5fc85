\* The README's condition for a driver that can be started again.
SPECIFICATION Spec
CONSTANTS
    Calls = {t1}
    Ports = {p1}
    Processes = {a}
    Refusable = {}
    NoPort = NoPort
    NoProcess = NoProcess
INVARIANT CalloutsUnregisteredBeforeExit
