\* One controller that opens a second session while the first is in use.
SPECIFICATION FairSpec
CONSTANTS
    Controllers = {c1}
    Sessions = {s1, s2}
    None = None
PROPERTY CommandsEnd
