\* Two controllers that share BFE, three sessions.
SPECIFICATION Spec
CONSTANTS
    Controllers = {c1, c2}
    Sessions = {s1, s2, s3}
    None = None
SYMMETRY Symmetry
INVARIANT CloseEndsFiltering
INVARIANT AllOrExit
INVARIANT OneControllerFilters
PROPERTY OthersUntouched
PROPERTY ImplementsFilterEngine
