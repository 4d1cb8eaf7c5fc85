\* Two objects, two handles that are used again and again, and hosts with up to
\* two addresses; every source of up to five characters of two kinds, every
\* delimiter and replacement of up to two.
SPECIFICATION FairSpecAll
CONSTANTS
    Objects = {a, b}
    Handles = {h1, h2}
    InvalidSocket = InvalidSocket
    TTLs = {1}
    MaxAddresses = 2
    Chars = {x, y}
    MaxLength = 5
    MaxDelimiter = 2
    MaxResults = 16
INVARIANT SocketsOwned
INVARIANT TokensOfSource
INVARIANT ReplaceAgrees
PROPERTY ConnectsWithTTL
PROPERTY LoopsEnd
\* The functions return, and an empty delimiter never ends.
CHECK_DEADLOCK FALSE
