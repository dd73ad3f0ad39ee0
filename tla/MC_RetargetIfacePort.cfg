CONSTANTS
    Null = Null
    Undefined = Undefined
    Syms <- MCSyms
    Kind <- MCKind
    Name <- MCName
    Members <- MCMembers
    Parent <- MCParent
    Ports <- MCPorts
    Conn <- MCConn
    Body <- MCBody
    DefKind <- MCDefKind
    Elements <- MCElements
    Entries <- MCEntries
    Valid <- MCValid
    AllowedInModport = {"Variable", "Net", "ModportPort"}
    SizeBits = 16
    MaxPathLen = 5
    Ranges <- AscendingRanges

SPECIFICATION Spec
INVARIANT RetargetMatchesReference
INVARIANT RetargetCorresponds
CHECK_DEADLOCK FALSE
