CONSTANTS
    MP1 = MP1
    MP2 = MP2
    MP3 = MP3
    MP4 = MP4
    Y = Y
    Z = Z
    NoConn = NoConn
    ModportPorts <- MCModportPorts
    Targets <- MCTargets
    Conn <- MCConn
    Rows = {0, 1}
    Cols = {0, 1}
    Prefixes <- FlatPrefixes

SPECIFICATION Spec
INVARIANT TypeOK
PROPERTY EventuallyPropagated
CHECK_DEADLOCK FALSE
