CONSTANTS
    Wire = Wire
    UWireNet = UWireNet
    UDNTNet = UDNTNet
    StaticVar = StaticVar
    AutoVar = AutoVar
    AssertVar = AssertVar
    ClassVar = ClassVar
    MpPort = MpPort
    CombA = CombA
    FFB = FFB
    AlwaysC = AlwaysC
    InitialI = InitialI
    SubS = SubS
    Body = Body
    Symbols <- MCSymbols
    SymInfo <- MCSymInfo
    Containers <- MCContainers
    DriverUniverse <- MCDriverUniverse
    AllowDupInitialDrivers = FALSE
    MaxAdds = 3

SPECIFICATION Spec
INVARIANT TypeOK
INVARIANT GetDriversComplete
INVARIANT ErrorIffIllegalPair
CHECK_DEADLOCK FALSE
