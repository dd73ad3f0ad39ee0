CONSTANTS
    Wire = Wire
    UWireNet = UWireNet
    UDNTNet = UDNTNet
    StaticVar = StaticVar
    AutoVar = AutoVar
    AssertVar = AssertVar
    ClassVar = ClassVar
    MpPort = MpPort
    CombA = CombA
    FFB = FFB
    AlwaysC = AlwaysC
    InitialI = InitialI
    SubS = SubS
    Body = Body
    Symbols <- MCSymbols
    SymInfo <- MCSymInfoNoInit
    Containers <- MCContainers
    DriverUniverse <- MCDriverUniverse
    AllowDupInitialDrivers = FALSE
    MaxAdds = 2

SPECIFICATION Spec
CHECK_DEADLOCK FALSE
INVARIANT CoercionNamesPortDirection
