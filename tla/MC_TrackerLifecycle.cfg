CONSTANTS
    Y1 = Y1
    Y2 = Y2
    P1 = P1
    P2 = P2
    P3 = P3
    P4 = P4
    P5 = P5
    ProcA = ProcA
    ProcB = ProcB
    ProcC = ProcC
    ProcP = ProcP
    IfcBody = IfcBody
    BodyM = BodyM
    M2 = M2
    DA = DA
    DB = DB
    DC = DC
    TP = TP
    NoBody = NoBody
    NoSym = NoSym
    NoConn = NoConn
    Symbols <- LCSymbols
    SymInfo <- LCSymInfo
    Containers <- LCContainers
    AllowDupInitialDrivers = FALSE
    MaxAdds = 13
    Bodies <- LCBodies
    Instances <- LCInstances
    CanonicalBody <- LCCanonicalBody
    ParentPortBody <- LCParentPortBody
    DriverIds <- LCDriverIds
    DriverBody <- LCDriverBody
    NoteTasks <- LCNoteTasks
    TaskOp <- LCTaskOp
    Origin <- LCOrigin
    DirectTasks <- LCDirectTasks
    Direct <- LCDirect
    Retarget <- LCRetarget
    ModportConn <- LCModportConn
    ContainerSource <- LCContainerSource
    Rows = {0, 1}
    Cols = {0, 1}

SPECIFICATION Spec
PROPERTY EventuallyAllLanded
CHECK_DEADLOCK FALSE
