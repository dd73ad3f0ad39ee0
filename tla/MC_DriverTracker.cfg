CONSTANTS
    X1 = X1
    X2 = X2
    X3 = X3
    ProcA = ProcA
    ProcB = ProcB
    ProcP = ProcP
    IfcBody = IfcBody
    BodyM = BodyM
    BodyP = BodyP
    M2 = M2
    Q2 = Q2
    DA = DA
    DB = DB
    TP = TP
    NoBody = NoBody
    NoSym = NoSym
    Symbols <- MCSymbols
    SymInfo <- MCSymInfo
    Containers <- MCContainers
    AllowDupInitialDrivers = FALSE
    MaxAdds = 7
    Bodies <- MCBodies
    Instances <- MCInstances
    CanonicalBody <- MCCanonicalBody
    ParentPortBody <- MCParentPortBody
    DriverIds <- MCDriverIds
    DriverBody <- MCDriverBody
    NoteTasks <- MCNoteTasks
    TaskOp <- MCTaskOp
    Origin <- MCOrigin
    DirectTasks <- MCDirectTasks
    Direct <- MCDirect
    Retarget <- MCRetarget

SPECIFICATION Spec
INVARIANT TypeOK
INVARIANT FinalDriversMatchDesign
INVARIANT FinalVerdict
CHECK_DEADLOCK FALSE
