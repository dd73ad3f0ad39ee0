CONSTANTS
    W = W
    U = U
    V = V
    Inst1 = Inst1
    BodyB = BodyB
    FFProc = FFProc
    Clk = Clk
    C1 = C1
    C2 = C2
    C3 = C3
    C4 = C4
    C5 = C5
    C6 = C6
    C7 = C7
    C8 = C8
    C9 = C9
    C10 = C10
    NoBody = NoBody
    NoSym = NoSym
    Symbols = {W, U, V}
    SymInfo <- FESymInfo
    Containers = {Inst1, BodyB, FFProc, Clk}
    AllowDupInitialDrivers = FALSE
    MaxAdds = 10
    Bodies = {}
    Instances = {}
    CanonicalBody <- EmptyFn
    ParentPortBody <- EmptyFn
    DriverIds = {}
    DriverBody <- EmptyFn
    NoteTasks = {}
    TaskOp <- EmptyFn
    Origin <- EmptyFn
    DirectTasks = {C1, C2, C3, C4, C5, C6, C7, C8, C9, C10}
    Direct <- FEDirect
    Retarget <- EmptyFn

SPECIFICATION Spec
INVARIANT FinalDriversMatchDesign
INVARIANT FinalVerdict
CHECK_DEADLOCK FALSE
