CONSTANTS
    BodyM = BodyM
    BodyP = BodyP
    M2 = M2
    M3 = M3
    P2 = P2
    D1 = D1
    D2 = D2
    NoBody = NoBody
    Bodies <- MCBodies
    Instances <- MCInstances
    CanonicalBody <- MCCanonicalBody
    ParentPortBody <- MCParentPortBody
    DriverIds <- MCDriverIds
    DriverBody <- MCDriverBody
    Tasks <- MCTasks
    TaskOp <- MCTaskOp

SPECIFICATION Spec
INVARIANT TypeOK
INVARIANT NoDuplicateSideEffect
PROPERTY EventuallyAllApplied
CHECK_DEADLOCK FALSE
