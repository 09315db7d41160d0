SPECIFICATION Spec
CONSTANTS
    Procedures <- MCProcedures
    AAngles <- MCAAngles
    BAngles <- MCBAngles
    CheckAngle = 1
    Gamma = 1
    R <- MCR
    S1 <- MCS1
    S2Now <- MCS2Now
    M <- MCM
    ClampLevels <- MCClampLevels
    ProdLevel = 300
    Drifts <- MCDrifts
    ReproMax = 80
    CheckMax = 120
INVARIANTS
    PassingIsTrue
    GoodStationPasses
    OutAndBackCancels
    OldProcedureIsBlind
CHECK_DEADLOCK FALSE
