SPECIFICATION Spec
CONSTANTS
    Configs <- MCConfigs
INVARIANTS VerdictAgrees ResignEarned DrawEarned ClockFair RecordAgrees
PROPERTIES EveryMatchEnds
CHECK_DEADLOCK FALSE
