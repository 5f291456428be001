SPECIFICATION Spec
CONSTANTS
    Numbers <- MCNumbers
    MaxGames = 1
    MaxGo = 1
    MaxFaults = 1
    Configs <- NodesRecover
PROPERTIES CrashNoticed
CHECK_DEADLOCK FALSE
