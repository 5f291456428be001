SPECIFICATION Spec
CONSTANTS
    Numbers <- MCNumbers
    MaxGames = 2
    MaxGo = 2
    MaxFaults = 1
    Configs <- MCConfigs
INVARIANTS AnswerOfTheQuestion PlaysConfigured LeftToMain
PROPERTIES WokenForGood Interruptible SilenceLoses
CHECK_DEADLOCK FALSE
