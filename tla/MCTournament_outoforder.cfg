SPECIFICATION Spec
CONSTANTS
    Workers = {w1, w2}
    NoWorker = NoWorker
    NoGame = NoGame
    First = First
    Second = Second
    RoundCount = 2
    GamesPerRound = 2
    ReportPenta = TRUE
    NoSwap = FALSE
    Results = {"WIN"}
    SaveInterval = 1
    Sprt = FALSE
    Recover = FALSE
    Faults = {"interrupt"}
    MaxSessions = 2
INVARIANTS EveryGamePlayed
CHECK_DEADLOCK FALSE
