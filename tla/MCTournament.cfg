SPECIFICATION Spec
CONSTANTS
    Workers = {w1, w2}
    NoWorker = NoWorker
    NoGame = NoGame
    First = First
    Second = Second
    RoundCount = 2
    GamesPerRound = 2
    ReportPenta = TRUE
    NoSwap = FALSE
    Results = {"WIN"}
    SaveInterval = 2
    Sprt = TRUE
    Recover = FALSE
    Faults = {"disconnect", "startfail", "exception", "interrupt", "kill"}
    MaxSessions = 2
INVARIANTS CountExact CompleteMeansAll FinalScoreOnce SavedAll PgnAgrees
PROPERTIES UsesBoard TerminatesUnlessLost
CHECK_DEADLOCK FALSE
