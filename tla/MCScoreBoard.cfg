SPECIFICATION Spec
CONSTANTS
    First = First
    Second = Second
    Rounds <- MCRounds
    GamesPerRound = 2
    ReportPenta = TRUE
    NoSwap = FALSE
INVARIANTS ScoreExact PentaExact
PROPERTY ImplementsTally
CHECK_DEADLOCK FALSE
