SPECIFICATION Spec
CONSTANTS
    First = First
    Second = Second
    Rounds <- MCRounds
    GamesPerRound = 2
    ReportPenta = TRUE
    NoSwap = TRUE
INVARIANTS ScoreExact

CHECK_DEADLOCK FALSE
