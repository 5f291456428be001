SPECIFICATION GamesSpec
CONSTANTS
    Workers = {w1, w2}
    Ids = {e1, e2}
    NoWorker = NoWorker
    Topologies <- MCTopologies
SYMMETRY MCSymmetry
INVARIANTS UnavailableIffHeld EnginesBounded NeverExhausted CoresApart
PROPERTIES ImplementsLease CoresLent
CHECK_DEADLOCK FALSE
