SPECIFICATION Spec
CONSTANTS
    HardwareThreads = 2
    MaxInt = 2147483647
    SprtRounds = 3
    QuickRounds = 3
    EngineFiles = {"e1"}
    Library <- MCLibrary
    Rand <- MCRand
    CommandLines <- MCCommandLines
    Seeds = {1, 2}
    NoSession = NoSession
INVARIANTS StartsSound SameOpenings Resumable ResultsOfTheseEngines
CHECK_DEADLOCK FALSE
