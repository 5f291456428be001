SPECIFICATION Spec
CONSTANTS
    MaxReads = 2
    MaxLines = 2
PROPERTIES TimeoutReached
CHECK_DEADLOCK FALSE
