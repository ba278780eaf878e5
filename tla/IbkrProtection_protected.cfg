SPECIFICATION FairSpec
CONSTANTS
    MaxEntries = 1
    MaxFaults = 1
    None = None
PROPERTY PairIsRecognised
PROPERTY PositionIsProtected
PROPERTY ExitIsRecorded
CHECK_DEADLOCK FALSE
