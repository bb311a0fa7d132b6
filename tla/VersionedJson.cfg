SPECIFICATION StorageSpec
CONSTANTS
    Missing = Missing
    Bad = Bad
    MaxEdits = 2
    MaxFaults = 3
INVARIANTS AcknowledgedSurvives OriginalsKept LastGoodIsGood
