SPECIFICATION Spec
CONSTANTS
    AGGREGATION_STEP = 1
    MaxTime = 3
    MaxMeasure = 1
    MaxRuns = 2
    MaxPoints = 5
INVARIANTS RowsAreTheReference AveragesExist
CHECK_DEADLOCK FALSE
