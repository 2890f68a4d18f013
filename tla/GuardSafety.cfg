SPECIFICATION Spec
CONSTANTS
    Values <- MCValues
    MaxCount = 3
    MaxDispatches = 2
INVARIANTS TypeOK FaultSummaryHonest AllOrNothing
