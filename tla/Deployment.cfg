CONSTANTS
    Servers <- Two
    Budget = 2
SPECIFICATION FairSpec
INVARIANTS TypeOK AtMostOnce CommittedIsStored
PROPERTIES RetryReaches EndsIfServersStay
CHECK_DEADLOCK FALSE
