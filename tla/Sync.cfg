SPECIFICATION LiveSpec
CONSTANTS
    Tasks = {t1, t2}
    MaxNest = 2
INVARIANTS OneOwner NothingLeft
PROPERTIES WaitsEnd DeviceEnds
CHECK_DEADLOCK FALSE
