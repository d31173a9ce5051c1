\* Fixed pools and pools that grow, first fit and best fit, with and without
\* AutoAdapt; a pool that is empty and at MaxPud has no step.
CHECK_DEADLOCK FALSE
SPECIFICATION Spec
CONSTANTS
    Sizes = {1, 3, 6, 7}
    Places = {100, 200, 300}
    FixedSize = 11
    PudSize = 5
    ThresSize = 5
    MaxBlocks = 3
    MaxPud = 8
INVARIANTS MemoryIsTiled PuddlesAreUsed LargeOnesLast
