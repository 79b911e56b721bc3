SPECIFICATION ReadSpec
CONSTANTS
    Nil = Nil
    Foreign = Foreign
    Totals <- AllTotals
    Sizes = {1, 2}
    Limits = {1, 2, 3}
    Offsets <- AllOffsets
    MaxPages = 3
    Junk = 2
INVARIANTS ConfiguredIsRead
