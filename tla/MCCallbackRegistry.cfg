\* Every property of the reader and its callbacks that holds.
SPECIFICATION Spec
CONSTANTS
    Size = 2
    Sizes <- MCSizes
    Widths <- MCWidths
    Orders <- MCOrders
    Handed <- MCHanded
    MaxDepth = 2
INVARIANTS
    TypeOK
    Bounded
    Confined
    EscapesOnlyNested
