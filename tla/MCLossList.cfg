CONSTANTS
    MAX = 15
    THRESHOLD = 7
    Bases = {3, 11, 15}
    Window = 6
SPECIFICATION ListSpec
INVARIANTS
    SortedDisjoint
    OrderIsDistance
    LengthIsDistance
PROPERTY
    ImplementsLossSet
