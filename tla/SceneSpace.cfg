SPECIFICATION Spec
SYMMETRY Symmetry
CONSTANTS
    s1 = s1
    s2 = s2
    None = None
    Session <- MCSession
    Pawn <- MCPawn
    Row = 4
    BlockSize = 2
    ViewSize = 2
    Widths = {2, 3}
    ScrollWidth = 1
    ColumnAt = 2
INVARIANTS TypeOK Drawn Viewed LegendRight
CHECK_DEADLOCK FALSE
