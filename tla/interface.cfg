SPECIFICATION Spec
CONSTANTS
    None = None
    Typed = {p1, p2}
    Asked = {x1}
    Compaction = {c1, c2}
    Widget = {w1, w2, w3}
    MaxTasks = 2
    Contents <- ThreeContents
    MaxMessages = 2
    MaxDeltas = 1
    MaxCommands = 1
    Window = 2
    Page = 1
    Overscan = 2
    MaxItems = 6
    MaxMade = 8
SYMMETRY Symmetry
CHECK_DEADLOCK FALSE
INVARIANTS RunsKeptApart PlacesSettle  
