SPECIFICATION Spec
CONSTANTS
    Projects = {p, q}
    Terminals = {s, t}
    TabIds = {t1, t2, t3}
    None = None
    MaxPinned = 1
    PinProjects = 1
    MAX_CLOSED = 1
    MAX_WORKSPACE_TABS = 2
    MAX_WORKSPACE_HISTORY = 2
    Events = {"pin", "panes", "focus", "create", "delete", "move", "restart"}
SYMMETRY Symmetric
INVARIANTS
    TypeOK
    ShownPanesExist
    OnScreenIsSaved
    HistoryIsTheView
PROPERTIES
    OthersKeepTheirs
    PastIsKept
