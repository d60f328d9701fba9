SPECIFICATION Spec
CONSTANTS
    s1 = s1
    s2 = s2
    l1 = l1
    l2 = l2
    Tabs = {t1, t2}
    StatusIds = {s1, s2}
    LinkIds = {l1, l2}
    None = None
    Point = Point
    Toolbox = Toolbox
    Names = {n0, 1}
    Numerals = {1}
    NoName = n0
    MaxCode = 2
    MaxCells = 3
SYMMETRY Symmetry
INVARIANTS
    TypeOK
    ExportIsMasters
PROPERTIES
    CodesStayUnique
    LinkKept
    LoadedAsSaved
