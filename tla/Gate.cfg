SPECIFICATION MCSpec
CONSTANTS
    None = None
    child = child
    sibling = sibling
    tale = tale
    kids = kids
    pilot = pilot
    saga = saga
    Covers <- MCCovers
    Bare <- MCBare
    Literal = {"shows", "news"}
    Complex = {}
    Days = 1
    Slots = 1
    Thread = {1}
    Lists <- MCLists
    Threshold = 1
    Audiences <- MCAudiences
    Modes = {"splice", "bump", "trusted"}
    Windows = {}
    Durations = {}
    DeviceForms <- MCForms
    Paths = {"/"}
    Person = {child, sibling, kids, 1, 2, 3}
    MaxTime = 2
    MaxEdits = 1
    Flow = {1, 2}
    Client = {"a", "b", "c", "d"}
    Lan = {"a", "b", "c"}
    Series = {saga, tale}
    Missing = missing
    Object = {pilot}
    Requests <- MCRequests
    Root = "/"
    DedupeWindow = 0
    PositiveTtl = 1
    NegativeTtl = 1
    MaxSpent = 5
    EditCost = 2
PROPERTIES  ShowsAreCurrent OnlyUnknownFailsClosed 
CHECK_DEADLOCK FALSE
