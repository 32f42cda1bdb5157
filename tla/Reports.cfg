SPECIFICATION MCSpec
CONSTANTS
    None = None
    child = child
    kids = kids
    saga = saga
    Covers <- MCCovers
    Bare <- MCSame
    Literal = {"shows", "news"}
    Complex = {}
    Days = 1
    Slots = 1
    Thread = {1, 2}
    Lists <- MCLists
    Threshold = 1
    Audiences <- MCAudiences
    Modes = {"splice"}
    Windows = {}
    Durations = {}
    DeviceForms <- MCForms
    Paths = {"/"}
    Person = {child, kids, 1, 2, 3}
    MaxTime = 1
    MaxEdits = 1
    Flow = {}
    Client = {"a", "b"}
    Lan = {}
    Series = {saga}
    Missing = missing
    Object = {}
    Requests = {}
    Root = "/"
    DedupeWindow = 0
    PositiveTtl = 1
    NegativeTtl = 1
    MaxSpent = 2
    EditCost = 1
    Limit = 2
    Retention = 0
    Queries <- MCQueries
    Site <- MCSame
    MaxQueries = 3
INVARIANTS TypeOK WatermarkSound
PROPERTIES EveryQueryIsSeen 
