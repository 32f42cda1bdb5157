SPECIFICATION MCSpec
CONSTANTS
    None = None
    child = child
    kids = kids
    f1 = f1
    Covers <- MCCovers
    Bare <- MCBare
    Literal = {"site", "app", "doh"}
    Complex = {}
    Days = 7
    Slots = 3
    Client = {1, 2}
    Thread = {1}
    Lists <- MCLists
    Threshold = 1
    Audiences <- MCAudiences
    Modes = {"splice", "bump", "trusted"}
    Windows <- MCWindows
    Durations = {1}
    DeviceForms <- MCForms
    Paths = {"/"}
    Person = {child, kids, 1, 2}
    MaxTime = 1
    MaxMishaps = 3
    MaxEdits = 1
    Canary = {"doh"}
    BlockPage = "optigate"
    Foreign = {f1}
    Name = {"a", "b"}
INVARIANTS TypeOK AdminRulesSurvive DnsAgreesWithDb StreakIsReported WindowsAreIntervals
PROPERTY Converges
