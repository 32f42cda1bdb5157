SPECIFICATION FairSpec
CONSTANTS
    Domain = {d1, d2}
    d1 = d1
    d2 = d2
    whole = whole
    part = part
    Url = {whole, part}
    None = none
    Served <- Split
    Includes <- OneInclude
    Loop = loop
    Route = {r1}
    MaxId = 1
    MaxEdits = 2
    MaxRestores = 1
    MaxPublishes = 1
    MaxFailures = 1
    MaxEvents = 3
INVARIANTS TypeOK NoLeftovers
PROPERTY Converges
CHECK_DEADLOCK FALSE
