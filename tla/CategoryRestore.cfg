SPECIFICATION FairSpec
CONSTANTS
    Domain = {d1, d2}
    d1 = d1
    d2 = d2
    whole = whole
    part = part
    Url = {whole, part}
    None = none
    Served <- Split
    Includes <- OneInclude
    Loop = loop
    Route = {r1}
    MaxId = 1
    MaxEdits = 0
    MaxRestores = 1
    MaxPublishes = 0
    MaxFailures = 0
    MaxEvents = 1
PROPERTY SyncRepopulates
