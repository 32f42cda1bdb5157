SPECIFICATION Spec
CONSTANTS
    Mac = {ma, mb}
    Ip = {i1, i2}
    NoMac = none
    NoIp = nowhere
    OwnLan = {i1}
    Resolver = {r1, r2}
    MaxAdds = 2
    MaxStarts = 2
SYMMETRY Symmetric
INVARIANTS
    LatestIsActive
    HealNeverRaises
PROPERTY
    SightingRevivesNothing
