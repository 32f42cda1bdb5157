SPECIFICATION Spec
CONSTANTS
    Mac = {ma, mb}
    Ip = {i1, i2}
    NoMac = none
    NoIp = nowhere
    OwnLan = {i1}
    Resolver = {r1, r2}
    MaxAdds = 0
    MaxStarts = 1
SYMMETRY Symmetric
INVARIANT
    OneActivePerIp
